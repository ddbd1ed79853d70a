--------------------------- MODULE MCAsioRuntime ----------------------------
(***************************************************************************)
(* Two threads serve one socket as a session of the programs does: a loop  *)
(* of reads, and a call handled outside the strand that hands its result   *)
(* back to it to be written, after which the socket is closed under the    *)
(* pending read.  The main thread posts while they run and may stop them.  *)
(***************************************************************************)
EXTENDS AsioRuntime

MCThread  == {"t1", "t2"}
MCOutside == {"main"}

Do(what, h) == [do |-> what, h |-> h]
Async(k, h) == [do |-> "async", k |-> k, h |-> h]
Run(t)      == [do |-> "thread", t |-> t]

MCMaxArrivals == [read |-> 1, write |-> 1]

MCScript ==
    [main |-> <<Async("read", "read"), Do("dispatch", "nested"), Run("t1"), Run("t2"),
                Do("io_post", "call"), [do |-> "stop"]>>,
     read   |-> <<Async("read", "read")>>,
     call   |-> <<Do("post", "result")>>,
     result |-> <<Async("write", "wrote")>>,
     wrote  |-> <<Do("dispatch", "nested"), [do |-> "close"]>>,
     nested |-> <<>>]
=============================================================================
