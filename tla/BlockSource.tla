---------------------------- MODULE BlockSource ----------------------------
(***************************************************************************)
(* What the interface BlockReader promises its caller: every block of the  *)
(* image is the same whenever it is read.  read_block delivers it or       *)
(* throws, in any order of calls, and there is no third outcome.  Which    *)
(* blocks are in use is settled before the first call.                     *)
(***************************************************************************)
EXTENDS Naturals

CONSTANTS
  Numbers,    \* block numbers a caller may ask for
  Nothing     \* no call has returned yet

VARIABLES
  content,    \* of the blocks the source can deliver, never written
  allocated,  \* the blocks it says are in use
  answer      \* what the last call returned

Init ==
  /\ allocated = {}
  /\ answer = Nothing

Attach ==
  /\ answer = Nothing
  /\ allocated' \in SUBSET Numbers
  /\ UNCHANGED <<content, answer>>

Read(b) ==
  /\ \/ b \in DOMAIN content /\ answer' = <<"block", b, content[b]>>
     \/ answer' = <<"thrown", b>>
  /\ UNCHANGED <<content, allocated>>

AskAllocated(b) ==
  /\ answer' = <<IF b \in allocated THEN "used" ELSE "free", b>>
  /\ UNCHANGED <<content, allocated>>

Next == Attach \/ \E b \in Numbers : Read(b) \/ AskAllocated(b)

Spec == Init /\ [][Next]_<<content, allocated, answer>>
=============================================================================
