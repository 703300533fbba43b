------------------------------- MODULE Carver -------------------------------
(***************************************************************************)
(* What a scan for candidate blocks is to find, whatever the order it      *)
(* looks at them in: the type of every block it is to look at, for the     *)
(* blocks of a region file's header their location too, for the first      *)
(* blocks of chunks at least their number.  A scan may fail, but it does   *)
(* not claim to be complete before it is.                                  *)
(***************************************************************************)
EXTENDS Naturals

CONSTANT Blocks   \* block numbers

Tables == {"timestamps", "offsets"}   \* the types recorded with their location
Types == Tables \cup {"chunk"}

VARIABLES
  types,      \* of the blocks to look at, fixed when the scan begins
  examined,   \* the blocks looked at
  listed,     \* the tables found among them
  chunks,     \* how many of them begin a chunk
  status

vars == <<types, examined, listed, chunks, status>>

Init ==
  /\ types = << >>
  /\ examined = {}
  /\ listed = {}
  /\ chunks = 0
  /\ status = "idle"

Begin ==
  /\ status = "idle"
  /\ \E found \in SUBSET Blocks : types' \in [found -> SUBSET Types]
  /\ status' = "scanning"
  /\ UNCHANGED <<examined, listed, chunks>>

Examine(b) ==
  /\ status = "scanning"
  /\ b \in DOMAIN types \ examined
  /\ examined' = examined \cup {b}
  /\ listed' = listed \cup ((types[b] \cap Tables) \X {b})
  /\ chunks' = chunks + (IF "chunk" \in types[b] THEN 1 ELSE 0)
  /\ UNCHANGED <<types, status>>

Complete ==
  /\ status = "scanning"
  /\ examined = DOMAIN types
  /\ status' = "complete"
  /\ UNCHANGED <<types, examined, listed, chunks>>

Fail ==
  /\ status \in {"idle", "scanning"}
  /\ status' = "failed"
  /\ UNCHANGED <<types, examined, listed, chunks>>

Next == Begin \/ (\E b \in Blocks : Examine(b)) \/ Complete \/ Fail

Spec == Init /\ [][Next]_vars
=============================================================================
