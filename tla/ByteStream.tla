----------------------------- MODULE ByteStream -----------------------------
(***************************************************************************)
(* What a pipe promises: a bounded first-in first-out stream of bytes with *)
(* a writing end and a reading end.  delivered is the byte the last step   *)
(* handed to a reader, None when it handed over none.                      *)
(***************************************************************************)
EXTENDS Naturals, Sequences

CONSTANTS Val, Capacity, None

VARIABLES stream, open, delivered

Init == stream = <<>> /\ open = {} /\ delivered = None

Open  == open = {} /\ stream = <<>> /\ open' = {"r", "w"} /\ delivered' = None /\ UNCHANGED stream

Put(v) ==
  /\ "w" \in open /\ Len(stream) < Capacity
  /\ stream' = Append(stream, v) /\ delivered' = None
  /\ UNCHANGED open

Get ==
  /\ "r" \in open /\ stream # <<>>
  /\ stream' = Tail(stream) /\ delivered' = Head(stream)
  /\ UNCHANGED open

Close(e) == e \in open /\ open' = open \ {e} /\ delivered' = None /\ UNCHANGED stream

(* Bytes nobody can read any more are dropped with the buffer. *)
Drop == open = {} /\ stream' = <<>> /\ delivered' = None /\ UNCHANGED open

Pass == delivered' = None /\ UNCHANGED <<stream, open>>

Next == Open \/ (\E v \in Val : Put(v)) \/ Get \/ (\E e \in {"r", "w"} : Close(e)) \/ Drop \/ Pass

Spec == Init /\ [][Next]_<<stream, open, delivered>>
=============================================================================
