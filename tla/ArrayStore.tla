----------------------------- MODULE ArrayStore -----------------------------
(***************************************************************************)
(* A LinearStore that is kept in a file: after a crash each key has one of *)
(* the data it had since the last flush ended.                             *)
(***************************************************************************)
EXTENDS LinearStore

CONSTANT Value

VARIABLE recent   \* the data each key had since the last flush

vars == <<val, recent, pending, call.op, call>>

AInit == Init /\ recent = [k \in Key |-> {Default}]

Change ==
  /\ Put \/ Step
  /\ recent' = [k \in Key |-> recent[k] \cup {val'[k]}]

Look ==
  /\ Read \/ Quiet
  /\ UNCHANGED recent

Flush ==
  /\ call'.op \in {"flushing", "closing"}
  /\ recent' = [k \in Key |-> {val[k]}]
  /\ UNCHANGED <<val, pending>>

Crash ==
  /\ call'.op = "crash"
  /\ val' \in [Key -> Value]
  /\ \A k \in Key : val'[k] \in recent[k]
  /\ recent' = [k \in Key |-> {val'[k]}]
  /\ pending' = <<>>

ANext == Change \/ Look \/ Flush \/ Crash

ASpec == AInit /\ [][ANext]_vars
=============================================================================
