---------------------------- MODULE LinearStore ----------------------------
(***************************************************************************)
(* What a LinearStorage promises its callers (lower/LinearStorage.h): a    *)
(* map from keys to data in which every get answers what the last put      *)
(* left.  A batch put takes effect in several steps, a prefix of what is   *)
(* left of it at a time.                                                   *)
(***************************************************************************)
EXTENDS Integers, SequencesExt

CONSTANTS
  Key, Default,
  OutOfRange,   \* the answer of a get whose key is out of range
  PutAnswers    \* the answers of a put that succeeds

VARIABLES
  val,      \* the datum of every key
  pending,  \* the entries of the current batch still to be put
  call      \* the last step of a call: name, argument and answer

Init ==
  /\ val = [k \in Key |-> Default]
  /\ pending = <<>>
  /\ call.op = "create"

(* Each key gets the datum of its last entry; an entry whose key is out of *)
(* range changes nothing.                                                  *)
After(m, es) ==
  [k \in Key |-> LET own == {i \in DOMAIN es : es[i].key = k}
                 IN  IF own = {} THEN m[k] ELSE es[Max(own)].datum]

Put ==
  /\ call'.op = "put"
  /\ IF call'.arg.key \in Key THEN call'.answer \in PutAnswers
                             ELSE call'.answer = "kOutOfBound"
  /\ pending = <<>>
  /\ val' = After(val, <<call'.arg>>)
  /\ UNCHANGED pending

Step ==
  /\ call'.op \in {"batchPut", "batchPutVector", "batchPutRange"}
  /\ LET es == call'.arg.left
     IN  /\ pending \in {<<>>, es}
         /\ \E n \in 1..Len(es) : /\ call'.arg.group = SubSeq(es, 1, n)
                                  /\ pending' = SubSeq(es, n + 1, Len(es))
  /\ val' = After(val, call'.arg.group)

(* The gets, each with its own form of answer. *)
Answers(op, arg, answer) ==
  CASE op = "get" -> answer = IF arg \in Key THEN val[arg] ELSE OutOfRange
    [] op = "batchGet" ->
         answer = [i \in DOMAIN arg |-> IF arg[i] \in Key THEN val[arg[i]] ELSE Default]
    [] op = "batchGetRange" -> answer = [i \in 0..arg[2]-arg[1]-1 |-> val[arg[1] + i]]
    [] op = "batchGetVector" ->
         LET found == {[key |-> k, datum |-> val[k]] :
                         k \in {k \in arg[1]..arg[2]-1 : val[k] # Default}}
         IN  /\ answer \in Seq(found) /\ Range(answer) = found
             /\ \A i, j \in DOMAIN answer : i < j => answer[i].key < answer[j].key

Read ==
  /\ pending = <<>>
  /\ call'.op \in {"get", "batchGet", "batchGetRange", "batchGetVector"}
  /\ Answers(call'.op, call'.arg, call'.answer)
  /\ UNCHANGED <<val, pending>>

Quiet ==
  /\ call'.op \in {"quiet", "reopen"}
  /\ UNCHANGED <<val, pending>>

Next == Put \/ Step \/ Read \/ Quiet

(* Two calls are told apart by their names before their answers, which are *)
(* values of different kinds.                                              *)
Spec == Init /\ [][Next]_<<val, pending, call.op, call>>
=============================================================================
