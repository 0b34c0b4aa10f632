----------------------------- MODULE LeafStore -----------------------------
(***************************************************************************)
(* What a leaf promises the tree above it: it holds the entries put into   *)
(* it, whatever its format, and when it splits each half holds the entries *)
(* within its own bounds.                                                  *)
(***************************************************************************)
EXTENDS LeafRules, SequencesExt

VARIABLES
  entries, lower, upper, type,  \* the leaf that is followed
  useDense, splitter,           \* how the tree was created
  call

leafVars == <<entries, lower, upper, type>>

Init ==
  /\ entries = NoEntries
  /\ type = "sparse"
  /\ call.op = "create"

Put ==
  LET m == WithEntry(entries, call'.arg.key, call'.arg.datum)
      ks == DOMAIN m
      leaf == [type |-> type, lower |-> lower, upper |-> upper]
      Half(spKey, i) ==
        /\ \E types \in TypesUsed(SplitTypes(leaf, ks, spKey, useDense)) : type' = types[i]
        /\ lower' = IF i = 1 THEN lower ELSE spKey
        /\ upper' = IF i = 1 THEN spKey ELSE upper
        /\ entries' = Part(m, lower', upper')
  IN  /\ call'.op = "put"
      /\ call'.answer = PutAnswer(type, ks)
      /\ CASE call'.answer = "kOK" -> entries' = m /\ UNCHANGED <<lower, upper, type>>
           [] call'.answer = "kSwitchFormat" /\ useDense ->
                entries' = m /\ type' = Other(type) /\ UNCHANGED <<lower, upper>>
           [] OTHER -> \E spKey \in SplitKeys(splitter, leaf, ks, useDense), i \in 1..2 :
                         Half(spKey, i)

Read ==
  /\ \/ /\ call'.op = "get"
        /\ call'.answer = IF call'.arg \in DOMAIN entries THEN entries[call'.arg] ELSE Default
     \/ /\ call'.op = "batchGet"
        /\ LET m == Part(entries, call'.arg[1], call'.arg[2])
               found == {[key |-> k, datum |-> m[k]] : k \in DOMAIN m}
               answer == call'.answer
           IN  /\ answer \in Seq(found) /\ Range(answer) = found
               /\ \A i, j \in DOMAIN answer : i < j => answer[i].key < answer[j].key
     \/ call'.op = "reload"
  /\ UNCHANGED leafVars

Next == (Put \/ Read) /\ UNCHANGED <<useDense, splitter>>

Spec == Init /\ [][Next]_<<leafVars, useDense, splitter, call.op, call>>
=============================================================================
