--------------------------- MODULE KeyValueStore ---------------------------
(***************************************************************************)
(* What a data store of gpsee_datastores.c promises every one of its       *)
(* callers: it holds key/value pairs, each as often as it was put and not  *)
(* yet removed; a get or a remove answers with the value of some pair that *)
(* has the key, or with nothing when there is none.                        *)
(***************************************************************************)
EXTENDS Naturals

CONSTANTS Keys, Values,
          Nothing          \* NULL, the answer when no pair has the key

VARIABLES contents,        \* how often each pair is held
          answer           \* the last answer: a key, and its value or Nothing

storeVars == <<contents, answer>>

Pairs == Keys \X Values

Has(k, v) == contents[<<k, v>>] > 0

StoreInit ==
  /\ contents = [p \in Pairs |-> 0]
  /\ answer = <<Nothing, Nothing>>

Insert(k, v) ==
  /\ contents' = [contents EXCEPT ![<<k, v>>] = @ + 1]
  /\ UNCHANGED answer

Overwrite(k, old, v) ==
  /\ Has(k, old)
  /\ contents' = [[contents EXCEPT ![<<k, old>>] = @ - 1] EXCEPT ![<<k, v>>] = @ + 1]
  /\ UNCHANGED answer

Lookup(k, v) ==
  /\ Has(k, v)
  /\ answer' = <<k, v>>
  /\ UNCHANGED contents

Miss(k) ==
  /\ \A v \in Values : ~Has(k, v)
  /\ answer' = <<k, Nothing>>
  /\ UNCHANGED contents

Take(k, v) ==
  /\ Has(k, v)
  /\ contents' = [contents EXCEPT ![<<k, v>>] = @ - 1]
  /\ answer' = <<k, v>>

Delete(k, v) ==
  /\ Has(k, v)
  /\ contents' = [contents EXCEPT ![<<k, v>>] = @ - 1]
  /\ UNCHANGED answer

Clear ==
  /\ contents' = [p \in Pairs |-> 0]
  /\ UNCHANGED answer

StoreNext ==
  \/ \E k \in Keys, v \in Values : Insert(k, v) \/ Lookup(k, v) \/ Take(k, v) \/ Delete(k, v)
  \/ \E k \in Keys, v, w \in Values : Overwrite(k, v, w)
  \/ \E k \in Keys : Miss(k)
  \/ Clear

StoreSpec == StoreInit /\ [][StoreNext]_storeVars
=============================================================================
