------------------------------ MODULE StegoCalls ------------------------------
(***************************************************************************)
(* What stego::embed and stego::extract promise about the text that passes *)
(* between them, each call one step: the abstract specification that the   *)
(* loops of StegoLoops implement, and the view of a call that Watermark    *)
(* takes.  Which byte a run stands for is left to Watermark: here a run    *)
(* names its shard.                                                        *)
(***************************************************************************)
EXTENDS Carrier, TextInputs

VARIABLES
  call,      \* "embed" or "extract": the function that was called last
  text,      \* its argument
  placed,    \* history: what the last embedding placed, and where
  outcome    \* what the call returned, once it has

vars == <<call, text, placed, outcome>>

Running == [status |-> "running"]
ContentTooShort == [status |-> "ContentTooShort"]
Marked(t) == [status |-> "marked", out |-> t]
Erased == << >>
ReadAs(sh) == [status |-> "read", shards |-> sh]

GapCount(t) == Cardinality(WordEnds(t))

(* host is the text that was marked, order the gap rank of each shard. *)
Nowhere == [host |-> << >>, order |-> << >>]
PlacedIn(t, ord) == [host |-> t, order |-> ord]

(* The generator is seeded with the key and the content hash, which the    *)
(* texts between the two calls share: for as many gaps it draws the order  *)
(* it drew before.                                                         *)
Draws(n) ==
  {ord \in Orders(n) :
     placed # Nowhere /\ GapCount(placed.host) = n => ord = placed.order}

Init ==
  /\ call \in {"embed", "extract"}
  /\ text \in Texts
  /\ placed = Nowhere
  /\ outcome = Running

(* Either function, before it places or reads anything. *)
TooShort ==
  /\ outcome = Running
  /\ GapCount(IF call = "embed" THEN text ELSE Strip(text)) < TOTAL_SHARDS
  /\ outcome' = ContentTooShort
  /\ UNCHANGED <<call, text, placed>>

Embed ==
  /\ call = "embed" /\ outcome = Running
  /\ GapCount(text) >= TOTAL_SHARDS
  /\ \E ord \in Draws(GapCount(text)) :
       \E ins \in SortedInsertions(text, ord, Run) :
         /\ outcome' = Marked(Woven(text, ins))
         /\ placed' = PlacedIn(text, ord)
  /\ UNCHANGED <<call, text>>

(* The marked text reaches extract, as it is or one zero-width character   *)
(* short.                                                                  *)
Deliver ==
  /\ outcome.status = "marked"
  /\ \/ text' = outcome.out
     \/ \E i \in {j \in 1..Len(outcome.out) : IsZeroWidth(outcome.out[j])} :
          text' = RemoveAt(outcome.out, i)
  /\ call' = "extract"
  /\ outcome' = Running
  /\ UNCHANGED placed

(* A run that has not the length of a shard's run is an erasure. *)
ShardAt(t, r) ==
  LET run == At(t, Filed(t, r, Len(t)))
  IN  IF Len(run) = SYMBOLS_PER_SHARD THEN run ELSE Erased

Extract ==
  /\ call = "extract" /\ outcome = Running
  /\ GapCount(Strip(text)) >= TOTAL_SHARDS
  /\ \E ord \in Draws(GapCount(Strip(text))) :
       outcome' = ReadAs([s \in Shards |-> ShardAt(text, ord[s])])
  /\ UNCHANGED <<call, text, placed>>

Next == TooShort \/ Embed \/ Deliver \/ Extract

Spec == Init /\ [][Next]_vars
=============================================================================
