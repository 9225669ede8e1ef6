------------------------------ MODULE OfiWindow ------------------------------
(***************************************************************************)
(* The order-flow-imbalance kernel, class OfiWindow of src/src/features.*: *)
(* a ring of BucketCount time buckets of Width each, addressed by epoch,   *)
(* recycled in place.  Volumes are integers here; doubles hold integers    *)
(* exactly far beyond any 32-bit trade size.                               *)
(*                                                                         *)
(* bought and sold remember the whole past: the volume traded in every     *)
(* epoch.  The kernel is right when what it reports can be recomputed from *)
(* them.                                                                   *)
(*                                                                         *)
(* An operator placed directly above a definition, with the same           *)
(* parameters and no comment, is a way to get that definition wrong.       *)
(***************************************************************************)
EXTENDS Integers, Functions

CONSTANTS
  BucketCount,   \* kBucketCount
  Width,         \* bucket_width_ns_
  Times,         \* timestamps a tick may carry (exchange time, ns)
  Sizes,         \* trade sizes
  MaxLateness,   \* how many epochs behind the newest one a tick may be
  MaxVolume      \* bound on the volume traded in one epoch

ASSUME OfiAssumption ==
  /\ BucketCount \in Nat \ {0}
  /\ Width \in Nat \ {0}
  /\ Times \subseteq Nat
  /\ Sizes \subseteq Nat
  /\ MaxLateness \in Nat
  /\ MaxVolume \in Nat

VARIABLES
  buckets,   \* buckets_
  newest,    \* newest_epoch_
  bought, sold   \* history: volume by epoch

vars == <<buckets, newest, bought, sold>>

Slots == 0 .. BucketCount - 1
Epochs == {t \div Width : t \in Times} \cup {0}
Bucket == [epoch : Epochs, buy : Nat, sell : Nat]
Sides == {"Buy", "Sell", "Unknown"}

Init ==
  /\ buckets = [s \in Slots |-> [epoch |-> 0, buy |-> 0, sell |-> 0]]
  /\ newest = 0
  /\ bought = [e \in Epochs |-> 0]
  /\ sold = [e \in Epochs |-> 0]

\* Ticks the kernel ignores.
Ignored(side, size) == size = 0 \/ side = "Unknown"

\* epoch % kBucketCount
SlotOf(epoch) == epoch % BucketCount

AlwaysRecycled(bucket, epoch) == [epoch |-> epoch, buy |-> 0, sell |-> 0]
\* The bucket that takes a tick of this epoch, emptied if it held another one.
Recycled(bucket, epoch) ==
  IF bucket.epoch = epoch THEN bucket ELSE [epoch |-> epoch, buy |-> 0, sell |-> 0]

\* newest_epoch_ after a tick of this epoch.
NewestAfter(epoch) == IF epoch > newest THEN epoch ELSE newest

\* OfiWindow::update.  MaxLateness is what is assumed of the feed.
Update(ts, side, size) ==
  LET epoch == ts \div Width
      slot == SlotOf(epoch)
      bucket == Recycled(buckets[slot], epoch)
      buy == IF side = "Buy" THEN size ELSE 0
      sell == IF side = "Buy" THEN 0 ELSE size
  IN  /\ epoch >= newest - MaxLateness
      /\ bought[epoch] + sold[epoch] + size <= MaxVolume
      /\ ~Ignored(side, size)
      /\ buckets' = [buckets EXCEPT ![slot] =
                       [bucket EXCEPT !.buy = @ + buy, !.sell = @ + sell]]
      /\ newest' = NewestAfter(epoch)
      /\ bought' = [bought EXCEPT ![epoch] = @ + buy]
      /\ sold' = [sold EXCEPT ![epoch] = @ + sell]

\* OfiWindow::update returns early.
Ignore(side, size) == Ignored(side, size) /\ UNCHANGED vars

Next ==
  \E ts \in Times, side \in Sides, size \in Sizes :
    Update(ts, side, size) \/ Ignore(side, size)

Spec == Init /\ [][Next]_vars

StaleToo(epoch) == epoch <= newest
\* The epochs value() and total_volume() add up.
InWindow(epoch) == epoch >= newest - BucketCount + 1 /\ epoch <= newest

Counted == {s \in Slots : InWindow(buckets[s].epoch)}

\* OfiWindow::value: buys minus sells.
Value == SumFunctionOnSet([s \in Slots |-> buckets[s].buy - buckets[s].sell], Counted)

\* OfiWindow::total_volume.
TotalVolume == SumFunctionOnSet([s \in Slots |-> buckets[s].buy + buckets[s].sell], Counted)

-----------------------------------------------------------------------------
(* Properties *)

TypeOK ==
  /\ buckets \in [Slots -> Bucket]
  /\ newest \in Epochs
  /\ bought \in [Epochs -> Nat]
  /\ sold \in [Epochs -> Nat]

Window == {e \in Epochs : newest - BucketCount < e /\ e <= newest}

(***************************************************************************)
(* For every epoch of the window that ends at the newest one, its bucket   *)
(* holds exactly what was traded in it, or nothing was traded in it: no    *)
(* recycling loses volume that still counts, none keeps volume that no     *)
(* longer does.  This is what makes the sums below right.                  *)
(***************************************************************************)
WindowExact ==
  \A e \in Window :
    LET b == buckets[SlotOf(e)]
    IN  IF b.epoch = e THEN b.buy = bought[e] /\ b.sell = sold[e]
                       ELSE bought[e] = 0 /\ sold[e] = 0

\* features.hpp:27, "OFI = sum(buy_size) - sum(sell_size) inside a moving
\* wall-clock window", recomputed from the whole past; and the companion total is
\* the volume of the same window.
ValueIsImbalance ==
  /\ Value = SumFunctionOnSet([e \in Epochs |-> bought[e] - sold[e]], Window)
  /\ TotalVolume = SumFunctionOnSet([e \in Epochs |-> bought[e] + sold[e]], Window)
=============================================================================
