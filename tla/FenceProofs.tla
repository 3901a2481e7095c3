---------------------------- MODULE FenceProofs -----------------------------
(***************************************************************************)
(* What the fenced writes do to a row, for every set of images, and the    *)
(* extremal elements of sets of numbers.                                   *)
(***************************************************************************)
EXTENDS Fence, FiniteSetsExt, WellFoundedInduction, TLAPS

\* A fenced write turns a row, or no row, into a row.
LEMMA WritesTyped ==
  ASSUME NEW Img, NullImage \in Img,
         NEW row \in Row(Img) \cup {NoRow}, NEW lsn \in Nat, NEW val \in Img
  PROVE  /\ FencedUpsert(row, lsn, val) \in Row(Img)
         /\ FencedDelete(row, lsn) \in Row(Img)
         /\ MergeStaging(row, lsn, val) \in Row(Img)
BY DEF FencedUpsert, FencedDelete, MergeStaging, Fenced, Row

\* A fenced write leaves an LSN that is neither below the stored one nor below
\* the written one: stale writes are no-ops, newer ones land.
LEMMA WritesAdvance ==
  ASSUME NEW Img, NullImage \in Img,
         NEW row \in Row(Img) \cup {NoRow}, NEW lsn \in Nat, NEW val \in Img,
         NEW new, \/ new = FencedUpsert(row, lsn, val)
                  \/ new = FencedDelete(row, lsn)
                  \/ new = MergeStaging(row, lsn, val)
  PROVE  /\ new.lsn >= lsn
         /\ row # NoRow => new.lsn >= row.lsn
         /\ new.lsn = lsn \/ (row # NoRow /\ new = row)
<1>1. CASE new = FencedUpsert(row, lsn, val)
  BY <1>1 DEF FencedUpsert, Fenced, Row
<1>2. CASE new = FencedDelete(row, lsn)
  BY <1>2 DEF FencedDelete, Fenced, Row
<1>3. CASE new = MergeStaging(row, lsn, val)
  BY <1>3 DEF MergeStaging, Fenced, Row
<1>. QED
  BY <1>1, <1>2, <1>3

-----------------------------------------------------------------------------
(***************************************************************************)
(* Extremal elements.                                                      *)
(***************************************************************************)

\* A non-empty set of naturals has a least element.
LEMMA LeastNat ==
  ASSUME NEW T \in SUBSET Nat, T # {}
  PROVE  \E x \in T : \A y \in T : x <= y
<1> DEFINE R == {ss \in Nat \X Nat : ss[1] < ss[2]}
<1>1. IsWellFoundedOn(R, Nat)
  BY NatLessThanWellFounded DEF OpToRel
<1>. HIDE DEF R
<1>2. PICK x \in T : \A y \in T : ~(<<y, x>> \in R)
  BY <1>1, WFMin
<1>3. \A y \in T : ~(y < x)
  BY <1>2 DEF R
<1>. QED
  BY <1>3

\* A non-empty bounded set of naturals has a greatest element.
LEMMA GreatestNat ==
  ASSUME NEW b \in Nat, NEW T \in SUBSET (0..b), T # {}
  PROVE  /\ \E x \in T : \A y \in T : x >= y
         /\ Max(T) \in T
         /\ \A y \in T : Max(T) >= y
<1> DEFINE D == {b - t : t \in T}
<1>1. D \in SUBSET Nat /\ D # {}
  <2>1. \A t \in T : b - t \in Nat /\ b - t \in D
    OBVIOUS
  <2>. QED
    BY <2>1
<1>2. PICK d \in D : \A e \in D : d <= e
  BY <1>1, LeastNat
<1>3. PICK x \in T : d = b - x
  BY <1>2
<1>4. \A y \in T : x >= y
  <2>. TAKE y \in T
  <2>1. b - x <= b - y
    BY <1>2, <1>3
  <2>. QED
    BY <2>1
<1>. QED
  BY <1>4 DEF Max

=============================================================================
