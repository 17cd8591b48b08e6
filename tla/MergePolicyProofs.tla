------------------------- MODULE MergePolicyProofs -------------------------
(* The merge of pushed items as an algebra: it is what lets pushes reach   *)
(* the server late, twice and in any order.                                *)
EXTENDS MergePolicy, TLAPS

(* Two rows hold the same write; their versions may differ. *)
SameWrite(r, s) ==
    /\ r.isDone = s.isDone
    /\ r.deleted = s.deleted
    /\ r.updatedAt = s.updatedAt
    /\ r.lastModifiedBy = s.lastModifiedBy

(* Only the write counts when decide looks at a row, so a merge can be     *)
(* told by what is written and when.                                       *)
LEMMA MergedIs ==
    ASSUME NEW row \in Row \cup {NoRow}, NEW in \in Item, NEW d \in Devices
    PROVE  /\ Merged(row, in, d) \in Row
           /\ \/ /\ \/ row = NoRow
                    \/ Accepts(in.updatedAt, d, row.updatedAt, row.lastModifiedBy)
                 /\ Merged(row, in, d).isDone = in.isDone
                 /\ Merged(row, in, d).deleted = in.deleted
                 /\ Merged(row, in, d).updatedAt = in.updatedAt
                 /\ Merged(row, in, d).lastModifiedBy = d
              \/ /\ row # NoRow
                 /\ ~Accepts(in.updatedAt, d, row.updatedAt, row.lastModifiedBy)
                 /\ Merged(row, in, d) = row
  BY DevicesAssumption DEF Merged, FromNew, ApplyIncoming, Row, Item, Accepts

(* The same push twice leaves the same write as once (SyncEngine retries   *)
(* a push whose answer it has not seen).                                   *)
THEOREM MergeIdempotent ==
    ASSUME NEW row \in Row \cup {NoRow}, NEW in \in Item, NEW d \in Devices
    PROVE  SameWrite(Merged(Merged(row, in, d), in, d), Merged(row, in, d))
<1> DEFINE once == Merged(row, in, d)
           twice == Merged(once, in, d)
<1>1. once \in Row /\ once # NoRow
  BY MergedIs, NoRowAssumption
<1>2. CASE twice = once
  BY <1>2 DEF SameWrite
<1>3. CASE twice # once
  <2>1. /\ Accepts(in.updatedAt, d, once.updatedAt, once.lastModifiedBy)
        /\ twice.isDone = in.isDone /\ twice.deleted = in.deleted
        /\ twice.updatedAt = in.updatedAt /\ twice.lastModifiedBy = d
    BY <1>1, <1>3, MergedIs
  <2>2. CASE once = row
    <3>1. \/ row = NoRow
          \/ Accepts(in.updatedAt, d, row.updatedAt, row.lastModifiedBy)
      BY <2>1, <2>2
    <3>2. /\ once.isDone = in.isDone /\ once.deleted = in.deleted
          /\ once.updatedAt = in.updatedAt /\ once.lastModifiedBy = d
      BY <3>1, MergedIs
    <3>3. QED
      BY <2>1, <3>2 DEF SameWrite
  <2>3. CASE once # row
    BY <2>1, <2>3, MergedIs DEF SameWrite
  <2>4. QED
    BY <2>2, <2>3
<1>4. QED
  BY <1>2, <1>3

(* Two pushes of an item leave the same write in either order, unless one  *)
(* device stamped two different writes alike.                              *)
THEOREM MergeCommutes ==
    ASSUME NEW row \in Row \cup {NoRow},
           NEW a \in Item, NEW d \in Devices,
           NEW b \in Item, NEW e \in Devices,
           a.updatedAt # b.updatedAt \/ d # e
    PROVE  SameWrite(Merged(Merged(row, a, d), b, e),
                     Merged(Merged(row, b, e), a, d))
<1> DEFINE ra == Merged(row, a, d)
           rb == Merged(row, b, e)
           rab == Merged(ra, b, e)
           rba == Merged(rb, a, d)
<1>1. /\ ra \in Row /\ ra # NoRow /\ rb \in Row /\ rb # NoRow
      /\ rab \in Row /\ rba \in Row
  BY MergedIs, NoRowAssumption
<1>2. /\ a.updatedAt \in Int /\ b.updatedAt \in Int
      /\ d \in Int /\ e \in Int
      /\ \A r \in Row : r.updatedAt \in Int /\ r.lastModifiedBy \in Int
  <2>1. a.updatedAt \in Int /\ b.updatedAt \in Int
    BY DEF Item
  <2>2. Devices \subseteq Int /\ d \in Int /\ e \in Int
    BY DevicesAssumption
  <2>3. ASSUME NEW r \in Row
        PROVE  r.updatedAt \in Int /\ r.lastModifiedBy \in Int
    BY <2>2 DEF Row
  <2>4. QED
    BY <2>1, <2>2, <2>3
<1>3. ASSUME /\ ra.isDone = a.isDone /\ ra.deleted = a.deleted
             /\ ra.updatedAt = a.updatedAt /\ ra.lastModifiedBy = d
             /\ rb.isDone = b.isDone /\ rb.deleted = b.deleted
             /\ rb.updatedAt = b.updatedAt /\ rb.lastModifiedBy = e
      PROVE  SameWrite(rab, rba)
  <2>1. CASE Accepts(b.updatedAt, e, a.updatedAt, d)
    <3>1. ~Accepts(a.updatedAt, d, b.updatedAt, e)
      BY <1>2, <2>1 DEF Accepts
    <3>2. rba = rb
      BY <1>1, <1>3, <3>1, MergedIs
    <3>3. \/ rab.isDone = b.isDone /\ rab.deleted = b.deleted
             /\ rab.updatedAt = b.updatedAt /\ rab.lastModifiedBy = e
          \/ ~Accepts(b.updatedAt, e, ra.updatedAt, ra.lastModifiedBy)
      BY <1>1, MergedIs
    <3>4. QED
      BY <1>3, <2>1, <3>2, <3>3 DEF SameWrite
  <2>2. CASE ~Accepts(b.updatedAt, e, a.updatedAt, d)
    <3>1. Accepts(a.updatedAt, d, b.updatedAt, e)
      BY <1>2, <2>2 DEF Accepts
    <3>2. rab = ra
      BY <1>1, <1>3, <2>2, MergedIs
    <3>3. \/ rba.isDone = a.isDone /\ rba.deleted = a.deleted
             /\ rba.updatedAt = a.updatedAt /\ rba.lastModifiedBy = d
          \/ ~Accepts(a.updatedAt, d, rb.updatedAt, rb.lastModifiedBy)
      BY <1>1, MergedIs
    <3>4. QED
      BY <1>3, <3>1, <3>2, <3>3 DEF SameWrite
  <2>3. QED
    BY <2>1, <2>2
<1>4. CASE row = NoRow
  <2>1. /\ ra.isDone = a.isDone /\ ra.deleted = a.deleted
        /\ ra.updatedAt = a.updatedAt /\ ra.lastModifiedBy = d
        /\ rb.isDone = b.isDone /\ rb.deleted = b.deleted
        /\ rb.updatedAt = b.updatedAt /\ rb.lastModifiedBy = e
    BY <1>4, MergedIs
  <2>2. QED
    BY <1>3, <2>1
<1>5. CASE row # NoRow
  <2>1. CASE /\ Accepts(a.updatedAt, d, row.updatedAt, row.lastModifiedBy)
             /\ Accepts(b.updatedAt, e, row.updatedAt, row.lastModifiedBy)
    <3>1. /\ ra.isDone = a.isDone /\ ra.deleted = a.deleted
          /\ ra.updatedAt = a.updatedAt /\ ra.lastModifiedBy = d
          /\ rb.isDone = b.isDone /\ rb.deleted = b.deleted
          /\ rb.updatedAt = b.updatedAt /\ rb.lastModifiedBy = e
      BY <1>5, <2>1, MergedIs
    <3>2. QED
      BY <1>3, <3>1
  <2>2. CASE /\ Accepts(a.updatedAt, d, row.updatedAt, row.lastModifiedBy)
             /\ ~Accepts(b.updatedAt, e, row.updatedAt, row.lastModifiedBy)
    <3>1. rb = row /\ rba = ra /\ ra.updatedAt = a.updatedAt /\ ra.lastModifiedBy = d
      BY <1>5, <2>2, MergedIs
    <3>2. ~Accepts(b.updatedAt, e, ra.updatedAt, ra.lastModifiedBy)
      BY <1>2, <1>5, <2>2, <3>1 DEF Accepts
    <3>3. rab = ra
      BY <1>1, <3>2, MergedIs
    <3>4. QED
      BY <3>1, <3>3 DEF SameWrite
  <2>3. CASE /\ ~Accepts(a.updatedAt, d, row.updatedAt, row.lastModifiedBy)
             /\ Accepts(b.updatedAt, e, row.updatedAt, row.lastModifiedBy)
    <3>1. ra = row /\ rab = rb /\ rb.updatedAt = b.updatedAt /\ rb.lastModifiedBy = e
      BY <1>5, <2>3, MergedIs
    <3>2. ~Accepts(a.updatedAt, d, rb.updatedAt, rb.lastModifiedBy)
      BY <1>2, <1>5, <2>3, <3>1 DEF Accepts
    <3>3. rba = rb
      BY <1>1, <3>2, MergedIs
    <3>4. QED
      BY <3>1, <3>3 DEF SameWrite
  <2>4. CASE /\ ~Accepts(a.updatedAt, d, row.updatedAt, row.lastModifiedBy)
             /\ ~Accepts(b.updatedAt, e, row.updatedAt, row.lastModifiedBy)
    <3>1. ra = row /\ rb = row
      BY <1>5, <2>4, MergedIs
    <3>2. rab = row /\ rba = row
      BY <1>5, <2>4, <3>1, MergedIs
    <3>3. QED
      BY <3>2 DEF SameWrite
  <2>5. QED
    BY <2>1, <2>2, <2>3, <2>4
<1>6. QED
  BY <1>4, <1>5

=============================================================================
