---------------------------- MODULE Catalogue_proofs ----------------------------
(***************************************************************************)
(* What the audit trail tells of an edited row, and that a retired row     *)
(* stays retired, for any records, names, values and editors.              *)
(*                                                                         *)
(* Nothing locks a row between the load and the write of a change.  What   *)
(* makes the properties inductive is the version: a change in hand whose   *)
(* version still counts every change was loaded from the row as it is.     *)
(***************************************************************************)
EXTENDS Catalogue, FiniteSetTheorems, TLAPS

EntryRow == [action: {"created", "updated", "retired"},
             before: Snap \cup {Blank}, after: Snap \cup {Blank}]

CatalogueTypeOK ==
    /\ row \in [Record -> Kept \cup {Blank}]
    /\ book \in [Record -> Seq(EntryRow)]
    /\ pen \in [Editor -> Change \cup {Blank}]

(* What AuditTellsRow says of a row, and of what its creation wrote.          *)
RowTells(r) ==
    LET n == Cardinality(Changes(r))
        end == Len(book[r]) + 1
    IN  /\ row[r].version <= n + 1
        /\ row[r].version = n + 1 =>
            /\ row[r].key = KeyOf(r, row[r].name)
            /\ \A j \in Changes(r) :
                  IsBefore(r, j, end) => book[r][j].after = Snapshot(row[r])
            /\ \A i \in Changes(r), j \in Changes(r) :
                  IsBefore(r, j, i) => book[r][i].before = book[r][j].after
            /\ SortOf[r] # "setting" =>
                  \A i \in Changes(r) : (\A j \in Changes(r) : i <= j)
                                         => book[r][i].before = book[r][1].after
        /\ SortOf[r] # "setting" =>
            /\ Len(book[r]) >= 1 /\ 1 \notin Changes(r)
            /\ Changes(r) = {} => book[r][1].after = Snapshot(row[r])

(* A change in hand starts from a row in service as it was loaded; while its  *)
(* version could still count every change the row is still that.              *)
PenSound(p) ==
    LET n == Cardinality(Changes(p.r))
    IN  /\ row[p.r] # Blank
        /\ p.old.live
        /\ p.new.version = p.old.version + 1
        /\ p.old.version <= n + 1
        /\ p.old.version = n + 1 => p.old = row[p.r]
        /\ \/ p.new.key = KeyOf(p.r, p.new.name)
           \/ p.new.key = p.old.key /\ p.new.name = p.old.name

CatalogueInv ==
    /\ CatalogueTypeOK
    /\ \A r \in Record : row[r] = Blank => book[r] = <<>>
    /\ \A r \in Record : row[r] # Blank => RowTells(r)
    /\ \A s \in Editor, p \in Change : pen[s] = p => PenSound(p)
-----------------------------------------------------------------------------
(* Rows and snapshots *)

LEMMA SnapshotTypes ==
    /\ Snapshot(Blank) = Blank
    /\ \A w \in Kept : /\ Snapshot(w) \in Snap /\ Snapshot(w) # Blank
                       /\ Snapshot(w) = [name |-> w.name, data |-> w.data]
BY CatalogueConstants DEF Snapshot, Kept, Snap

LEMMA CatalogueTypes ==
    ASSUME CatalogueTypeOK
    PROVE  /\ \A r \in Record : row[r] # Blank => row[r] \in Kept
           /\ \A s \in Editor : pen[s] # Blank => pen[s] \in Change
           /\ \A w \in Kept : w # Blank
           /\ \A p \in Change : p # Blank
BY CatalogueConstants DEF CatalogueTypeOK

LEMMA KeyTypes == ASSUME NEW r \in Record, NEW n \in Name PROVE KeyOf(r, n) \in Name
BY CatalogueConstants DEF KeyOf

LEMMA DataTypes ==
    ASSUME NEW r \in Record, NEW d \in Data[r] PROVE d \in UNION Range(Data)
BY CatalogueConstants

LEMMA EntryTypes ==
    ASSUME NEW action \in {"created", "updated", "retired"},
           NEW before \in Kept \cup {Blank}, NEW after \in Kept
    PROVE  /\ Entry(action, before, after) \in EntryRow
           /\ Entry(action, before, after).before = Snapshot(before)
           /\ Entry(action, before, after).after = Snapshot(after)
<1>1. Snapshot(before) \in Snap \cup {Blank} /\ Snapshot(after) \in Snap \cup {Blank}
  BY SnapshotTypes
<1>. QED
  BY <1>1 DEF Entry, EntryRow

(* A change takes the row as it is and counts its version up.                 *)
LEMMA TakeIs ==
    ASSUME CatalogueInv, NEW s \in Editor, NEW r \in Record, row[r] # Blank, row[r].live,
           NEW action \in {"updated", "retired"}, NEW new \in Kept,
           new.version = row[r].version,
           new.key = KeyOf(r, new.name) \/ (new.key = row[r].key /\ new.name = row[r].name),
           Take(s, r, action, new)
    PROVE  /\ \E p \in Change : pen' = [pen EXCEPT ![s] = p] /\ PenSound(p)
           /\ UNCHANGED <<row, book>>
<1>1. CatalogueTypeOK /\ row[r] \in Kept /\ RowTells(r)
  BY CatalogueTypes DEF CatalogueInv
<1>2. PICK w : w = [new EXCEPT !.version = new.version + 1]
  OBVIOUS
<1>3. w \in Kept /\ w.version = new.version + 1 /\ w.key = new.key /\ w.name = new.name
  BY <1>2 DEF Kept
<1>4. PICK p : p = [r |-> r, action |-> action, old |-> row[r], new |-> w]
  OBVIOUS
<1>5. /\ p \in Change /\ p.r = r /\ p.old = row[r] /\ p.new = w
      /\ pen' = [pen EXCEPT ![s] = p]
  BY <1>1, <1>2, <1>3, <1>4 DEF Change, Take
<1>6. PenSound(p)
  BY <1>1, <1>3, <1>5 DEF PenSound, RowTells
<1>. QED
  BY <1>5, <1>6 DEF Take

LEMMA BeginIs ==
    ASSUME CatalogueInv, NEW s \in Editor, NEW r \in Record,
           \/ \E n \in Name : \E d \in Data[r] : BeginUpdate(s, r, n, d)
           \/ BeginRetire(s, r)
    PROVE  /\ \E p \in Change : pen' = [pen EXCEPT ![s] = p] /\ PenSound(p)
           /\ UNCHANGED <<row, book>>
<1>1. row[r] # Blank /\ row[r].live /\ row[r] \in Kept
  BY CatalogueTypes DEF BeginUpdate, BeginRetire, CatalogueInv
<1>2. ASSUME NEW n \in Name, NEW d \in Data[r], BeginUpdate(s, r, n, d)
      PROVE  /\ \E p \in Change : pen' = [pen EXCEPT ![s] = p] /\ PenSound(p)
             /\ UNCHANGED <<row, book>>
  <2>1. PICK k \in Name : k = KeyOf(r, n)
    BY KeyTypes
  <2>2. PICK a : a = [row[r] EXCEPT !.name = n]
    OBVIOUS
  <2>3. PICK b : b = [a EXCEPT !.key = k]
    OBVIOUS
  <2>4. PICK new : new = [b EXCEPT !.data = d]
    OBVIOUS
  <2>5. a \in Kept /\ a.name = n /\ a.version = row[r].version
    BY <1>1, <2>2 DEF Kept
  <2>6. b \in Kept /\ b.name = n /\ b.key = k /\ b.version = row[r].version
    BY <2>3, <2>5 DEF Kept
  <2>7. new \in Kept /\ new.name = n /\ new.key = k /\ new.version = row[r].version
    BY <2>4, <2>6, DataTypes DEF Kept
  <2>8. new = [row[r] EXCEPT !.name = n, !.key = KeyOf(r, n), !.data = d]
    BY <2>1, <2>2, <2>3, <2>4, Zenon
  <2>9. Take(s, r, "updated", new)
    BY <1>2, <2>8 DEF BeginUpdate
  <2>10. /\ new \in Kept /\ new.version = row[r].version /\ new.key = KeyOf(r, new.name)
         /\ "updated" \in {"updated", "retired"}
    BY <2>1, <2>7
  <2>11. new.key = KeyOf(r, new.name) \/ (new.key = row[r].key /\ new.name = row[r].name)
    BY <2>10
  <2>. QED
    BY <1>1, <2>9, <2>10, <2>11, TakeIs
<1>3. ASSUME BeginRetire(s, r)
      PROVE  /\ \E p \in Change : pen' = [pen EXCEPT ![s] = p] /\ PenSound(p)
             /\ UNCHANGED <<row, book>>
  <2>1. PICK new : new = [row[r] EXCEPT !.live = FALSE]
    OBVIOUS
  <2>2. /\ new \in Kept /\ new.name = row[r].name /\ new.key = row[r].key
        /\ new.version = row[r].version
    BY <1>1, <2>1 DEF Kept
  <2>3. Take(s, r, "retired", new)
    BY <1>3, <2>1 DEF BeginRetire
  <2>. QED
    BY <1>1, <2>2, <2>3, TakeIs
<1>. QED
  BY <1>2, <1>3

(* What a write leaves: the row as it was loaded gives the row as changed, and *)
(* no row comes back into service.                                            *)
LEMMA MergedIs ==
    ASSUME NEW p \in Change, NEW now \in Kept, p.old.live, p.new.version = p.old.version + 1
    PROVE  /\ Merged(p, now) \in Kept
           /\ Merged(p, now).version = p.new.version
           /\ Merged(p, now).live => now.live
           /\ p.old = now => Merged(p, now) = p.new
<1>1. p.old \in Kept /\ p.new \in Kept
  BY DEF Change
<1>2. DOMAIN now = {"name", "key", "data", "live", "version"}
  BY DEF Kept
<1>3. PICK m : m = Merged(p, now)
  OBVIOUS
<1>4. m = [f \in {"name", "key", "data", "live", "version"} |->
              IF p.new[f] # p.old[f] THEN p.new[f] ELSE now[f]]
  BY <1>2, <1>3 DEF Merged
<1>5. m \in Kept
  BY <1>1, <1>4 DEF Kept
<1>6. m.version = IF p.new.version # p.old.version THEN p.new.version ELSE now.version
  BY <1>4
<1>7. p.new.version # p.old.version
  BY <1>1 DEF Kept
<1>8. m.live = IF p.new.live # p.old.live THEN p.new.live ELSE now.live
  BY <1>4
<1>9. m.live => now.live
  BY <1>1, <1>8 DEF Kept
<1>10. ASSUME p.old = now PROVE m = p.new
  <2>1. \A f \in {"name", "key", "data", "live", "version"} : m[f] = p.new[f]
    BY <1>4, <1>10
  <2>. QED
    BY <1>1, <1>5, <2>1 DEF Kept
<1>. QED
  BY <1>3, <1>5, <1>6, <1>7, <1>9, <1>10
-----------------------------------------------------------------------------
(* Entries and changes *)

(* An appended entry leaves those before it as they were.                     *)
LEMMA AppendIs ==
    ASSUME CatalogueTypeOK, NEW r \in Record, NEW e \in EntryRow, NEW end,
           end = Len(book[r]), book'[r] = Append(book[r], e)
    PROVE  /\ book'[r] \in Seq(EntryRow)
           /\ end \in Nat /\ DOMAIN book[r] = 1..end
           /\ Len(book'[r]) = end + 1 /\ DOMAIN book'[r] = 1..(end + 1)
           /\ \A i \in 1..end : book'[r][i] = book[r][i]
           /\ book'[r][end + 1] = e
<1>1. book[r] \in Seq(EntryRow)
  BY DEF CatalogueTypeOK
<1>. QED
  BY <1>1

LEMMA ChangesAreFew ==
    ASSUME CatalogueTypeOK, NEW r \in Record
    PROVE  /\ IsFiniteSet(Changes(r)) /\ Cardinality(Changes(r)) \in Nat
           /\ Changes(r) \subseteq 1..Len(book[r]) /\ Len(book[r]) \in Nat
<1>1. book[r] \in Seq(EntryRow)
  BY DEF CatalogueTypeOK
<1>2. Changes(r) \subseteq 1..Len(book[r]) /\ Len(book[r]) \in Nat
  BY <1>1 DEF Changes
<1>3. IsFiniteSet(1..Len(book[r]))
  BY <1>2, FS_Interval
<1>. QED
  BY <1>2, <1>3, FS_Subset, FS_CardinalityType

(* What the book of other rows tells does not change.                         *)
LEMMA OthersTell ==
    ASSUME NEW r \in Record, book'[r] = book[r]
    PROVE  /\ Changes(r)' = Changes(r)
           /\ \A j, i : IsBefore(r, j, i)' = IsBefore(r, j, i)
<1>1. Changes(r)' = Changes(r)
  BY DEF Changes
<1>. QED
  BY <1>1 DEF IsBefore

(* A change becomes the last one.                                             *)
LEMMA ChangesMore ==
    ASSUME CatalogueTypeOK, NEW r \in Record, NEW e \in EntryRow, NEW end,
           end = Len(book[r]), book'[r] = Append(book[r], e), e.before # Blank
    PROVE  /\ Changes(r)' = Changes(r) \cup {end + 1}
           /\ end + 1 \notin Changes(r)
           /\ Cardinality(Changes(r)') = Cardinality(Changes(r)) + 1
           /\ \A j, i : i \in 1..(end + 1) => (IsBefore(r, j, i)' <=> IsBefore(r, j, i))
           /\ \A j : IsBefore(r, j, end + 2)' => j = end + 1
<1>1. /\ end \in Nat /\ DOMAIN book[r] = 1..end /\ DOMAIN book'[r] = 1..(end + 1)
      /\ \A i \in 1..end : book'[r][i] = book[r][i]
      /\ book'[r][end + 1] = e
  BY AppendIs
<1>2. \A i : i \in Changes(r)' <=> i \in Changes(r) \cup {end + 1}
  <2>1. TAKE i
  <2>2. CASE i \in 1..end
    BY <1>1, <2>2 DEF Changes
  <2>3. CASE i \notin 1..end
    <3>1. i \in 1..(end + 1) <=> i = end + 1
      BY <1>1, <2>3
    <3>. QED
      BY <1>1, <2>3, <3>1 DEF Changes
  <2>. QED
    BY <2>2, <2>3
<1>3. Changes(r)' = Changes(r) \cup {end + 1}
  BY <1>2
<1>4. Changes(r) \subseteq 1..end /\ IsFiniteSet(Changes(r))
  BY ChangesAreFew
<1>5. end + 1 \notin Changes(r)
  BY <1>1, <1>4
<1>6. Cardinality(Changes(r) \cup {end + 1}) = Cardinality(Changes(r)) + 1
  BY <1>4, <1>5, FS_AddElement
<1>7. \A j, i : i \in 1..(end + 1) => (IsBefore(r, j, i)' <=> IsBefore(r, j, i))
  <2>1. TAKE j, i
  <2>2. HAVE i \in 1..(end + 1)
  <2>3. \A x : x \in Changes(r)' /\ x < i <=> x \in Changes(r) /\ x < i
    BY <1>1, <1>3, <2>2
  <2>. QED
    BY <2>3 DEF IsBefore
<1>8. \A j : IsBefore(r, j, end + 2)' => j = end + 1
  <2>1. TAKE j
  <2>2. HAVE IsBefore(r, j, end + 2)'
  <2>3. j \in Changes(r) \cup {end + 1} /\ \A x \in Changes(r) \cup {end + 1} : x < end + 2 => x <= j
    BY <1>3, <2>2 DEF IsBefore
  <2>. QED
    BY <1>1, <1>4, <2>3
<1>. QED
  BY <1>3, <1>5, <1>6, <1>7, <1>8

(* An entry that tells of no change leaves the last one what it was.          *)
LEMMA ChangesSame ==
    ASSUME CatalogueTypeOK, NEW r \in Record, NEW e \in EntryRow, NEW end,
           end = Len(book[r]), book'[r] = Append(book[r], e), e.before = Blank
    PROVE  /\ Changes(r)' = Changes(r)
           /\ \A j, i : IsBefore(r, j, i)' <=> IsBefore(r, j, i)
           /\ \A j : IsBefore(r, j, end + 2) <=> IsBefore(r, j, end + 1)
<1>1. /\ end \in Nat /\ DOMAIN book[r] = 1..end /\ DOMAIN book'[r] = 1..(end + 1)
      /\ \A i \in 1..end : book'[r][i] = book[r][i]
      /\ book'[r][end + 1] = e
  BY AppendIs
<1>2. \A i : i \in Changes(r)' <=> i \in Changes(r)
  <2>1. TAKE i
  <2>2. CASE i \in 1..end
    BY <1>1, <2>2 DEF Changes
  <2>3. CASE i \notin 1..end
    <3>1. i \in 1..(end + 1) <=> i = end + 1
      BY <1>1, <2>3
    <3>. QED
      BY <1>1, <2>3, <3>1 DEF Changes
  <2>. QED
    BY <2>2, <2>3
<1>3. Changes(r)' = Changes(r)
  BY <1>2
<1>4. \A j, i : IsBefore(r, j, i)' <=> IsBefore(r, j, i)
  BY <1>3 DEF IsBefore
<1>5. \A x \in Changes(r) : x < end + 2 /\ x < end + 1
  <2>1. Changes(r) \subseteq 1..end
    BY ChangesAreFew
  <2>. QED
    BY <1>1, <2>1
<1>6. \A j : IsBefore(r, j, end + 2) <=> IsBefore(r, j, end + 1)
  BY <1>5 DEF IsBefore
<1>. QED
  BY <1>3, <1>4, <1>6
-----------------------------------------------------------------------------
(* What the audit trail tells after each operation *)

LEMMA CreationTells ==
    ASSUME CatalogueTypeOK, NEW r \in Record, NEW e \in EntryRow, NEW new \in Kept,
           row'[r] = new, book'[r] = <<e>>, e.before = Blank, e.after = Snapshot(new),
           new.version = 1, new.key = KeyOf(r, new.name)
    PROVE  RowTells(r)'
<1>1. Changes(r)' = {}
  BY DEF Changes
<1>2. Cardinality(Changes(r)') = 0
  BY <1>1, FS_EmptySet
<1>3. Snapshot(row[r])' = Snapshot(new)
  BY DEF Snapshot
<1>4. KeyOf(r, row[r].name)' = KeyOf(r, new.name)
  BY DEF KeyOf
<1>5. Len(book'[r]) = 1 /\ book'[r][1] = e
  OBVIOUS
<1>. QED
  BY <1>1, <1>2, <1>3, <1>4, <1>5 DEF RowTells

LEMMA RepetitionTells ==
    ASSUME CatalogueTypeOK, NEW r \in Record, RowTells(r), NEW e \in EntryRow,
           row'[r] = row[r], book'[r] = Append(book[r], e), e.before = Blank
    PROVE  RowTells(r)'
<1>. PICK end : end = Len(book[r])
  OBVIOUS
<1>1. /\ end \in Nat /\ DOMAIN book[r] = 1..end
      /\ Len(book'[r]) = end + 1
      /\ \A i \in 1..end : book'[r][i] = book[r][i]
  BY AppendIs
<1>2. /\ Changes(r)' = Changes(r)
      /\ \A j, i : IsBefore(r, j, i)' <=> IsBefore(r, j, i)
      /\ \A j : IsBefore(r, j, end + 2) <=> IsBefore(r, j, end + 1)
  BY ChangesSame
<1>3. Changes(r) \subseteq 1..end
  BY ChangesAreFew
<1>4. Snapshot(row[r])' = Snapshot(row[r]) /\ KeyOf(r, row[r].name)' = KeyOf(r, row[r].name)
  BY DEF Snapshot, KeyOf
<1>5. \A j \in Changes(r) : book'[r][j] = book[r][j]
  BY <1>1, <1>3
<1>7. end >= 1 => book'[r][1] = book[r][1]
  BY <1>1
<1>8. row'[r].version <= Cardinality(Changes(r)') + 1
  BY <1>2 DEF RowTells
<1>9. ASSUME row'[r].version = Cardinality(Changes(r)') + 1
      PROVE  /\ row'[r].key = KeyOf(r, row[r].name)
             /\ \A j \in Changes(r)' : IsBefore(r, j, end + 2)' => book'[r][j].after = Snapshot(row[r])
             /\ \A i \in Changes(r)', j \in Changes(r)' :
                   IsBefore(r, j, i)' => book'[r][i].before = book'[r][j].after
             /\ SortOf[r] # "setting" =>
                   \A i \in Changes(r)' : (\A j \in Changes(r)' : i <= j)
                                           => book'[r][i].before = book'[r][1].after
  <2>1. row[r].version = Cardinality(Changes(r)) + 1
    BY <1>2, <1>9
  <2>2. row'[r].key = KeyOf(r, row[r].name)
    BY <2>1 DEF RowTells
  <2>3. \A j \in Changes(r)' : IsBefore(r, j, end + 2)' => book'[r][j].after = Snapshot(row[r])
    BY <1>2, <1>5, <2>1 DEF RowTells
  <2>4. \A i \in Changes(r)', j \in Changes(r)' :
            IsBefore(r, j, i)' => book'[r][i].before = book'[r][j].after
    <3>1. TAKE i \in Changes(r)', j \in Changes(r)'
    <3>2. HAVE IsBefore(r, j, i)'
    <3>3. i \in Changes(r) /\ j \in Changes(r) /\ IsBefore(r, j, i)
      BY <1>2, <3>1, <3>2
    <3>4. book[r][i].before = book[r][j].after
      BY <2>1, <3>3 DEF RowTells
    <3>. QED
      BY <1>5, <3>3, <3>4
  <2>5. ASSUME SortOf[r] # "setting", NEW i \in Changes(r)', \A j \in Changes(r)' : i <= j
        PROVE  book'[r][i].before = book'[r][1].after
    BY <1>2, <1>5, <1>7, <2>1, <2>5 DEF RowTells
  <2>. QED
    BY <2>2, <2>3, <2>4, <2>5
<1>10. SortOf[r] # "setting" =>
           /\ Len(book'[r]) >= 1 /\ 1 \notin Changes(r)'
           /\ Changes(r)' = {} => book'[r][1].after = Snapshot(row[r])
  BY <1>1, <1>2, <1>7 DEF RowTells
<1>11. Len(book'[r]) + 1 = end + 2
  BY <1>1
<1>. QED
  BY <1>4, <1>8, <1>9, <1>10, <1>11 DEF RowTells

LEMMA ChangeTells ==
    ASSUME CatalogueTypeOK, NEW r \in Record, RowTells(r), row[r] \in Kept,
           NEW e \in EntryRow, NEW new \in Kept,
           row'[r] = new, book'[r] = Append(book[r], e), e.before # Blank,
           new.version <= Cardinality(Changes(r)) + 2,
           new.version = Cardinality(Changes(r)) + 2 =>
               /\ row[r].version = Cardinality(Changes(r)) + 1
               /\ e.before = Snapshot(row[r]) /\ e.after = Snapshot(new)
               /\ new.key = KeyOf(r, new.name)
    PROVE  RowTells(r)'
<1>. PICK end : end = Len(book[r])
  OBVIOUS
<1>. PICK n : n = Cardinality(Changes(r))
  OBVIOUS
<1>1. /\ end \in Nat /\ DOMAIN book[r] = 1..end
      /\ Len(book'[r]) = end + 1
      /\ \A i \in 1..end : book'[r][i] = book[r][i]
      /\ book'[r][end + 1] = e
  BY AppendIs
<1>2. /\ Changes(r)' = Changes(r) \cup {end + 1}
      /\ end + 1 \notin Changes(r)
      /\ Cardinality(Changes(r)') = n + 1
      /\ \A j, i : i \in 1..(end + 1) => (IsBefore(r, j, i)' <=> IsBefore(r, j, i))
      /\ \A j : IsBefore(r, j, end + 2)' => j = end + 1
  BY ChangesMore
<1>3. Changes(r) \subseteq 1..end /\ n \in Nat
  BY ChangesAreFew
<1>4. Snapshot(row[r])' = Snapshot(new) /\ KeyOf(r, row[r].name)' = KeyOf(r, new.name)
  BY DEF Snapshot, KeyOf
<1>5. \A j \in Changes(r) : book'[r][j] = book[r][j] /\ j \in 1..(end + 1) /\ j # end + 1
  BY <1>1, <1>2, <1>3
<1>6. Len(book'[r]) + 1 = end + 2
  BY <1>1
<1>7. row'[r].version <= Cardinality(Changes(r)') + 1
  BY <1>2, <1>3 DEF Kept
<1>8. ASSUME row'[r].version = Cardinality(Changes(r)') + 1
      PROVE  /\ row[r].version = n + 1
             /\ e.before = Snapshot(row[r]) /\ e.after = Snapshot(new)
             /\ new.key = KeyOf(r, new.name)
  BY <1>2, <1>3, <1>8 DEF Kept
<1>9. ASSUME row'[r].version = Cardinality(Changes(r)') + 1
      PROVE  \A j \in Changes(r)' : IsBefore(r, j, end + 2)' => book'[r][j].after = Snapshot(new)
  BY <1>1, <1>2, <1>8, <1>9
<1>10. ASSUME row'[r].version = Cardinality(Changes(r)') + 1,
              NEW i \in Changes(r)', NEW j \in Changes(r)', IsBefore(r, j, i)'
       PROVE  book'[r][i].before = book'[r][j].after
  <2>1. i \in 1..(end + 1) /\ j # end + 1 /\ IsBefore(r, j, i)
    <3>1. i \in 1..(end + 1)
      BY <1>1, <1>2, <1>5
    <3>2. IsBefore(r, j, i)
      BY <1>2, <1>10, <3>1
    <3>. QED
      BY <1>2, <3>1, <3>2 DEF IsBefore
  <2>2. j \in Changes(r)
    BY <2>1 DEF IsBefore
  <2>3. CASE i = end + 1
    <3>1. book[r][j].after = Snapshot(row[r])
      BY <1>8, <1>10, <2>1, <2>2, <2>3 DEF RowTells
    <3>. QED
      BY <1>1, <1>5, <1>8, <1>10, <2>2, <2>3, <3>1
  <2>4. CASE i \in Changes(r)
    <3>1. book[r][i].before = book[r][j].after
      BY <1>8, <1>10, <2>1, <2>2, <2>4 DEF RowTells
    <3>. QED
      BY <1>5, <2>2, <2>4, <3>1
  <2>. QED
    BY <1>2, <2>3, <2>4
<1>11. ASSUME SortOf[r] # "setting"
       PROVE  /\ end >= 1 /\ 1 \notin Changes(r)' /\ book'[r][1] = book[r][1]
              /\ Changes(r)' # {}
  BY <1>1, <1>2, <1>11 DEF RowTells
<1>12. ASSUME row'[r].version = Cardinality(Changes(r)') + 1, SortOf[r] # "setting",
              NEW i \in Changes(r)', \A j \in Changes(r)' : i <= j
       PROVE  book'[r][i].before = book'[r][1].after
  <2>1. CASE i = end + 1
    <3>1. Changes(r) = {}
      BY <1>1, <1>2, <1>3, <1>12, <2>1
    <3>2. book[r][1].after = Snapshot(row[r])
      BY <1>12, <3>1 DEF RowTells
    <3>. QED
      BY <1>1, <1>8, <1>11, <1>12, <2>1, <3>2
  <2>2. CASE i \in Changes(r)
    <3>1. \A j \in Changes(r) : i <= j
      BY <1>2, <1>12
    <3>2. book[r][i].before = book[r][1].after
      BY <1>8, <1>12, <2>2, <3>1 DEF RowTells
    <3>. QED
      BY <1>5, <1>11, <1>12, <2>2, <3>2
  <2>. QED
    BY <1>2, <1>12, <2>1, <2>2
<1>13. row'[r].version = Cardinality(Changes(r)') + 1 => row'[r].key = KeyOf(r, new.name)
  BY <1>8
<1>14. row'[r].version = Cardinality(Changes(r)') + 1 =>
          /\ row'[r].key = KeyOf(r, new.name)
          /\ \A j \in Changes(r)' : IsBefore(r, j, end + 2)' => book'[r][j].after = Snapshot(new)
          /\ \A i \in Changes(r)', j \in Changes(r)' :
                IsBefore(r, j, i)' => book'[r][i].before = book'[r][j].after
          /\ SortOf[r] # "setting" =>
                \A i \in Changes(r)' : (\A j \in Changes(r)' : i <= j)
                                        => book'[r][i].before = book'[r][1].after
  BY <1>9, <1>10, <1>12, <1>13
<1>15. SortOf[r] # "setting" =>
           /\ Len(book'[r]) >= 1 /\ 1 \notin Changes(r)'
           /\ Changes(r)' = {} => book'[r][1].after = Snapshot(new)
  BY <1>1, <1>11
<1>. QED
  BY <1>4, <1>6, <1>7, <1>14, <1>15 DEF RowTells
-----------------------------------------------------------------------------
(* Every step *)

(* A row and its book left alone tell what they told, and a change in hand    *)
(* on such a row stays sound.                                                 *)
LEMMA UntouchedTell ==
    ASSUME NEW r \in Record, row'[r] = row[r], book'[r] = book[r]
    PROVE  /\ RowTells(r) => RowTells(r)'
           /\ \A p \in Change : p.r = r /\ PenSound(p) => PenSound(p)'
<1>1. /\ Changes(r)' = Changes(r)
      /\ \A j, i : IsBefore(r, j, i)' = IsBefore(r, j, i)
  BY OthersTell
<1>2. Snapshot(row[r])' = Snapshot(row[r]) /\ KeyOf(r, row[r].name)' = KeyOf(r, row[r].name)
  BY DEF Snapshot, KeyOf
<1>3. RowTells(r) => RowTells(r)'
  BY <1>1, <1>2 DEF RowTells
<1>4. \A p \in Change : p.r = r /\ PenSound(p) => PenSound(p)'
  BY <1>1 DEF PenSound, KeyOf
<1>. QED
  BY <1>3, <1>4

(* Once a row has a further change, no other change in hand can count all.    *)
LEMMA OvertakenSound ==
    ASSUME CatalogueTypeOK, NEW p \in Change, PenSound(p),
           row'[p.r] # Blank, Cardinality(Changes(p.r)') = Cardinality(Changes(p.r)) + 1
    PROVE  PenSound(p)'
<1>1. p.r \in Record /\ p.old \in Kept
  BY DEF Change
<1>2. Cardinality(Changes(p.r)) \in Nat /\ p.old.version \in Nat
  BY <1>1, ChangesAreFew DEF Kept
<1>3. p.old.version <= Cardinality(Changes(p.r)') + 1 /\ p.old.version # Cardinality(Changes(p.r)') + 1
  BY <1>2 DEF PenSound
<1>. QED
  BY <1>3 DEF PenSound, KeyOf

LEMMA BooksStart ==
    ASSUME CatalogueInit PROVE CatalogueInv
<1>1. CatalogueTypeOK
  <2>1. \A r \in Record : row[r] \in Kept \cup {Blank}
    <3>1. TAKE r \in Record
    <3>2. row[r] \in {Blank} \cup
              [name: Name, key: Name, data: UNION Range(Data), live: {TRUE}, version: {1}]
      BY DEF CatalogueInit
    <3>3. ASSUME NEW w \in [name: Name, key: Name, data: UNION Range(Data),
                            live: {TRUE}, version: {1}]
          PROVE  w \in Kept
      <4>1. PICK n \in Name, k \in Name, d \in UNION Range(Data) :
                w = [name |-> n, key |-> k, data |-> d, live |-> TRUE, version |-> 1]
        BY Zenon
      <4>2. TRUE \in BOOLEAN /\ 1 \in Nat
        OBVIOUS
      <4>. QED
        BY <4>1, <4>2 DEF Kept
    <3>. QED
      BY <3>2, <3>3
  <2>2. row \in [Record -> Kept \cup {Blank}]
    BY <2>1 DEF CatalogueInit
  <2>. QED
    BY <2>2 DEF CatalogueInit, CatalogueTypeOK
<1>2. \A r \in Record : book[r] = <<>>
  BY DEF CatalogueInit
<1>3. ASSUME NEW r \in Record, row[r] # Blank
      PROVE  RowTells(r)
  <2>1. Changes(r) = {} /\ Cardinality(Changes(r)) = 0
    BY <1>2, FS_EmptySet DEF Changes
  <2>2. SortOf[r] = "setting" /\ row[r].key = row[r].name /\ row[r].version = 1
    <3>1. row[r] \in {Blank} \cup
              [name: Name, key: Name, data: UNION Range(Data), live: {TRUE}, version: {1}]
      BY DEF CatalogueInit
    <3>. QED
      BY <1>3, <3>1 DEF CatalogueInit
  <2>3. KeyOf(r, row[r].name) = row[r].name
    BY <2>2 DEF KeyOf
  <2>. QED
    BY <2>1, <2>2, <2>3 DEF RowTells
<1>4. \A s \in Editor, p \in Change : pen[s] # p
  BY CatalogueConstants DEF CatalogueInit
<1>. QED
  BY <1>1, <1>2, <1>3, <1>4 DEF CatalogueInv

LEMMA CreateKeeps ==
    ASSUME CatalogueInv, NEW r \in Record, NEW n \in Name, NEW d \in Data[r],
           CreateRecord(r, n, d)
    PROVE  CatalogueInv'
<1>. PICK k \in Name : k = KeyOf(r, n)
  BY KeyTypes
<1>. PICK new : new = [name |-> n, key |-> k, data |-> d, live |-> TRUE, version |-> 1]
  OBVIOUS
<1>. PICK e : e = Entry("created", Blank, new)
  OBVIOUS
<1>1. new \in Kept /\ new.name = n /\ new.key = k /\ new.version = 1
  BY DataTypes DEF Kept
<1>2. e \in EntryRow /\ e.before = Blank /\ e.after = Snapshot(new)
  <2>1. Blank \in Kept \cup {Blank} /\ "created" \in {"created", "updated", "retired"}
    OBVIOUS
  <2>. QED
    BY <1>1, <2>1, EntryTypes, SnapshotTypes
<1>3. /\ row[r] = Blank /\ row' = [row EXCEPT ![r] = new]
      /\ book' = [book EXCEPT ![r] = <<e>>] /\ pen' = pen
  BY DEF CreateRecord
<1>4. CatalogueTypeOK /\ CatalogueTypeOK'
  BY <1>1, <1>2, <1>3 DEF CatalogueTypeOK, CatalogueInv
<1>5. /\ row'[r] = new /\ book'[r] = <<e>> /\ new # Blank
      /\ \A x \in Record \ {r} : row'[x] = row[x] /\ book'[x] = book[x]
  BY <1>1, <1>3, <1>4, CatalogueTypes DEF CatalogueTypeOK
<1>6. RowTells(r)'
  BY <1>1, <1>2, <1>4, <1>5, CreationTells
<1>7. \A x \in Record : row'[x] = Blank => book'[x] = <<>>
  BY <1>5 DEF CatalogueInv
<1>8. ASSUME NEW x \in Record, row'[x] # Blank PROVE RowTells(x)'
  <2>1. CASE x = r
    BY <1>6, <2>1
  <2>2. CASE x # r
    BY <1>5, <1>8, <2>2, UntouchedTell DEF CatalogueInv
  <2>. QED
    BY <2>1, <2>2
<1>9. ASSUME NEW s \in Editor, NEW p \in Change, pen'[s] = p PROVE PenSound(p)'
  <2>1. PenSound(p) /\ p.r \in Record
    BY <1>3, <1>9 DEF CatalogueInv, Change
  <2>2. p.r # r
    BY <1>3, <2>1 DEF PenSound
  <2>3. row'[p.r] = row[p.r] /\ book'[p.r] = book[p.r]
    BY <1>5, <2>1, <2>2
  <2>. QED
    BY <2>1, <2>3, UntouchedTell
<1>. QED
  BY <1>4, <1>7, <1>8, <1>9 DEF CatalogueInv

LEMMA RetireAgainKeeps ==
    ASSUME CatalogueInv, NEW r \in Record, RetireAgain(r)
    PROVE  CatalogueInv'
<1>. PICK e : e = Entry("retired", Blank, row[r])
  OBVIOUS
<1>1. CatalogueTypeOK /\ row[r] \in Kept /\ RowTells(r)
  BY CatalogueTypes DEF CatalogueInv, RetireAgain
<1>2. e \in EntryRow /\ e.before = Blank
  <2>1. Blank \in Kept \cup {Blank} /\ "retired" \in {"created", "updated", "retired"}
    OBVIOUS
  <2>. QED
    BY <1>1, <2>1, EntryTypes, SnapshotTypes
<1>3. /\ row[r] # Blank /\ row' = row /\ pen' = pen
      /\ book' = [book EXCEPT ![r] = Append(book[r], e)]
  BY DEF RetireAgain
<1>4. /\ book'[r] = Append(book[r], e)
      /\ \A x \in Record \ {r} : book'[x] = book[x]
  BY <1>1, <1>3 DEF CatalogueTypeOK
<1>5. book' \in [Record -> Seq(EntryRow)]
  BY <1>1, <1>2, <1>3 DEF CatalogueTypeOK
<1>6. CatalogueTypeOK'
  BY <1>1, <1>3, <1>5 DEF CatalogueTypeOK
<1>7. RowTells(r)'
  BY <1>1, <1>2, <1>3, <1>4, RepetitionTells
<1>8. Changes(r)' = Changes(r)
  BY <1>1, <1>2, <1>4, ChangesSame
<1>9. \A x \in Record : row'[x] = Blank => book'[x] = <<>>
  BY <1>3, <1>4 DEF CatalogueInv
<1>10. ASSUME NEW x \in Record, row'[x] # Blank PROVE RowTells(x)'
  <2>1. CASE x = r
    BY <1>7, <2>1
  <2>2. CASE x # r
    BY <1>3, <1>4, <1>10, <2>2, UntouchedTell DEF CatalogueInv
  <2>. QED
    BY <2>1, <2>2
<1>11. ASSUME NEW s \in Editor, NEW p \in Change, pen'[s] = p PROVE PenSound(p)'
  <2>1. PenSound(p) /\ p.r \in Record
    BY <1>3, <1>11 DEF CatalogueInv, Change
  <2>2. CASE p.r = r
    BY <1>3, <1>8, <2>1, <2>2 DEF PenSound, KeyOf
  <2>3. CASE p.r # r
    <3>1. row'[p.r] = row[p.r] /\ book'[p.r] = book[p.r]
      BY <1>3, <1>4, <2>1, <2>3
    <3>. QED
      BY <2>1, <3>1, UntouchedTell
  <2>. QED
    BY <2>2, <2>3
<1>. QED
  BY <1>6, <1>9, <1>10, <1>11 DEF CatalogueInv

(* Taking a change in hand or putting it down touches no row.                 *)
LEMMA PenKeeps ==
    ASSUME CatalogueInv, UNCHANGED <<row, book>>, pen' \in [Editor -> Change \cup {Blank}],
           \A s \in Editor, p \in Change : pen'[s] = p => PenSound(p)
    PROVE  CatalogueInv'
<1>1. CatalogueTypeOK'
  BY DEF CatalogueTypeOK, CatalogueInv
<1>2. ASSUME NEW x \in Record, row'[x] # Blank PROVE RowTells(x)'
  BY <1>2, UntouchedTell DEF CatalogueInv
<1>3. ASSUME NEW s \in Editor, NEW p \in Change, pen'[s] = p PROVE PenSound(p)'
  <2>1. PenSound(p) /\ p.r \in Record
    BY <1>3 DEF Change
  <2>. QED
    BY <2>1, UntouchedTell
<1>. QED
  BY <1>1, <1>2, <1>3 DEF CatalogueInv

LEMMA BeginKeeps ==
    ASSUME CatalogueInv, NEW s \in Editor, NEW r \in Record,
           \/ \E n \in Name : \E d \in Data[r] : BeginUpdate(s, r, n, d)
           \/ BeginRetire(s, r)
    PROVE  CatalogueInv'
<1>1. PICK p \in Change : pen' = [pen EXCEPT ![s] = p] /\ PenSound(p)
  BY BeginIs
<1>2. UNCHANGED <<row, book>>
  BY BeginIs
<1>3. pen \in [Editor -> Change \cup {Blank}]
  BY DEF CatalogueInv, CatalogueTypeOK
<1>4. pen' \in [Editor -> Change \cup {Blank}]
  BY <1>1, <1>3
<1>5. \A t \in Editor, q \in Change : pen'[t] = q => PenSound(q)
  BY <1>1, <1>3 DEF CatalogueInv
<1>. QED
  BY <1>2, <1>4, <1>5, PenKeeps

LEMMA PutDownKeeps ==
    ASSUME CatalogueInv, NEW s \in Editor, PutDown(s)
    PROVE  CatalogueInv'
<1>1. pen \in [Editor -> Change \cup {Blank}] /\ \A p \in Change : p # Blank
  BY CatalogueTypes DEF CatalogueInv, CatalogueTypeOK
<1>2. pen' = [pen EXCEPT ![s] = Blank] /\ UNCHANGED <<row, book>>
  BY DEF PutDown
<1>3. pen' \in [Editor -> Change \cup {Blank}]
  BY <1>1, <1>2
<1>4. \A t \in Editor, q \in Change : pen'[t] = q => PenSound(q)
  BY <1>1, <1>2 DEF CatalogueInv
<1>. QED
  BY <1>2, <1>3, <1>4, PenKeeps

(* What a write does to its row, in the terms the invariant uses.             *)
LEMMA WriteIs ==
    ASSUME CatalogueInv, NEW s \in Editor, WriteRow(s)
    PROVE  \E p \in Change : \E e \in EntryRow :
               /\ pen[s] = p /\ PenSound(p) /\ p.r \in Record /\ row[p.r] \in Kept
               /\ Merged(p, row[p.r]) \in Kept
               /\ e.before = Snapshot(p.old) /\ e.after = Snapshot(p.new) /\ e.before # Blank
               /\ row' = [row EXCEPT ![p.r] = Merged(p, row[p.r])]
               /\ book' = [book EXCEPT ![p.r] = Append(book[p.r], e)]
               /\ pen' = [pen EXCEPT ![s] = Blank]
<1>1. PICK p \in Change : p = pen[s]
  BY CatalogueTypes DEF WriteRow, CatalogueInv
<1>2. PenSound(p) /\ p.r \in Record /\ row[p.r] \in Kept /\ p.old \in Kept /\ p.new \in Kept
  <2>1. PenSound(p) /\ p.r \in Record
    BY <1>1 DEF CatalogueInv, Change
  <2>. QED
    BY <2>1, CatalogueTypes DEF CatalogueInv, Change, PenSound
<1>3. Merged(p, row[p.r]) \in Kept
  BY <1>2, MergedIs DEF PenSound
<1>4. PICK e : e = Entry(p.action, p.old, p.new)
  OBVIOUS
<1>5. /\ e \in EntryRow
      /\ e.before = Snapshot(p.old) /\ e.after = Snapshot(p.new) /\ e.before # Blank
  <2>1. p.action \in {"created", "updated", "retired"} /\ p.old \in Kept \cup {Blank}
    BY <1>2 DEF Change
  <2>. QED
    BY <1>2, <1>4, <2>1, EntryTypes, SnapshotTypes
<1>6. /\ row' = [row EXCEPT ![p.r] = Merged(p, row[p.r])]
      /\ book' = [book EXCEPT ![p.r] = Append(book[p.r], e)]
      /\ pen' = [pen EXCEPT ![s] = Blank]
  BY <1>1, <1>4, Zenon DEF WriteRow
<1>. QED
  BY <1>1, <1>2, <1>3, <1>5, <1>6

LEMMA WriteKeeps ==
    ASSUME CatalogueInv, NEW s \in Editor, WriteRow(s)
    PROVE  CatalogueInv'
<1>1. PICK p \in Change, e \in EntryRow :
          /\ pen[s] = p /\ PenSound(p) /\ p.r \in Record /\ row[p.r] \in Kept
          /\ Merged(p, row[p.r]) \in Kept
          /\ e.before = Snapshot(p.old) /\ e.after = Snapshot(p.new) /\ e.before # Blank
          /\ row' = [row EXCEPT ![p.r] = Merged(p, row[p.r])]
          /\ book' = [book EXCEPT ![p.r] = Append(book[p.r], e)]
          /\ pen' = [pen EXCEPT ![s] = Blank]
  BY WriteIs
<1>2. PICK r \in Record : r = p.r
  BY <1>1
<1>3. PICK new \in Kept : new = Merged(p, row[r])
  BY <1>1, <1>2
<1>4. /\ CatalogueTypeOK /\ RowTells(r) /\ row[r] \in Kept /\ row[r] # Blank /\ new # Blank
      /\ p.old \in Kept /\ p.new \in Kept
  BY <1>1, <1>2, CatalogueTypes DEF CatalogueInv, Change
<1>5. /\ row'[r] = new /\ book'[r] = Append(book[r], e)
      /\ \A x \in Record \ {r} : row'[x] = row[x] /\ book'[x] = book[x]
  BY <1>1, <1>2, <1>3, <1>4 DEF CatalogueTypeOK
<1>6. book' \in [Record -> Seq(EntryRow)]
  BY <1>1, <1>2, <1>4 DEF CatalogueTypeOK
<1>7. row' \in [Record -> Kept \cup {Blank}] /\ pen' \in [Editor -> Change \cup {Blank}]
  BY <1>1, <1>2, <1>3, <1>4 DEF CatalogueTypeOK
<1>8. CatalogueTypeOK'
  BY <1>6, <1>7 DEF CatalogueTypeOK
<1>9. PICK n \in Nat : n = Cardinality(Changes(r))
  BY <1>4, ChangesAreFew
<1>10. /\ new.version = p.old.version + 1 /\ p.old.version <= n + 1 /\ p.old.version \in Nat
       /\ p.old = row[r] => new = p.new
  <2>1. p.old.live /\ p.new.version = p.old.version + 1 /\ p.old.version <= n + 1
    BY <1>1, <1>2, <1>9 DEF PenSound
  <2>. QED
    BY <1>3, <1>4, <2>1, MergedIs DEF Kept
<1>11. new.version <= n + 2
  BY <1>10
<1>12. ASSUME new.version = n + 2
       PROVE  /\ row[r].version = n + 1
              /\ e.before = Snapshot(row[r]) /\ e.after = Snapshot(new)
              /\ new.key = KeyOf(r, new.name)
  <2>1. p.old.version = n + 1
    BY <1>10, <1>12
  <2>2. p.old = row[r] /\ new = p.new
    BY <1>1, <1>2, <1>9, <1>10, <2>1 DEF PenSound
  <2>3. row[r].key = KeyOf(r, row[r].name)
    BY <1>4, <1>9, <2>1, <2>2 DEF RowTells
  <2>4. new.key = KeyOf(r, new.name)
    BY <1>1, <1>2, <2>2, <2>3 DEF PenSound
  <2>. QED
    BY <1>1, <2>1, <2>2, <2>4
<1>13. RowTells(r)'
  BY <1>1, <1>4, <1>5, <1>9, <1>11, <1>12, ChangeTells
<1>14. Cardinality(Changes(r)') = n + 1
  BY <1>1, <1>4, <1>5, <1>9, ChangesMore
<1>15. \A x \in Record : row'[x] = Blank => book'[x] = <<>>
  BY <1>4, <1>5 DEF CatalogueInv
<1>16. ASSUME NEW x \in Record, row'[x] # Blank PROVE RowTells(x)'
  <2>1. CASE x = r
    BY <1>13, <2>1
  <2>2. CASE x # r
    BY <1>5, <1>16, <2>2, UntouchedTell DEF CatalogueInv
  <2>. QED
    BY <2>1, <2>2
<1>17. ASSUME NEW t \in Editor, NEW q \in Change, pen'[t] = q PROVE PenSound(q)'
  <2>1. pen[t] = q /\ PenSound(q) /\ q.r \in Record
    BY <1>1, <1>4, <1>17, CatalogueTypes DEF CatalogueInv, CatalogueTypeOK, Change
  <2>2. CASE q.r = r
    BY <1>4, <1>5, <1>9, <1>14, <2>1, <2>2, OvertakenSound
  <2>3. CASE q.r # r
    <3>1. row'[q.r] = row[q.r] /\ book'[q.r] = book[q.r]
      BY <1>5, <2>1, <2>3
    <3>. QED
      BY <2>1, <3>1, UntouchedTell
  <2>. QED
    BY <2>2, <2>3
<1>. QED
  BY <1>8, <1>15, <1>16, <1>17 DEF CatalogueInv
-----------------------------------------------------------------------------
(* The invariant behind the theorems: while the version of a row counts every *)
(* change its audit entries tell of, they tell the row, and a change in hand  *)
(* with that version was loaded from the row as it is.                        *)
THEOREM CatalogueStaysSound == CatalogueSpec => []CatalogueInv
<1>1. CatalogueInit => CatalogueInv
  BY BooksStart
<1>2. ASSUME CatalogueInv, [CatalogueNext]_catalogueVars
      PROVE  CatalogueInv'
  <2>1. ASSUME NEW r \in Record, NEW n \in Name, NEW d \in Data[r], CreateRecord(r, n, d)
        PROVE  CatalogueInv'
    BY <1>2, <2>1, CreateKeeps
  <2>2. ASSUME NEW r \in Record, RetireAgain(r)
        PROVE  CatalogueInv'
    BY <1>2, <2>2, RetireAgainKeeps
  <2>3. ASSUME NEW s \in Editor, NEW r \in Record,
               \/ \E n \in Name : \E d \in Data[r] : BeginUpdate(s, r, n, d)
               \/ BeginRetire(s, r)
        PROVE  CatalogueInv'
    BY <1>2, <2>3, BeginKeeps
  <2>4. ASSUME NEW s \in Editor, WriteRow(s)
        PROVE  CatalogueInv'
    BY <1>2, <2>4, WriteKeeps
  <2>5. ASSUME NEW s \in Editor, PutDown(s)
        PROVE  CatalogueInv'
    BY <1>2, <2>5, PutDownKeeps
  <2>6. CASE UNCHANGED catalogueVars
    <3>1. UNCHANGED <<row, book, pen>>
      BY <2>6 DEF catalogueVars
    <3>. QED
      BY <1>2, <3>1, PenKeeps DEF CatalogueInv, CatalogueTypeOK
  <2>. QED
    BY <1>2, <2>1, <2>2, <2>3, <2>4, <2>5, <2>6 DEF CatalogueNext
<1>. QED
  BY <1>1, <1>2, PTL DEF CatalogueSpec

(* Every reachable row, audit entry and change in hand is well typed.         *)
THEOREM CatalogueTypeCorrect == CatalogueSpec => []CatalogueTypeOK
<1>1. CatalogueInv => CatalogueTypeOK
  BY DEF CatalogueInv
<1>. QED
  BY <1>1, CatalogueStaysSound, PTL

(* No row ever runs ahead of its audit entries, and one that is level with    *)
(* them is what they tell, whatever callers overlap.                          *)
THEOREM AuditTells == CatalogueSpec => []AuditTellsRow
<1>1. CatalogueInv => AuditTellsRow
  <2>1. ASSUME NEW r \in Record, RowTells(r)
        PROVE  LET n == Cardinality(Changes(r))
                   end == Len(book[r]) + 1
               IN  /\ row[r].version <= n + 1
                   /\ row[r].version = n + 1 =>
                       /\ row[r].key = KeyOf(r, row[r].name)
                       /\ \A j \in Changes(r) :
                             IsBefore(r, j, end) => book[r][j].after = Snapshot(row[r])
                       /\ \A i \in Changes(r), j \in Changes(r) :
                             IsBefore(r, j, i) => book[r][i].before = book[r][j].after
                       /\ SortOf[r] # "setting" =>
                             \A i \in Changes(r) : (\A j \in Changes(r) : i <= j)
                                                    => book[r][i].before = book[r][1].after
    BY <2>1, Zenon DEF RowTells
  <2>. QED
    BY <2>1, Zenon DEF CatalogueInv, AuditTellsRow
<1>. QED
  BY <1>1, CatalogueStaysSound, PTL

(* No change that was in flight brings a retired row back into service.       *)
THEOREM RetiredForGood == CatalogueSpec => RetiredStaysRetired
<1>1. ASSUME CatalogueInv, [CatalogueNext]_catalogueVars, NEW r \in Record,
             row[r] # Blank, ~row[r].live
      PROVE  ~row'[r].live
  <2>1. row \in [Record -> Kept \cup {Blank}] /\ CatalogueTypeOK
    BY <1>1 DEF CatalogueInv, CatalogueTypeOK
  <2>2. CASE row' = row
    BY <1>1, <2>2
  <2>3. ASSUME NEW x \in Record, NEW n \in Name, NEW d \in Data[x], CreateRecord(x, n, d)
        PROVE  ~row'[r].live
    BY <1>1, <2>1, <2>3 DEF CreateRecord
  <2>4. ASSUME NEW s \in Editor, WriteRow(s)
        PROVE  ~row'[r].live
    <3>1. PICK p \in Change, e \in EntryRow :
              /\ PenSound(p) /\ p.r \in Record /\ row[p.r] \in Kept
              /\ row' = [row EXCEPT ![p.r] = Merged(p, row[p.r])]
      BY <1>1, <2>4, WriteIs
    <3>2. Merged(p, row[p.r]).live => row[p.r].live
      BY <3>1, MergedIs DEF PenSound
    <3>. QED
      BY <1>1, <2>1, <3>1, <3>2
  <2>. QED
    BY <1>1, <2>2, <2>3, <2>4
    DEF CatalogueNext, RetireAgain, BeginUpdate, BeginRetire, Take, PutDown, catalogueVars
<1>2. CatalogueInv /\ [CatalogueNext]_catalogueVars
      => [\A r \in Record : row[r] # Blank /\ ~row[r].live => ~row'[r].live]_catalogueVars
  BY <1>1
<1>. QED
  BY <1>2, CatalogueStaysSound, PTL DEF CatalogueSpec, RetiredStaysRetired
=============================================================================
