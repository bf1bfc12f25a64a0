------------------------------ MODULE SessionProofs ------------------------------
(***************************************************************************)
(* Proofs about what a session remembers: the checkpoints of its turns,    *)
(* which an undo inverts and a commit prunes, and its journal, which       *)
(* outlives failed appends, crashes and a migration that stopped half way. *)
(***************************************************************************)
EXTENDS MCSession, WellFoundedInduction, TLAPS

-----------------------------------------------------------------------------
(* Induction over a bounded range, in a form the provers can use: the        *)
(* theorems of the library take an operator as a parameter, which none of    *)
(* them can instantiate.  And two facts about sequences.                     *)

\* A set of naturals has a least one.
LEMMA Least ==
  ASSUME NEW S \in SUBSET Nat, NEW n \in S
  PROVE  \E m \in S : \A x \in S : m <= x
  <1> DEFINE R == OpToRel(<, Nat)
  <1>1. IsWellFoundedOn(R, Nat)
    BY NatLessThanWellFounded
  <1>2. \A x, y \in Nat : <<y, x>> \in R <=> y < x
    BY DEF OpToRel
  <1> HIDE DEF R
  <1>3. PICK m \in S : \A x \in S : ~(<<x, m>> \in R)
    BY <1>1, WFMin
  <1>4. \A x \in S : ~(x < m)
    BY <1>2, <1>3
  <1> QED BY <1>4

\* What holds of 0 and is passed on holds up to L: there is no least number of
\* which it does not hold.
LEMMA UpTo ==
  ASSUME NEW L \in Nat, NEW S, 0 \in S, \A m \in 0..(L - 1) : m \in S => m + 1 \in S
  PROVE  \A m \in 0..L : m \in S
  <1> DEFINE T == {m \in 0..L : m \notin S}
  <1> SUFFICES ASSUME NEW k \in T PROVE FALSE
    OBVIOUS
  <1>1. PICK m \in T : \A x \in T : m <= x
    <2>1. T \in SUBSET Nat
      OBVIOUS
    <2> QED BY <2>1, Least
  <1>2. m \in 0..L /\ m # 0
    OBVIOUS
  <1>3. m - 1 \in 0..L /\ m - 1 \in 0..(L - 1) /\ (m - 1) + 1 = m /\ ~(m <= m - 1)
    BY <1>2
  <1>4. m - 1 \notin S
    BY <1>3
  <1> QED BY <1>1, <1>3, <1>4

\* A function over 1..L is a sequence of that length.
LEMMA FunIsSeq ==
  ASSUME NEW A, NEW L \in Nat, NEW z \in [1..L -> A]
  PROVE  z \in Seq(A) /\ DOMAIN z = 1..L /\ Len(z) = L
  OBVIOUS

\* Two sequences with the same elements are one.
LEMMA SameSeq ==
    ASSUME NEW A, NEW y \in Seq(A), NEW z \in Seq(A), Len(y) = Len(z),
           \A x \in 1..Len(y) : y[x] = z[x]
    PROVE  y = z
  OBVIOUS


-----------------------------------------------------------------------------
(* The checkpoints.  A turn that recorded each of its mutations went       *)
(* through a chain of disks, one to an entry, and each entry takes the     *)
(* disk back by one: that chain, from what the turn found to what it left, *)
(* is the invariant, and an undo that nobody disturbs walks it backwards.  *)

Content == Undo!Bytes \cup {None}

Agree(Q, c, d) == \A q \in Q : c[q] = d[q]

\* d is what c was before e: e took c to d, and its reverse takes d to c.
Reverts(d, e, c) ==
    IF e.movedTo # None
    THEN /\ d[e.movedTo] # None /\ d[e.path] = None
         /\ c = [d EXCEPT ![e.path] = d[e.movedTo], ![e.movedTo] = None]
    ELSE d[e.path] = e.after /\ c = [d EXCEPT ![e.path] = e.before]

\* The disks a turn went through, one to an entry.
Chain(D, es) ==
    /\ D \in [0..Len(es) -> [Undo!Places -> Content]]
    /\ \A i \in 1..Len(es) : Reverts(D[i], es[i], D[i - 1])

\* Entries speak of what the turn touched.
Confined(es, T) ==
    \A i \in 1..Len(es) :
        /\ es[i] \in Undo!Entry /\ es[i].path \in T
        /\ es[i].movedTo # None => es[i].movedTo \in T /\ es[i].movedTo # es[i].path
        /\ es[i].movedTo = None => es[i].after \in AgentBytes

\* From what the turn found to what it left.
Spans(D, t) ==
    /\ Chain(D, t.entries)
    /\ \A q \in t.touched : D[0][q] = t.found[q] /\ D[Len(t.entries)][q] = t.left[q]

Sound(t) ==
    /\ Confined(t.entries, t.touched)
    /\ t.recorded /\ t.alone => \E D : Spans(D, t)

\* It is one of the first n turns, and touched of the trash the first k.
Known(t, n, k) == t.n <= n /\ \A q \in t.touched : q \in Undo!Trash => q <= k

Recording(s) ==
    open[s] # None =>
        /\ undoing[s] = None /\ Sound(open[s]) /\ Known(open[s], begun, trashed)
        /\ open[s].alone => Agree(open[s].touched, disk, open[s].left)
        /\ \A i \in DOMAIN saved[s] : saved[s][i].n < open[s].n

Archive(s) ==
    /\ \A i \in DOMAIN saved[s] : Sound(saved[s][i]) /\ Known(saved[s][i], begun, trashed)
    /\ \A i, j \in DOMAIN saved[s] : i < j => saved[s][i].n < saved[s][j].n

\* An undo that nobody disturbed has come as far back as the turn once was.
Reverting(s) ==
    undoing[s] # None =>
        LET u == undoing[s]
            t == saved[s][u.at]
        IN u.alone =>
             /\ t.alone
             /\ t.recorded => u.conflicts = 0 /\ \E D : Spans(D, t) /\ Agree(t.touched, disk, D[u.todo])

TrashFree == \A k \in Undo!Trash : k > trashed => disk[k] = None

UndoInv ==
    /\ Undo!TypeOK /\ TrashFree
    /\ \A s \in Owners : Recording(s) /\ Archive(s) /\ Reverting(s)

-----------------------------------------------------------------------------

LEMMA Apart ==
  /\ None \notin Undo!Places /\ None \notin Undo!Bytes /\ Paths \cap Undo!Trash = {}
  /\ Paths \subseteq Undo!Places /\ Undo!Trash \subseteq Undo!Places /\ Undo!Trash \subseteq Nat
  BY CheckpointAssumption DEF Undo!Places, Undo!Bytes, Undo!Trash

LEMMA InitIInv == Undo!Init => UndoInv
  <1> SUFFICES ASSUME Undo!Init PROVE UndoInv  OBVIOUS
  <1>1. Undo!TypeOK
    BY CheckpointAssumption DEF Undo!Init, Undo!TypeOK, Undo!Bytes
  <1>2. TrashFree
    BY DEF Undo!Init, TrashFree
  <1>3. \A s \in Owners : Recording(s) /\ Archive(s) /\ Reverting(s)
    <2>1. \A s \in Owners : open[s] = None /\ undoing[s] = None /\ saved[s] = <<>>
      BY DEF Undo!Init
    <2>2. DOMAIN <<>> = {}
      OBVIOUS
    <2> QED BY <2>1, <2>2 DEF Recording, Archive, Reverting
  <1> QED BY <1>1, <1>2, <1>3 DEF UndoInv

\* One more entry, one more disk.
LEMMA Longer ==
  ASSUME NEW es \in Seq(Undo!Entry), NEW e \in Undo!Entry, NEW D, Chain(D, es),
         NEW d \in [Undo!Places -> Content], Reverts(d, e, D[Len(es)])
  PROVE  \E C : Chain(C, Append(es, e)) /\ C[0] = D[0] /\ C[Len(Append(es, e))] = d
  <1> DEFINE n == Len(es)
             C == [i \in 0..(n + 1) |-> IF i = n + 1 THEN d ELSE D[i]]
  <1>0. n \in Nat /\ Len(Append(es, e)) = n + 1
    OBVIOUS
  <1>1. C \in [0..(n + 1) -> [Undo!Places -> Content]]
    BY <1>0 DEF Chain
  <1>2. ASSUME NEW i \in 1..(n + 1) PROVE Reverts(C[i], Append(es, e)[i], C[i - 1])
    <2>1. CASE i = n + 1
      BY <1>0, <2>1
    <2>2. CASE i # n + 1
      <3>1. i \in 1..n /\ Append(es, e)[i] = es[i] /\ C[i] = D[i] /\ C[i - 1] = D[i - 1]
        BY <1>0, <2>2
      <3> QED BY <3>1 DEF Chain
    <2> QED BY <2>1, <2>2
  <1>3. C[0] = D[0] /\ C[n + 1] = d
    BY <1>0
  <1> QED BY <1>0, <1>1, <1>2, <1>3 DEF Chain

\* What the entries do not speak of may as well have been otherwise.
LEMMA Elsewhere ==
  ASSUME NEW es \in Seq(Undo!Entry), NEW D, Chain(D, es), NEW T, Confined(es, T),
         NEW c \in [Undo!Places -> Content], Agree(T, D[Len(es)], c)
  PROVE  \E C : /\ Chain(C, es) /\ C[Len(es)] = c
                /\ Agree(T \cap Undo!Places, C[0], D[0])
                /\ Agree(Undo!Places \ T, C[0], c)
  <1> DEFINE C == [i \in 0..Len(es) |-> [q \in Undo!Places |-> IF q \in T THEN D[i][q] ELSE c[q]]]
  <1>0. Len(es) \in Nat /\ \A i \in 0..Len(es) : D[i] \in [Undo!Places -> Content]
    BY DEF Chain
  <1>1. C \in [0..Len(es) -> [Undo!Places -> Content]]
    BY <1>0
  <1>2. ASSUME NEW i \in 1..Len(es) PROVE Reverts(C[i], es[i], C[i - 1])
    <2>1. i - 1 \in 0..Len(es) /\ i \in 0..Len(es)
      BY <1>0
    <2>2. Reverts(D[i], es[i], D[i - 1])
      BY DEF Chain
    <2>3. /\ es[i].path \in T \cap Undo!Places
          /\ es[i].movedTo # None => es[i].movedTo \in T \cap Undo!Places /\ es[i].movedTo # es[i].path
      BY DEF Confined, Undo!Entry
    <2>4. /\ C[i] = [q \in Undo!Places |-> IF q \in T THEN D[i][q] ELSE c[q]]
          /\ C[i - 1] = [q \in Undo!Places |-> IF q \in T THEN D[i - 1][q] ELSE c[q]]
      BY <2>1
    <2>5. D[i] \in [Undo!Places -> Content] /\ D[i - 1] \in [Undo!Places -> Content]
      BY <1>0, <2>1
    <2> HIDE DEF C
    <2>6. CASE es[i].movedTo # None
      <3>1. C[i][es[i].movedTo] = D[i][es[i].movedTo] /\ C[i][es[i].path] = D[i][es[i].path]
        BY <2>3, <2>4, <2>6
      <3>2. D[i - 1] = [D[i] EXCEPT ![es[i].path] = D[i][es[i].movedTo], ![es[i].movedTo] = None]
        BY <2>2, <2>6 DEF Reverts
      <3>3. C[i - 1] = [C[i] EXCEPT ![es[i].path] = C[i][es[i].movedTo], ![es[i].movedTo] = None]
        BY <2>3, <2>4, <2>5, <2>6, <3>1, <3>2
      <3> QED BY <2>2, <2>6, <3>1, <3>3 DEF Reverts
    <2>7. CASE es[i].movedTo = None
      <3>1. C[i][es[i].path] = D[i][es[i].path]
        BY <2>3, <2>4
      <3>2. D[i - 1] = [D[i] EXCEPT ![es[i].path] = es[i].before]
        BY <2>2, <2>7 DEF Reverts
      <3>3. C[i - 1] = [C[i] EXCEPT ![es[i].path] = es[i].before]
        BY <2>3, <2>4, <2>5, <3>2
      <3> QED BY <2>2, <2>7, <3>1, <3>3 DEF Reverts
    <2> QED BY <2>6, <2>7
  <1>3. C[Len(es)] = c
    BY <1>0 DEF Agree
  <1>4. Agree(T \cap Undo!Places, C[0], D[0]) /\ Agree(Undo!Places \ T, C[0], c)
    BY <1>0 DEF Agree
  <1>5. Chain(C, es)
    BY <1>1, <1>2 DEF Chain
  <1> HIDE DEF C
  <1> QED BY <1>3, <1>4, <1>5

LEMMA KnownLater ==
  ASSUME NEW z, NEW n, NEW k \in Nat, NEW l \in Nat, k <= l, Known(z, n, k)
  PROVE  Known(z, n, l)
  <1> SUFFICES ASSUME NEW q \in z.touched, q \in Undo!Trash PROVE q <= l
    BY DEF Known
  <1>1. q \in Nat /\ q <= k
    BY Apart DEF Known
  <1> QED BY <1>1

\* A session that others leave alone, but for places they write.
LEMMA Bystander ==
  ASSUME UndoInv, NEW x \in Owners, NEW Q, Agree(Undo!Places \ Q, disk', disk),
         open'[x] = Undo!Disturbed(open[x], Q), undoing'[x] = Undo!DisturbedUndo(x, Q),
         saved'[x] = saved[x], begun' = begun, trashed' \in Nat, trashed' >= trashed
  PROVE  /\ Recording(x)' /\ Archive(x)' /\ Reverting(x)'
         /\ open'[x] \in Undo!Turn \cup {None} /\ undoing'[x] \in Undo!Undo \cup {None}
         /\ undoing'[x] # None =>
              undoing'[x].at \in DOMAIN saved'[x]
              /\ undoing'[x].todo <= Len(saved'[x][undoing'[x].at].entries)
  <1> DEFINE t == open[x]
             u == undoing[x]
  <1>0. /\ Recording(x) /\ Archive(x) /\ Reverting(x) /\ trashed \in Nat /\ begun \in Nat
        /\ t \in Undo!Turn \cup {None} /\ u \in Undo!Undo \cup {None} /\ saved[x] \in Seq(Undo!Turn)
        /\ u # None => u.at \in DOMAIN saved[x] /\ u.todo <= Len(saved[x][u.at].entries)
    BY DEF UndoInv, Undo!TypeOK
  <1>1. \A z, n : Known(z, n, trashed) => Known(z, n, trashed')
    BY <1>0, KnownLater
  <1>2. Archive(x)'
    <2>1. \A i \in DOMAIN saved[x] : saved[x][i] \in Undo!Turn
      BY <1>0
    <2> QED BY <1>0, <1>1, <2>1 DEF Archive, Undo!Turn
  <1>3. open'[x] \in Undo!Turn \cup {None} /\ Recording(x)'
    <2>1. CASE t = None
      BY <2>1 DEF Undo!Disturbed, Recording
    <2>2. CASE t # None /\ t.touched \cap Q = {}
      <3>1. open'[x] = t /\ t.touched \subseteq Undo!Places
        BY <1>0, <2>2 DEF Undo!Disturbed, Undo!Turn
      <3>2. undoing'[x] = None
        BY <1>0, <2>2 DEF Recording, Undo!DisturbedUndo
      <3>3. \A q \in t.touched : disk'[q] = disk[q]
        BY <2>2, <3>1 DEF Agree
      <3> QED BY <1>0, <1>1, <2>2, <3>1, <3>2, <3>3 DEF Recording, Agree
    <2>3. CASE t # None /\ t.touched \cap Q # {}
      <3>1. open'[x] = [t EXCEPT !.alone = FALSE] /\ t.touched \subseteq Undo!Places /\ t \in Undo!Turn
        BY <1>0, <2>3 DEF Undo!Disturbed, Undo!Turn
      <3>2. /\ open'[x] \in Undo!Turn /\ ~open'[x].alone /\ open'[x].n = t.n
            /\ open'[x].entries = t.entries /\ open'[x].touched = t.touched
        BY <3>1 DEF Undo!Turn
      <3>3. undoing'[x] = None
        BY <1>0, <2>3 DEF Recording, Undo!DisturbedUndo
      <3>4. Sound(open'[x])
        BY <1>0, <2>3, <3>2 DEF Recording, Sound
      <3>5. Known(open'[x], begun', trashed')
        BY <1>0, <1>1, <2>3, <3>1, <3>2 DEF Recording, Known
      <3> QED BY <1>0, <2>3, <3>2, <3>3, <3>4, <3>5 DEF Recording
    <2> QED BY <2>1, <2>2, <2>3
  <1>4. CASE u = None
    BY <1>2, <1>3, <1>4 DEF Undo!DisturbedUndo, Reverting
  <1>5. CASE u # None /\ saved[x][u.at].touched \cap Q = {}
    <2>1. undoing'[x] = u /\ saved[x][u.at] \in Undo!Turn
      BY <1>0, <1>5 DEF Undo!DisturbedUndo
    <2>2. \A q \in saved[x][u.at].touched : disk'[q] = disk[q]
      BY <1>5, <2>1 DEF Undo!Turn, Agree
    <2> QED BY <1>0, <1>2, <1>3, <1>5, <2>1, <2>2 DEF Reverting, Agree
  <1>6. CASE u # None /\ saved[x][u.at].touched \cap Q # {}
    <2>1. undoing'[x] = [u EXCEPT !.alone = FALSE] /\ u \in Undo!Undo
      BY <1>0, <1>6 DEF Undo!DisturbedUndo
    <2>2. /\ undoing'[x] \in Undo!Undo /\ ~undoing'[x].alone /\ undoing'[x].at = u.at
          /\ undoing'[x].todo = u.todo
      BY <2>1 DEF Undo!Undo
    <2> QED BY <1>0, <1>2, <1>3, <1>6, <2>2 DEF Reverting
  <1> QED BY <1>4, <1>5, <1>6

-----------------------------------------------------------------------------
(* A tool writes. *)

\* w is turn t, once its session left the disk as "after", having changed Q.
Rewritten(w, t, before, after, Q, more) ==
    /\ w \in Undo!Turn /\ w.n = t.n /\ w.alone = t.alone /\ w.entries = more
    /\ w.touched = t.touched \cup Q
    /\ w.found = [q \in Undo!Places |-> IF q \in Q \ t.touched THEN before[q] ELSE t.found[q]]
    /\ w.left = [q \in Undo!Places |-> IF q \in Q THEN after[q] ELSE t.left[q]]

\* Entries that lead on from any way of reaching the disk as it was.
Leads(es, more, before, after) ==
    \A D : Chain(D, es) /\ D[Len(es)] = before
             => \E C : Chain(C, more) /\ C[0] = D[0] /\ C[Len(more)] = after

LEMMA RewrittenSound ==
  ASSUME NEW t \in Undo!Turn, Sound(t), NEW before \in [Undo!Places -> Content],
         t.alone => Agree(t.touched, before, t.left),
         NEW after \in [Undo!Places -> Content],
         NEW Q \in SUBSET Undo!Places, Agree(Undo!Places \ Q, after, before),
         NEW more \in Seq(Undo!Entry), Confined(more, t.touched \cup Q),
         NEW w, Rewritten(w, t, before, after, Q, more),
         w.recorded => t.recorded /\ Leads(t.entries, more, before, after)
  PROVE  /\ Sound(w)
         /\ w.alone => Agree(w.touched, after, w.left)
  <1>0. /\ t.touched \in SUBSET Undo!Places /\ t.entries \in Seq(Undo!Entry)
        /\ t.found \in [Undo!Places -> Content] /\ t.left \in [Undo!Places -> Content]
    BY DEF Content, Undo!Turn
  <1>1. /\ w.entries = more /\ w.touched = t.touched \cup Q /\ w.alone = t.alone
        /\ w.found = [q \in Undo!Places |-> IF q \in Q \ t.touched THEN before[q] ELSE t.found[q]]
        /\ w.left = [q \in Undo!Places |-> IF q \in Q THEN after[q] ELSE t.left[q]]
    BY DEF Rewritten
  <1>4. ASSUME t.alone PROVE \A q \in w.touched : after[q] = w.left[q]
    BY <1>0, <1>1, <1>4 DEF Agree
  <1>5. ASSUME w.recorded, t.alone PROVE \E E : Spans(E, w)
    <2>1. PICK D : Spans(D, t)
      BY <1>5 DEF Sound
    <2>2. Chain(D, t.entries) /\ Confined(t.entries, t.touched)
      BY <2>1 DEF Spans, Sound
    <2>3. \A q \in t.touched : D[0][q] = t.found[q] /\ D[Len(t.entries)][q] = before[q]
      BY <1>0, <1>5, <2>1 DEF Spans, Agree
    <2>4. PICK C : /\ Chain(C, t.entries) /\ C[Len(t.entries)] = before
                   /\ Agree(t.touched \cap Undo!Places, C[0], D[0])
                   /\ Agree(Undo!Places \ t.touched, C[0], before)
      <3>1. Agree(t.touched, D[Len(t.entries)], before)
        BY <2>3 DEF Agree
      <3>2. t.entries \in Seq(Undo!Entry) /\ before \in [Undo!Places -> Content]
        BY <1>0
      <3> QED BY <2>2, <3>1, <3>2, Elsewhere
    <2>5. PICK E : Chain(E, more) /\ E[0] = C[0] /\ E[Len(more)] = after
      BY <1>5, <2>4 DEF Leads
    <2>6. \A q \in w.touched : E[0][q] = w.found[q]
      BY <1>0, <1>1, <2>3, <2>4, <2>5 DEF Agree
    <2>7. \A q \in w.touched : E[Len(more)][q] = w.left[q]
      BY <1>4, <1>5, <2>5
    <2>8. w.entries = more
      BY <1>1
    <2>9. Spans(E, w)
      BY <2>5, <2>6, <2>7, <2>8 DEF Spans
    <2> QED BY <2>9
  <1>6. Sound(w)
    BY <1>1, <1>5 DEF Sound
  <1>7. w.alone => Agree(w.touched, after, w.left)
    BY <1>1, <1>4 DEF Agree
  <1> QED BY <1>6, <1>7

\* Session s, which records w now, changed Q and disturbed the others.
Replaced(s, w, after, Q) ==
    /\ open' = [x \in Owners |-> IF x # s THEN Undo!Disturbed(open[x], Q) ELSE w]
    /\ undoing' = [x \in Owners |-> IF x = s THEN undoing[x] ELSE Undo!DisturbedUndo(x, Q)]
    /\ mutations' = mutations + 1 /\ disk' = after

\* The trash beyond what is used is still empty.
TrashGrows(after, Q) ==
    /\ trashed' \in 0..MaxTrash /\ trashed' >= trashed
    /\ \A k \in Undo!Trash : k > trashed' => after[k] = None
    /\ \A q \in Q : q \in Undo!Trash => q <= trashed'

LEMMA MutateIInv ==
  ASSUME UndoInv, NEW s \in Owners, Undo!MayMutate(s), NEW after \in [Undo!Places -> Content],
         NEW Q \in SUBSET Undo!Places, Agree(Undo!Places \ Q, after, disk),
         NEW more \in Seq(Undo!Entry), Confined(more, open[s].touched \cup Q),
         NEW w, Rewritten(w, open[s], disk, after, Q, more),
         w.recorded => open[s].recorded /\ Leads(open[s].entries, more, disk, after),
         Replaced(s, w, after, Q), UNCHANGED <<saved, begun, outside>>,
         TrashGrows(after, Q)
  PROVE  UndoInv'
  <1>0. /\ open[s] # None /\ mutations' = mutations + 1 /\ disk' = after
        /\ open' = [x \in Owners |-> IF x # s THEN Undo!Disturbed(open[x], Q) ELSE w]
        /\ undoing' = [x \in Owners |-> IF x = s THEN undoing[x] ELSE Undo!DisturbedUndo(x, Q)]
        /\ mutations + outside < MaxMutations
    BY DEF Undo!MayMutate, Replaced
  <1> USE DEF TrashGrows
  <1>1. /\ w \in Undo!Turn /\ Sound(w) /\ w.n = open[s].n /\ w.touched = open[s].touched \cup Q
        /\ w.alone => Agree(w.touched, after, w.left)
    <2>1. open[s] \in Undo!Turn /\ disk \in [Undo!Places -> Content] /\ Recording(s)
      BY <1>0 DEF UndoInv, Undo!TypeOK, Content
    <2>2. /\ Sound(open[s])
          /\ open[s].alone => Agree(open[s].touched, disk, open[s].left)
      BY <1>0, <2>1 DEF Recording
    <2>3. Sound(w) /\ (w.alone => Agree(w.touched, after, w.left))
      BY <2>1, <2>2, RewrittenSound
    <2> QED BY <2>3 DEF Rewritten
  <1>2. /\ Recording(s) /\ Archive(s) /\ saved \in [Owners -> Seq(Undo!Turn)] /\ saved[s] \in Seq(Undo!Turn)
        /\ open[s] \in Undo!Turn /\ begun \in Nat /\ trashed \in Nat /\ trashed' \in Nat
    BY <1>0 DEF UndoInv, Undo!TypeOK
  <1>3. undoing'[s] = None /\ open'[s] = w
    BY <1>0, <1>2 DEF Recording
  <1>4. /\ Recording(s)' /\ Archive(s)' /\ Reverting(s)'
        /\ open'[s] \in Undo!Turn \cup {None} /\ undoing'[s] \in Undo!Undo \cup {None}
    <2>1. Known(w, begun, trashed')
      <3>1. Known(open[s], begun, trashed')
        BY <1>0, <1>2, KnownLater DEF Recording
      <3> QED BY <1>0, <1>1, <3>1 DEF Known
    <2>2. Recording(s)'
      BY <1>0, <1>1, <1>2, <1>3, <2>1 DEF Recording
    <2>3. Archive(s)'
      <3>1. \A i \in DOMAIN saved[s] : Known(saved[s][i], begun, trashed')
        BY <1>2, KnownLater DEF Archive
      <3> QED BY <1>2, <3>1 DEF Archive
    <2> QED BY <1>1, <1>3, <2>2, <2>3 DEF Reverting
  <1>5. ASSUME NEW x \in Owners, x # s
        PROVE  /\ Recording(x)' /\ Archive(x)' /\ Reverting(x)'
               /\ open'[x] \in Undo!Turn \cup {None} /\ undoing'[x] \in Undo!Undo \cup {None}
               /\ undoing'[x] # None =>
                    undoing'[x].at \in DOMAIN saved'[x]
                    /\ undoing'[x].todo <= Len(saved'[x][undoing'[x].at].entries)
    BY <1>0, <1>2, <1>5, Bystander
  <1>6. Undo!TypeOK'
    <2>1. mutations' \in 0..MaxMutations
      BY <1>0, CheckpointAssumption DEF UndoInv, Undo!TypeOK
    <2>2. open' \in [Owners -> Undo!Turn \cup {None}] /\ undoing' \in [Owners -> Undo!Undo \cup {None}]
      BY <1>0, <1>4, <1>5
    <2>3. \A x \in Owners : undoing'[x] # None =>
            undoing'[x].at \in DOMAIN saved'[x]
            /\ undoing'[x].todo <= Len(saved'[x][undoing'[x].at].entries)
      BY <1>3, <1>5
    <2> QED BY <1>0, <2>1, <2>2, <2>3 DEF UndoInv, Undo!TypeOK, Content
  <1>7. TrashFree'
    BY <1>0 DEF TrashFree
  <1> QED BY <1>4, <1>5, <1>6, <1>7 DEF UndoInv

LEMMA MutateGives ==
  ASSUME UndoInv, NEW s \in Owners, open[s] # None, NEW after \in [Undo!Places -> Content],
         NEW Q \in SUBSET Undo!Places, NEW more \in Seq(Undo!Entry), NEW c \in BOOLEAN,
         Undo!Mutate(s, after, Q, more, c)
  PROVE  \E w : /\ Rewritten(w, open[s], disk, after, Q, more)
                /\ w.recorded => open[s].recorded /\ c
                /\ Replaced(s, w, after, Q)
  <1> DEFINE t == open[s]
             w == [t EXCEPT !.entries = more, !.touched = @ \cup Q,
                            !.found = [q \in Undo!Places |-> IF q \in Q \ t.touched THEN disk[q] ELSE @[q]],
                            !.left = [q \in Undo!Places |-> IF q \in Q THEN after[q] ELSE @[q]],
                            !.recorded = @ /\ c]
  <1>0. t \in Undo!Turn /\ disk \in [Undo!Places -> Content]
    BY DEF UndoInv, Undo!TypeOK, Content
  <1>1. /\ t.touched \in SUBSET Undo!Places /\ t.entries \in Seq(Undo!Entry)
        /\ t.found \in [Undo!Places -> Content] /\ t.left \in [Undo!Places -> Content]
        /\ t.recorded \in BOOLEAN
    BY <1>0 DEF Content, Undo!Turn
  <1>2. /\ w.entries = more /\ w.touched = t.touched \cup Q /\ w.n = t.n /\ w.alone = t.alone
        /\ w.found = [q \in Undo!Places |-> IF q \in Q \ t.touched THEN disk[q] ELSE t.found[q]]
        /\ w.left = [q \in Undo!Places |-> IF q \in Q THEN after[q] ELSE t.left[q]]
    BY <1>0 DEF Undo!Turn
  <1>3. w.recorded = (t.recorded /\ c)
    BY <1>0 DEF Undo!Turn
  <1>4. w \in Undo!Turn
    <2>1. w.found \in [Undo!Places -> Content] /\ w.left \in [Undo!Places -> Content] /\ w.touched \in SUBSET Undo!Places
      BY <1>0, <1>1, <1>2
    <2>2. w.recorded \in BOOLEAN
      BY <1>1, <1>3
    <2>3. w.entries \in Seq(Undo!Entry)
      BY <1>2
    <2>4. w = [t EXCEPT !.entries = w.entries, !.touched = w.touched, !.found = w.found,
                        !.left = w.left, !.recorded = w.recorded]
      BY <1>2, <1>3
    <2> HIDE DEF w
    <2> QED BY <1>0, <2>1, <2>2, <2>3, <2>4 DEF Undo!Turn, Content
  <1>5. Rewritten(w, t, disk, after, Q, more)
    <2> HIDE DEF w
    <2> QED BY <1>2, <1>4 DEF Rewritten
  <1>6. w.recorded => t.recorded /\ c
    BY <1>1, <1>3
  <1>7. Replaced(s, w, after, Q)
    BY DEF Undo!Mutate, Replaced
  <1> HIDE DEF w
  <1> QED BY <1>5, <1>6, <1>7

\* A tool leaves a trace that leads on, or does not count as recorded.
LEMMA ToolIInv ==
  ASSUME UndoInv, NEW s \in Owners, Undo!MayMutate(s), NEW after \in [Undo!Places -> Content],
         NEW Q \in SUBSET Undo!Places, Agree(Undo!Places \ Q, after, disk),
         NEW more \in Seq(Undo!Entry), Confined(more, open[s].touched \cup Q),
         NEW c \in BOOLEAN, Undo!Mutate(s, after, Q, more, c), UNCHANGED <<saved, begun, outside>>,
         c => Leads(open[s].entries, more, disk, after),
         TrashGrows(after, Q)
  PROVE  UndoInv'
  <1>1. open[s] # None
    BY DEF Undo!MayMutate
  <1>2. PICK w : /\ Rewritten(w, open[s], disk, after, Q, more)
                 /\ w.recorded => open[s].recorded /\ c
                 /\ Replaced(s, w, after, Q)
    BY <1>1, MutateGives
  <1>3. w.recorded => open[s].recorded /\ Leads(open[s].entries, more, disk, after)
    BY <1>2
  <1> QED BY <1>2, <1>3, MutateIInv

LEMMA AtWork ==
  ASSUME UndoInv, NEW s \in Owners, Undo!MayMutate(s)
  PROVE  /\ open[s] # None /\ open[s] \in Undo!Turn /\ open[s].entries \in Seq(Undo!Entry)
         /\ Confined(open[s].entries, open[s].touched)
         /\ disk \in [Undo!Places -> Content] /\ trashed \in 0..MaxTrash
         /\ \A k \in Undo!Trash : k > trashed => disk[k] = None
         /\ \A q \in open[s].touched : q \in Undo!Trash => q <= trashed
  BY DEF Undo!MayMutate, UndoInv, Undo!TypeOK, Undo!Turn, Content, Recording, Sound, Known, TrashFree

\* An entry that a step reverses leads on.
LEMMA OneMore ==
  ASSUME NEW es \in Seq(Undo!Entry), NEW e \in Undo!Entry, NEW before, NEW after \in [Undo!Places -> Content],
         Reverts(after, e, before), ~Undo!Mentions(es, e.path)
  PROVE  Undo!Record(es, e) = Append(es, e) /\ Leads(es, Undo!Record(es, e), before, after)
  <1>1. Undo!Record(es, e) = Append(es, e)
    BY DEF Undo!Record
  <1>2. ASSUME NEW D, Chain(D, es), D[Len(es)] = before
        PROVE  \E C : Chain(C, Append(es, e)) /\ C[0] = D[0] /\ C[Len(Append(es, e))] = after
    BY <1>2, Longer
  <1> QED BY <1>1, <1>2 DEF Leads

LEMMA RecordConfined ==
  ASSUME NEW es \in Seq(Undo!Entry), NEW T, Confined(es, T), NEW e \in Undo!Entry, NEW Q,
         e.path \in T \cup Q,
         e.movedTo # None => e.movedTo \in T \cup Q /\ e.movedTo # e.path,
         e.movedTo = None => e.after \in AgentBytes
  PROVE  Undo!Record(es, e) \in Seq(Undo!Entry) /\ Confined(Undo!Record(es, e), T \cup Q)
  BY DEF Undo!Record, Confined

LEMMA MoveEntry ==
  ASSUME NEW from \in Undo!Places, NEW to \in Undo!Places
  PROVE  /\ Undo!Move(from, to) \in Undo!Entry /\ Undo!Move(from, to).path = from
         /\ Undo!Move(from, to).movedTo = to /\ Undo!Move(from, to).movedTo # None
  BY Apart DEF Undo!Move, Undo!Entry

LEMMA MoveReverts ==
  ASSUME NEW d \in [Undo!Places -> Content], NEW from \in Undo!Places, NEW to \in Undo!Places, from # to,
         d[from] # None, d[to] = None, NEW c, c = [d EXCEPT ![from] = None, ![to] = d[from]]
  PROVE  c \in [Undo!Places -> Content] /\ Reverts(c, Undo!Move(from, to), d) /\ Agree(Undo!Places \ {from, to}, c, d)
  <1>1. c \in [Undo!Places -> Content] /\ c[from] = None /\ c[to] = d[from]
    BY DEF Content
  <1>2. Agree(Undo!Places \ {from, to}, c, d)
    BY DEF Agree
  <1>3. d = [c EXCEPT ![from] = c[to], ![to] = None]
    BY <1>1
  <1> QED BY <1>1, <1>2, <1>3, MoveEntry DEF Reverts

\* EditFile: the bytes before and after.
LEMMA EditFileIInv ==
  ASSUME UndoInv, NEW s \in Owners, NEW p \in Paths, NEW b \in AgentBytes, Undo!EditFile(s, p, b)
  PROVE  UndoInv'
  <1> DEFINE es == open[s].entries
             e == Undo!Edit(p, disk[p], b)
             after == [disk EXCEPT ![p] = b]
  <1>0. /\ Undo!MayMutate(s) /\ Undo!Mutate(s, after, {p}, Undo!Record(es, e), ~Undo!Mentions(es, p))
        /\ UNCHANGED <<trashed, saved, begun, outside>>
        /\ p \in Undo!Places /\ b \in Content
    BY Apart DEF Undo!EditFile, Content, Undo!Bytes
  <1>1. /\ e \in Undo!Entry /\ e.path = p /\ e.movedTo = None /\ e.before = disk[p] /\ e.after = b
    BY <1>0, AtWork DEF Undo!Edit, Undo!Entry, Content, Undo!Bytes
  <1>2. after \in [Undo!Places -> Content] /\ Agree(Undo!Places \ {p}, after, disk)
    BY <1>0, AtWork DEF Agree
  <1>3. Reverts(after, e, disk)
    BY <1>0, <1>1, AtWork DEF Reverts
  <1>4. (~Undo!Mentions(es, p)) \in BOOLEAN
    BY DEF Undo!Mentions
  <1>5. TrashGrows(after, {p})
    BY <1>0, Apart, AtWork DEF TrashGrows
  <1> HIDE DEF e, after
  <1>6. Undo!Record(es, e) \in Seq(Undo!Entry) /\ Confined(Undo!Record(es, e), open[s].touched \cup {p})
    BY <1>0, <1>1, AtWork, RecordConfined
  <1>7. ~Undo!Mentions(es, p) => Leads(es, Undo!Record(es, e), disk, after)
    BY <1>0, <1>1, <1>2, <1>3, AtWork, OneMore
  <1> HIDE DEF es
  <1> QED BY <1>0, <1>2, <1>4, <1>5, <1>6, <1>7, ToolIInv DEF es

\* MovePath, and DeletePath: into the trash under a new name.
LEMMA MoveIInv ==
  ASSUME UndoInv, NEW s \in Owners, NEW from \in Undo!Places, NEW to \in Undo!Places, from # to,
         disk[from] # None, disk[to] = None,
         Undo!MayMutate(s), UNCHANGED <<saved, begun, outside>>,
         Undo!Mutate(s, [disk EXCEPT ![from] = None, ![to] = disk[from]], {from, to},
                Undo!Record(open[s].entries, Undo!Move(from, to)), ~Undo!Mentions(open[s].entries, from)),
         trashed' \in 0..MaxTrash, trashed' >= trashed, to \in Undo!Trash => to <= trashed'
  PROVE  UndoInv'
  <1> DEFINE es == open[s].entries
             e == Undo!Move(from, to)
             after == [disk EXCEPT ![from] = None, ![to] = disk[from]]
  <1>1. e \in Undo!Entry /\ e.path = from /\ e.movedTo = to /\ to # None /\ e.movedTo # None
    BY MoveEntry
  <1>2. after \in [Undo!Places -> Content] /\ Agree(Undo!Places \ {from, to}, after, disk) /\ Reverts(after, e, disk)
    BY AtWork, MoveReverts
  <1>3. (~Undo!Mentions(es, from)) \in BOOLEAN
    BY DEF Undo!Mentions
  <1>4. TrashGrows(after, {from, to})
    <2>1. from \in Undo!Trash => from <= trashed
      BY AtWork, Apart
    <2>2. \A k \in Undo!Trash : k > trashed' => k > trashed /\ k # to
      BY Apart, AtWork
    <2>3. \A k \in Undo!Trash : k > trashed' => after[k] = None
      BY <2>2, AtWork, Apart
    <2>4. \A q \in {from, to} : q \in Undo!Trash => q <= trashed'
      BY <2>1, AtWork, Apart
    <2> QED BY <2>3, <2>4 DEF TrashGrows
  <1> HIDE DEF e, after
  <1>5. Undo!Record(es, e) \in Seq(Undo!Entry) /\ Confined(Undo!Record(es, e), open[s].touched \cup {from, to})
    BY <1>1, AtWork, RecordConfined
  <1>6. ~Undo!Mentions(es, from) => Leads(es, Undo!Record(es, e), disk, after)
    BY <1>1, <1>2, AtWork, OneMore
  <1>7. Undo!Mutate(s, after, {from, to}, Undo!Record(es, e), ~Undo!Mentions(es, from))
    BY DEF after, e
  <1> HIDE DEF es
  <1> QED BY <1>2, <1>3, <1>4, <1>5, <1>6, <1>7, ToolIInv DEF es

\* The next name in the trash is free.
LEMMA NextName ==
  ASSUME UndoInv, trashed < MaxTrash
  PROVE  trashed + 1 \in Undo!Trash /\ trashed + 1 \in 0..MaxTrash /\ disk[trashed + 1] = None
  <1>1. trashed \in 0..MaxTrash /\ MaxTrash \in Nat
    BY CheckpointAssumption DEF UndoInv, Undo!TypeOK
  <1>2. trashed + 1 \in Undo!Trash
    BY <1>1 DEF Undo!Trash
  <1> QED BY <1>1, <1>2 DEF UndoInv, TrashFree

LEMMA MovesIInv ==
  ASSUME UndoInv, NEW s \in Owners,
         \/ \E p \in Paths : Undo!DeletePath(s, p)
         \/ \E from \in Undo!Places, to \in Paths : Undo!MovePath(s, from, to)
  PROVE  UndoInv'
  <1>0. trashed \in 0..MaxTrash
    BY DEF UndoInv, Undo!TypeOK
  <1>1. ASSUME NEW p \in Paths, Undo!DeletePath(s, p) PROVE UndoInv'
    <2> DEFINE k == trashed + 1
    <2>1. /\ Undo!MayMutate(s) /\ disk[p] # None /\ trashed < MaxTrash /\ trashed' = k
          /\ UNCHANGED <<saved, begun, outside>>
          /\ Undo!Mutate(s, [disk EXCEPT ![p] = None, ![k] = disk[p]], {p, k},
                    Undo!Record(open[s].entries, Undo!Move(p, k)), ~Undo!Mentions(open[s].entries, p))
      BY <1>1 DEF Undo!DeletePath
    <2>2. p \in Undo!Places /\ k \in Undo!Places /\ p # k /\ disk[k] = None /\ k \in 0..MaxTrash /\ k >= trashed
      BY <1>0, <2>1, NextName, Apart
    <2> HIDE DEF k
    <2> QED BY <2>1, <2>2, MoveIInv
  <1>2. ASSUME NEW from \in Undo!Places, NEW to \in Paths, Undo!MovePath(s, from, to) PROVE UndoInv'
    <2>1. to \in Undo!Places /\ to \notin Undo!Trash /\ trashed' = trashed
      BY <1>2, Apart DEF Undo!MovePath
    <2> QED BY <1>0, <1>2, <2>1, MoveIInv DEF Undo!MovePath
  <1> QED BY <1>1, <1>2

\* No entry: the turn no longer counts as recorded.
LEMMA AcrossIInv ==
  ASSUME UndoInv, NEW s \in Owners, NEW p \in Paths, Undo!DeleteAcrossDevices(s, p)
  PROVE  UndoInv'
  <1> DEFINE k == trashed + 1
             after == [disk EXCEPT ![p] = None, ![k] = disk[p]]
  <1>1. /\ Undo!MayMutate(s) /\ disk[p] # None /\ trashed < MaxTrash /\ trashed' = k
        /\ UNCHANGED <<saved, begun, outside>>
        /\ Undo!Mutate(s, after, {p, k}, open[s].entries, FALSE)
    BY DEF Undo!DeleteAcrossDevices
  <1>2. /\ p \in Undo!Places /\ k \in Undo!Places /\ p # k /\ p \notin Undo!Trash /\ k \in 0..MaxTrash /\ k > trashed
        /\ trashed \in Nat
    BY <1>1, NextName, Apart, AtWork
  <1>3. after \in [Undo!Places -> Content] /\ Agree(Undo!Places \ {p, k}, after, disk)
    BY <1>1, <1>2, AtWork DEF Agree, Content
  <1>4. TrashGrows(after, {p, k})
    <2>1. \A j \in Undo!Trash : j > trashed' => after[j] = None
      BY <1>1, <1>2, AtWork, Apart
    <2>2. trashed' \in 0..MaxTrash /\ trashed' >= trashed
      BY <1>1, <1>2
    <2>3. \A q \in {p, k} : q \in Undo!Trash => q <= trashed'
      BY <1>1, <1>2
    <2> HIDE DEF after
    <2> QED BY <2>1, <2>2, <2>3 DEF TrashGrows
  <1>5. open[s].entries \in Seq(Undo!Entry) /\ Confined(open[s].entries, open[s].touched \cup {p, k})
    BY <1>1, AtWork DEF Confined
  <1> HIDE DEF after, k
  <1> QED BY <1>1, <1>2, <1>3, <1>4, <1>5, ToolIInv

\* Two entries: what was in the way goes to the trash, then the move.
LEMMA MoveOverIInv ==
  ASSUME UndoInv, NEW s \in Owners, NEW from \in Undo!Places, NEW to \in Paths, Undo!MoveOver(s, from, to)
  PROVE  UndoInv'
  <1> DEFINE k == trashed + 1
             es == open[s].entries
             e1 == Undo!Move(to, k)
             e2 == Undo!Move(from, to)
             mid == [disk EXCEPT ![to] = None, ![k] = disk[to]]
             after == [disk EXCEPT ![from] = None, ![to] = disk[from], ![k] = disk[to]]
             fresh == ~Undo!Mentions(es, to) /\ ~Undo!Mentions(es, from)
  <1>1. /\ Undo!MayMutate(s) /\ from # to /\ disk[from] # None /\ disk[to] # None
        /\ trashed < MaxTrash /\ trashed' = k /\ UNCHANGED <<saved, begun, outside>>
        /\ Undo!Mutate(s, after, {from, to, k}, Undo!Record(Undo!Record(es, e1), e2), fresh)
    BY DEF Undo!MoveOver
  <1>2. /\ to \in Undo!Places /\ k \in Undo!Places /\ to # k /\ to \notin Undo!Trash /\ disk[k] = None /\ from # k
        /\ k \in 0..MaxTrash /\ k > trashed /\ trashed \in Nat
    BY <1>1, NextName, Apart, AtWork
  <1>3. /\ mid \in [Undo!Places -> Content] /\ Reverts(mid, e1, disk) /\ mid[to] = None
        /\ mid[from] = disk[from] /\ Agree(Undo!Places \ {to, k}, mid, disk)
    BY <1>1, <1>2, AtWork, MoveReverts
  <1>4. after = [mid EXCEPT ![from] = None, ![to] = mid[from]]
    BY <1>1, <1>2, AtWork
  <1>5. /\ after \in [Undo!Places -> Content] /\ Reverts(after, e2, mid)
        /\ Agree(Undo!Places \ {from, to, k}, after, disk)
    <2> HIDE DEF mid, after
    <2>1. /\ after \in [Undo!Places -> Content] /\ Reverts(after, e2, mid)
          /\ Agree(Undo!Places \ {from, to}, after, mid)
      BY <1>1, <1>2, <1>3, <1>4, MoveReverts
    <2> QED BY <1>3, <2>1 DEF Agree
  <1>6. TrashGrows(after, {from, to, k})
    <2>1. \A j \in Undo!Trash : j > trashed' => after[j] = None
      BY <1>1, <1>2, AtWork, Apart
    <2>2. from \in Undo!Trash => from <= trashed
      BY <1>1, AtWork, Apart
    <2>3. \A q \in {from, to, k} : q \in Undo!Trash => q <= trashed'
      BY <1>1, <1>2, <2>2, Apart
    <2>4. trashed' \in 0..MaxTrash /\ trashed' >= trashed
      BY <1>1, <1>2
    <2> HIDE DEF after
    <2> QED BY <2>1, <2>3, <2>4 DEF TrashGrows
  <1>7. fresh \in BOOLEAN
    BY DEF Undo!Mentions
  <1>8. /\ e1 \in Undo!Entry /\ e1.path = to /\ e1.movedTo = k /\ e1.movedTo # None
        /\ e2 \in Undo!Entry /\ e2.path = from /\ e2.movedTo = to /\ e2.movedTo # None
    BY <1>2, MoveEntry
  <1> HIDE DEF mid, after, e1, e2, k
  <1>9. Undo!Record(es, e1) \in Seq(Undo!Entry) /\ Confined(Undo!Record(es, e1), open[s].touched \cup {from, to, k})
    BY <1>1, <1>2, <1>8, AtWork, RecordConfined
  <1>10. /\ Undo!Record(Undo!Record(es, e1), e2) \in Seq(Undo!Entry)
         /\ Confined(Undo!Record(Undo!Record(es, e1), e2), open[s].touched \cup {from, to, k})
    <2>1. /\ Undo!Record(Undo!Record(es, e1), e2) \in Seq(Undo!Entry)
          /\ Confined(Undo!Record(Undo!Record(es, e1), e2), (open[s].touched \cup {from, to, k}) \cup {})
      BY <1>1, <1>2, <1>8, <1>9, RecordConfined
    <2> QED BY <2>1
  <1>11. fresh => Leads(es, Undo!Record(Undo!Record(es, e1), e2), disk, after)
    <2> SUFFICES ASSUME fresh PROVE Leads(es, Undo!Record(Undo!Record(es, e1), e2), disk, after)
      OBVIOUS
    <2>1. Undo!Record(es, e1) = Append(es, e1) /\ Leads(es, Undo!Record(es, e1), disk, mid)
      BY <1>1, <1>3, <1>8, AtWork, OneMore
    <2>2. ~Undo!Mentions(Undo!Record(es, e1), from)
      BY <1>1, <1>8, <2>1, AtWork DEF Undo!Mentions
    <2>3. Leads(Undo!Record(es, e1), Undo!Record(Undo!Record(es, e1), e2), mid, after)
      BY <1>5, <1>8, <1>9, <2>2, OneMore
    <2> QED BY <2>1, <2>3 DEF Leads
  <1> HIDE DEF es, fresh
  <1> QED BY <1>1, <1>2, <1>5, <1>6, <1>7, <1>10, <1>11, ToolIInv DEF es

-----------------------------------------------------------------------------
(* The life of a turn, and others. *)

\* What the invariant says of one session.
Session(s) ==
    /\ Recording(s) /\ Archive(s) /\ Reverting(s)
    /\ open[s] \in Undo!Turn \cup {None} /\ saved[s] \in Seq(Undo!Turn) /\ undoing[s] \in Undo!Undo \cup {None}
    /\ undoing[s] # None =>
         undoing[s].at \in DOMAIN saved[s]
         /\ undoing[s].todo <= Len(saved[s][undoing[s].at].entries)

\* What it says of everything else.
World ==
    /\ disk \in [Undo!Places -> Content] /\ trashed \in 0..MaxTrash /\ TrashFree
    /\ begun \in 0..MaxTurns /\ mutations \in 0..MaxMutations /\ outside \in 0..MaxOutside

LEMMA Parts == UndoInv => World /\ \A s \in Owners : Session(s)
  BY DEF UndoInv, Undo!TypeOK, World, Session, Content

LEMMA Whole ==
  ASSUME World', \A s \in Owners : Session(s)',
         open' = [s \in Owners |-> open'[s]], saved' = [s \in Owners |-> saved'[s]],
         undoing' = [s \in Owners |-> undoing'[s]]
  PROVE  UndoInv'
  <1>1. /\ open' \in [Owners -> Undo!Turn \cup {None}] /\ saved' \in [Owners -> Seq(Undo!Turn)]
        /\ undoing' \in [Owners -> Undo!Undo \cup {None}]
    BY DEF Session
  <1> QED BY <1>1 DEF UndoInv, Undo!TypeOK, World, Session, Content

\* A session that a step does not concern.
LEMMA Same ==
  ASSUME NEW x \in Owners, World, Session(x), open'[x] = open[x], saved'[x] = saved[x],
         undoing'[x] = undoing[x], disk' = disk, trashed' = trashed,
         begun' \in Nat, begun' >= begun
  PROVE  Session(x)'
  <1>1. \A z \in Undo!Turn : Known(z, begun, trashed) => Known(z, begun', trashed)
    BY DEF Known, Undo!Turn, World
  <1>2. open[x] # None => open[x] \in Undo!Turn
    BY DEF Session
  <1>3. \A i \in DOMAIN saved[x] : saved[x][i] \in Undo!Turn
    BY DEF Session
  <1> QED BY <1>1, <1>2, <1>3 DEF Session, Recording, Archive, Reverting

LEMMA BeginTurnIInv == ASSUME UndoInv, NEW s \in Owners, Undo!BeginTurn(s) PROVE UndoInv'
  <1> DEFINE t == [n |-> begun', entries |-> <<>>, undone |-> FALSE, touched |-> {},
                   found |-> [q \in Undo!Places |-> None], left |-> [q \in Undo!Places |-> None],
                   recorded |-> TRUE, alone |-> TRUE]
  <1>0. /\ open[s] = None /\ undoing[s] = None /\ begun < MaxTurns /\ begun' = begun + 1
        /\ open' = [open EXCEPT ![s] = t]
        /\ UNCHANGED <<disk, trashed, saved, undoing, mutations, outside>>
    BY DEF Undo!BeginTurn
  <1>1. World /\ \A x \in Owners : Session(x)
    BY Parts
  <1>2. open \in [Owners -> Undo!Turn \cup {None}] /\ saved \in [Owners -> Seq(Undo!Turn)]
        /\ undoing \in [Owners -> Undo!Undo \cup {None}] /\ MaxTurns \in Nat
    BY CheckpointAssumption DEF UndoInv, Undo!TypeOK
  <1>3. World'
    BY <1>0, <1>1, <1>2 DEF World, TrashFree
  <1>4. /\ t \in Undo!Turn /\ Known(t, begun', trashed) /\ t.n = begun' /\ t.touched = {}
        /\ t.entries = <<>> /\ t.alone = TRUE
    BY <1>0, <1>1 DEF Undo!Turn, World, Known
  <1>5. Sound(t)
    <2>1. Confined(t.entries, t.touched)
      BY <1>4 DEF Confined
    <2> DEFINE D == [i \in 0..0 |-> disk]
    <2>2. Chain(D, <<>>)
      BY <1>1 DEF Chain, World
    <2>3. Spans(D, t)
      BY <1>4, <2>2 DEF Spans
    <2> QED BY <2>1, <2>3 DEF Sound
  <1> HIDE DEF t
  <1>6. \A i \in DOMAIN saved[s] : saved[s][i].n < begun'
    <2> SUFFICES ASSUME NEW i \in DOMAIN saved[s] PROVE saved[s][i].n < begun'
      OBVIOUS
    <2>1. saved[s][i] \in Undo!Turn /\ saved[s][i].n <= begun
      BY <1>1 DEF Session, Archive, Known
    <2> QED BY <1>0, <1>1, <2>1 DEF World, Undo!Turn
  <1>7. Session(s)'
    <2>1. open'[s] = t
      BY <1>0, <1>2
    <2>2. ASSUME NEW i \in DOMAIN saved[s] PROVE Known(saved[s][i], begun', trashed)
      <3>1. saved[s][i] \in Undo!Turn /\ Known(saved[s][i], begun, trashed) /\ begun \in Nat
        BY <1>1 DEF Session, Archive, World
      <3> QED BY <1>0, <3>1 DEF Known, Undo!Turn
    <2>3. Agree(t.touched, disk, t.left)
      BY <1>4 DEF Agree
    <2> QED BY <1>0, <1>1, <1>4, <1>5, <1>6, <2>1, <2>2, <2>3 DEF Session, Recording, Archive, Reverting
  <1>8. ASSUME NEW x \in Owners, x # s PROVE Session(x)'
    <2>1. open'[x] = open[x] /\ begun' \in Nat /\ begun' >= begun
      BY <1>0, <1>1, <1>2, <1>8 DEF World
    <2> QED BY <1>0, <1>1, <2>1, Same
  <1> QED BY <1>0, <1>2, <1>3, <1>7, <1>8, Whole

\* What a commit keeps is the end of the list.
LEMMA Kept ==
  ASSUME NEW ts \in Seq(Undo!Turn)
  PROVE  /\ Undo!Prune(ts) \in Seq(Undo!Turn)
         /\ \E o \in Nat : /\ Len(ts) = o + Len(Undo!Prune(ts)) /\ (o = 0 \/ Len(Undo!Prune(ts)) = RetainTurns)
                           /\ \A i \in DOMAIN Undo!Prune(ts) : i + o \in DOMAIN ts /\ Undo!Prune(ts)[i] = ts[i + o]
  <1>0. RetainTurns \in Nat /\ Len(ts) \in Nat
    BY CheckpointAssumption
  <1>1. CASE Len(ts) > RetainTurns
    <2> DEFINE o == Len(ts) - RetainTurns
               ps == SubSeq(ts, o + 1, Len(ts))
    <2>1. o \in Nat /\ Undo!Prune(ts) = ps
      BY <1>0, <1>1 DEF Undo!Prune
    <2>2. ps \in Seq(Undo!Turn) /\ Len(ps) = RetainTurns
      BY <1>0, <1>1
    <2>3. \A i \in 1..RetainTurns : i + o \in DOMAIN ts /\ ps[i] = ts[i + o]
      BY <1>0, <1>1
    <2> HIDE DEF ps
    <2>4. DOMAIN ps = 1..RetainTurns
      BY <2>2
    <2>5. Len(ts) = o + Len(ps)
      BY <1>0, <2>2
    <2> HIDE DEF o
    <2> QED BY <2>1, <2>2, <2>3, <2>4, <2>5
  <1>2. CASE ~(Len(ts) > RetainTurns)
    <2>1. Undo!Prune(ts) = ts
      BY <1>2 DEF Undo!Prune
    <2>2. Len(ts) = 0 + Len(Undo!Prune(ts)) /\ \A i \in DOMAIN ts : i + 0 \in DOMAIN ts /\ Undo!Prune(ts)[i] = ts[i + 0]
      BY <1>0, <2>1
    <2> QED BY <2>1, <2>2
  <1> QED BY <1>1, <1>2

LEMMA CommitTurnIInv == ASSUME UndoInv, NEW s \in Owners, Undo!CommitTurn(s) PROVE UndoInv'
  <1> DEFINE t == open[s]
             ts == Append(saved[s], t)
  <1>0. /\ t # None /\ open' = [open EXCEPT ![s] = None]
        /\ saved' = saved \/ saved' = [saved EXCEPT ![s] = Undo!Prune(ts)]
        /\ UNCHANGED <<disk, trashed, undoing, begun, mutations, outside>>
    BY DEF Undo!CommitTurn
  <1>1. World /\ \A x \in Owners : Session(x)
    BY Parts
  <1>2. open \in [Owners -> Undo!Turn \cup {None}] /\ saved \in [Owners -> Seq(Undo!Turn)]
        /\ undoing \in [Owners -> Undo!Undo \cup {None}] /\ begun \in Nat
    BY DEF UndoInv, Undo!TypeOK
  <1>3. World'
    BY <1>0, <1>1 DEF World, TrashFree
  <1>4. t \in Undo!Turn /\ undoing[s] = None /\ saved[s] \in Seq(Undo!Turn)
    BY <1>0, <1>1 DEF Session, Recording
  <1>5. /\ ts \in Seq(Undo!Turn) /\ \A i \in DOMAIN ts : Sound(ts[i]) /\ Known(ts[i], begun, trashed)
        /\ \A i, j \in DOMAIN ts : i < j => ts[i].n < ts[j].n
    <2>1. \A i \in DOMAIN ts : ts[i] = IF i \in DOMAIN saved[s] THEN saved[s][i] ELSE t
      BY <1>4
    <2>2. Sound(t) /\ Known(t, begun, trashed) /\ \A i \in DOMAIN saved[s] : saved[s][i].n < t.n
      BY <1>0, <1>1 DEF Session, Recording
    <2>3. /\ \A i \in DOMAIN saved[s] : Sound(saved[s][i]) /\ Known(saved[s][i], begun, trashed)
          /\ \A i, j \in DOMAIN saved[s] : i < j => saved[s][i].n < saved[s][j].n
      BY <1>1 DEF Session, Archive
    <2>4. \A i, j \in DOMAIN ts : i < j => i \in DOMAIN saved[s]
      BY <1>4
    <2> HIDE DEF t
    <2>5. ts \in Seq(Undo!Turn)
      BY <1>4
    <2> HIDE DEF ts
    <2> QED BY <2>1, <2>2, <2>3, <2>4, <2>5
  <1>6. Session(s)'
    <2>1. open'[s] = None /\ undoing'[s] = None
      BY <1>0, <1>2, <1>4
    <2>2. CASE saved'[s] = saved[s]
      BY <1>0, <1>1, <2>1, <2>2 DEF Session, Recording, Archive, Reverting
    <2>3. CASE saved'[s] = Undo!Prune(ts)
      <3> HIDE DEF ts
      <3>1. PICK o \in Nat : \A i \in DOMAIN Undo!Prune(ts) : i + o \in DOMAIN ts /\ Undo!Prune(ts)[i] = ts[i + o]
        BY <1>5, Kept
      <3>2. Undo!Prune(ts) \in Seq(Undo!Turn)
        BY <1>5, Kept
      <3>3. \A i, j \in DOMAIN Undo!Prune(ts) : i < j => Undo!Prune(ts)[i].n < Undo!Prune(ts)[j].n
        <4>1. \A i, j \in DOMAIN Undo!Prune(ts) : i < j => i + o < j + o
          BY <3>2
        <4> QED BY <1>5, <3>1, <4>1
      <3>4. \A i \in DOMAIN Undo!Prune(ts) : Sound(Undo!Prune(ts)[i]) /\ Known(Undo!Prune(ts)[i], begun, trashed)
        BY <1>5, <3>1
      <3> QED BY <1>0, <2>1, <2>3, <3>2, <3>3, <3>4 DEF Session, Recording, Archive, Reverting
    <2> QED BY <1>0, <1>2, <2>2, <2>3
  <1>7. ASSUME NEW x \in Owners, x # s PROVE Session(x)'
    <2>1. open'[x] = open[x] /\ saved'[x] = saved[x]
      BY <1>0, <1>2, <1>7
    <2> QED BY <1>0, <1>1, <1>2, <2>1, Same
  <1>8. saved' = [x \in Owners |-> saved'[x]] /\ open' = [x \in Owners |-> open'[x]]
    BY <1>0, <1>2
  <1> QED BY <1>0, <1>2, <1>3, <1>6, <1>7, <1>8, Whole

LEMMA LoseIInv == ASSUME UndoInv, NEW s \in Owners, Undo!Lose(s) PROVE UndoInv'
  <1>0. /\ open' = [open EXCEPT ![s] = None] /\ undoing' = [undoing EXCEPT ![s] = None]
        /\ UNCHANGED <<disk, trashed, saved, begun, mutations, outside>>
    BY DEF Undo!Lose
  <1>1. World /\ \A x \in Owners : Session(x)
    BY Parts
  <1>2. open \in [Owners -> Undo!Turn \cup {None}] /\ saved \in [Owners -> Seq(Undo!Turn)]
        /\ undoing \in [Owners -> Undo!Undo \cup {None}] /\ begun \in Nat
    BY DEF UndoInv, Undo!TypeOK
  <1>3. World'
    BY <1>0, <1>1 DEF World, TrashFree
  <1>4. Session(s)'
    BY <1>0, <1>1, <1>2 DEF Session, Recording, Archive, Reverting
  <1>5. ASSUME NEW x \in Owners, x # s PROVE Session(x)'
    <2>1. open'[x] = open[x] /\ undoing'[x] = undoing[x]
      BY <1>0, <1>2, <1>5
    <2> QED BY <1>0, <1>1, <1>2, <2>1, Same
  <1> QED BY <1>0, <1>2, <1>3, <1>4, <1>5, Whole

LEMMA OutsideIInv ==
  ASSUME UndoInv, NEW q \in Undo!Places, NEW b \in HumanBytes \cup {None}, Undo!Outside(q, b)
  PROVE  UndoInv'
  <1>0. /\ outside < MaxOutside /\ outside' = outside + 1 /\ disk' = [disk EXCEPT ![q] = b]
        /\ q \in Undo!Trash => b = None
        /\ open' = [x \in Owners |-> Undo!Disturbed(open[x], {q})]
        /\ undoing' = [x \in Owners |-> Undo!DisturbedUndo(x, {q})]
        /\ UNCHANGED <<trashed, saved, begun, mutations>>
    BY DEF Undo!Outside
  <1>1. World /\ \A x \in Owners : Session(x)
    BY Parts
  <1>2. b \in Content /\ MaxOutside \in Nat /\ saved \in [Owners -> Seq(Undo!Turn)]
    BY CheckpointAssumption DEF Content, Undo!Bytes, UndoInv, Undo!TypeOK
  <1>3. World'
    <2>1. disk' \in [Undo!Places -> Content]
      BY <1>0, <1>1, <1>2 DEF World
    <2>2. outside' \in 0..MaxOutside
      BY <1>0, <1>1, <1>2 DEF World
    <2>3. TrashFree'
      BY <1>0, <1>1, Apart DEF World, TrashFree
    <2> QED BY <1>0, <1>1, <2>1, <2>2, <2>3 DEF World
  <1>4. Agree(Undo!Places \ {q}, disk', disk)
    BY <1>0, <1>1 DEF World, Agree
  <1>5. ASSUME NEW x \in Owners PROVE Session(x)'
    <2>1. /\ open'[x] = Undo!Disturbed(open[x], {q}) /\ undoing'[x] = Undo!DisturbedUndo(x, {q})
          /\ saved'[x] = saved[x] /\ begun' = begun /\ trashed' \in Nat /\ trashed' >= trashed
      BY <1>0, <1>1 DEF World
    <2> QED BY <1>0, <1>2, <1>4, <2>1, Bystander DEF Session
  <1> QED BY <1>0, <1>2, <1>3, <1>5, Whole

-----------------------------------------------------------------------------
(* An undo. *)

LEMMA BeginUndoIInv == ASSUME UndoInv, NEW s \in Owners, Undo!BeginUndo(s) PROVE UndoInv'
  <1>0. PICK i \in DOMAIN saved[s] :
          undoing' = [undoing EXCEPT ![s] =
              [at |-> i, todo |-> Len(saved[s][i].entries), restored |-> 0, conflicts |-> 0,
               alone |-> saved[s][i].alone
                         /\ \A q \in saved[s][i].touched : disk[q] = saved[s][i].left[q]]]
    BY DEF Undo!BeginUndo, Undo!EntriesOf
  <1> DEFINE t == saved[s][i]
             u == [at |-> i, todo |-> Len(t.entries), restored |-> 0, conflicts |-> 0,
                   alone |-> t.alone /\ \A q \in t.touched : disk[q] = t.left[q]]
  <1>1. open[s] = None /\ UNCHANGED <<disk, trashed, open, saved, begun, mutations, outside>>
    BY DEF Undo!BeginUndo
  <1>2. World /\ \A x \in Owners : Session(x)
    BY Parts
  <1>3. open \in [Owners -> Undo!Turn \cup {None}] /\ saved \in [Owners -> Seq(Undo!Turn)]
        /\ undoing \in [Owners -> Undo!Undo \cup {None}] /\ begun \in Nat
    BY DEF UndoInv, Undo!TypeOK
  <1>4. World'
    BY <1>1, <1>2 DEF World, TrashFree
  <1>5. saved[s] \in Seq(Undo!Turn) /\ t \in Undo!Turn /\ t.entries \in Seq(Undo!Entry) /\ i \in Nat \ {0}
    <2>1. saved[s] \in Seq(Undo!Turn)
      BY <1>3
    <2>2. t \in Undo!Turn /\ i \in Nat \ {0}
      BY <2>1
    <2>3. t.entries \in Seq(Undo!Entry)
      <3> HIDE DEF t
      <3> QED BY <2>2 DEF Undo!Turn
    <2> QED BY <2>1, <2>2, <2>3
  <1>6. u \in Undo!Undo /\ u.at = i /\ u.todo = Len(t.entries) /\ u.conflicts = 0
    BY <1>5 DEF Undo!Undo
  <1>7. u.alone => t.alone /\ Agree(t.touched, disk, t.left)
    BY DEF Agree
  <1>8. Session(s)'
    <2>1. undoing'[s] = u
      BY <1>0, <1>3
    <2> HIDE DEF u
    <2>2. ASSUME u.alone, t.recorded PROVE \E D : Spans(D, t) /\ Agree(t.touched, disk, D[Len(t.entries)])
      <3>1. PICK D : Spans(D, t)
        BY <1>2, <1>7, <2>2 DEF Session, Archive, Sound
      <3>2. Agree(t.touched, disk, D[Len(t.entries)])
        BY <1>7, <2>2, <3>1 DEF Spans, Agree
      <3> QED BY <3>1, <3>2
    <2>3. Reverting(s)'
      BY <1>1, <1>6, <1>7, <2>1, <2>2 DEF Reverting
    <2>4. Recording(s)' /\ Archive(s)'
      BY <1>1, <1>2 DEF Session, Recording, Archive
    <2>5. u.todo <= Len(saved[s][u.at].entries)
      BY <1>5, <1>6
    <2> QED BY <1>1, <1>2, <1>6, <2>1, <2>3, <2>4, <2>5 DEF Session
  <1> HIDE DEF u
  <1>9. ASSUME NEW x \in Owners, x # s PROVE Session(x)'
    <2>1. undoing'[x] = undoing[x]
      BY <1>0, <1>3, <1>9
    <2> QED BY <1>1, <1>2, <1>3, <2>1, Same
  <1> QED BY <1>0, <1>1, <1>3, <1>4, <1>8, <1>9, Whole

LEMMA EndUndoIInv == ASSUME UndoInv, NEW s \in Owners, Undo!EndUndo(s) PROVE UndoInv'
  <1>0. /\ undoing[s] # None /\ undoing' = [undoing EXCEPT ![s] = None]
        /\ saved' = saved \/ saved' = [saved EXCEPT ![s][undoing[s].at].undone = TRUE]
        /\ UNCHANGED <<disk, trashed, open, begun, mutations, outside>>
    BY DEF Undo!EndUndo
  <1>1. World /\ \A x \in Owners : Session(x)
    BY Parts
  <1>2. open \in [Owners -> Undo!Turn \cup {None}] /\ saved \in [Owners -> Seq(Undo!Turn)]
        /\ undoing \in [Owners -> Undo!Undo \cup {None}] /\ begun \in Nat
    BY DEF UndoInv, Undo!TypeOK
  <1>3. World'
    BY <1>0, <1>1 DEF World, TrashFree
  <1>4. open[s] = None /\ undoing'[s] = None
    BY <1>0, <1>1, <1>2 DEF Session, Recording
  <1>5. Session(s)'
    <2>1. CASE saved' = saved
      BY <1>0, <1>1, <1>4, <2>1 DEF Session, Recording, Archive, Reverting
    <2>2. CASE saved' # saved
      <3> DEFINE k == undoing[s].at
                 ts == saved[s]
                 us == saved'[s]
      <3>1. ts \in Seq(Undo!Turn) /\ k \in DOMAIN ts /\ us = [ts EXCEPT ![k].undone = TRUE]
        BY <1>0, <1>1, <1>2, <2>2 DEF Session
      <3> HIDE DEF k, ts, us
      <3>2. us \in Seq(Undo!Turn) /\ DOMAIN us = DOMAIN ts
        <4>1. ts[k] \in Undo!Turn /\ [ts[k] EXCEPT !.undone = TRUE] \in Undo!Turn
          <5>1. ts[k] \in Undo!Turn
            BY <3>1
          <5>2. \A z \in Undo!Turn : [z EXCEPT !.undone = TRUE] \in Undo!Turn
            BY DEF Undo!Turn
          <5> QED BY <5>1, <5>2
        <4>2. us = [ts EXCEPT ![k] = [ts[k] EXCEPT !.undone = TRUE]]
          BY <3>1
        <4> QED BY <3>1, <4>1, <4>2
      <3>3. \A i \in DOMAIN ts :
              /\ us[i].n = ts[i].n /\ us[i].entries = ts[i].entries /\ us[i].touched = ts[i].touched
              /\ us[i].found = ts[i].found /\ us[i].left = ts[i].left
              /\ us[i].recorded = ts[i].recorded /\ us[i].alone = ts[i].alone
        <4> SUFFICES ASSUME NEW i \in DOMAIN ts
                     PROVE  /\ us[i].n = ts[i].n /\ us[i].entries = ts[i].entries
                            /\ us[i].touched = ts[i].touched
                            /\ us[i].found = ts[i].found /\ us[i].left = ts[i].left
                            /\ us[i].recorded = ts[i].recorded /\ us[i].alone = ts[i].alone
          OBVIOUS
        <4>1. ts[i] \in Undo!Turn
          BY <3>1
        <4>2. us[i] = ts[i] \/ us[i] = [ts[i] EXCEPT !.undone = TRUE]
          BY <3>1
        <4> QED BY <4>1, <4>2 DEF Undo!Turn
      <3>4. Archive(s)
        BY <1>1 DEF Session
      <3>5. \A i \in DOMAIN us : Sound(us[i]) /\ Known(us[i], begun, trashed)
        <4>1. \A i \in DOMAIN ts : Sound(ts[i]) /\ Known(ts[i], begun, trashed)
          BY <3>4 DEF Archive, ts
        <4>2. \A i \in DOMAIN ts : \A D : Spans(D, us[i]) <=> Spans(D, ts[i])
          BY <3>3 DEF Spans
        <4> QED BY <3>2, <3>3, <4>1, <4>2 DEF Sound, Known
      <3>6. \A i, j \in DOMAIN us : i < j => us[i].n < us[j].n
        BY <3>2, <3>3, <3>4 DEF Archive, ts
      <3>7. Archive(s)'
        BY <1>0, <3>5, <3>6 DEF Archive, us
      <3> QED BY <1>0, <1>1, <1>4, <3>2, <3>7 DEF Session, Recording, Reverting, us
    <2> QED BY <2>1, <2>2
  <1>6. ASSUME NEW x \in Owners, x # s PROVE Session(x)'
    <2>1. saved'[x] = saved[x] /\ undoing'[x] = undoing[x]
      BY <1>0, <1>2, <1>6
    <2> QED BY <1>0, <1>1, <1>2, <2>1, Same
  <1>7. saved' = [x \in Owners |-> saved'[x]] /\ undoing' = [x \in Owners |-> undoing'[x]]
    BY <1>0, <1>2
  <1> QED BY <1>0, <1>2, <1>3, <1>5, <1>6, <1>7, Whole

\* Reverting the entry an undo has come to: the disk is where it may be, and
\* then one step further back.
LEMMA StepBack ==
  ASSUME UndoInv, NEW s \in Owners, undoing[s] # None, undoing[s].todo > 0,
         undoing[s].alone, saved[s][undoing[s].at].recorded,
         NEW e, e = saved[s][undoing[s].at].entries[undoing[s].todo]
  PROVE  LET t == saved[s][undoing[s].at]
             k == undoing[s].todo
         IN /\ IF e.movedTo # None THEN Undo!MayMoveBack(e) ELSE Undo!MayRevert(e)
            /\ \E D : Spans(D, t) /\ Agree(t.touched, Undo!Reverted(e), D[k - 1])
  <1> DEFINE t == saved[s][undoing[s].at]
             k == undoing[s].todo
  <1>1. Session(s) /\ disk \in [Undo!Places -> Content]
    BY Parts DEF World
  <1>2. undoing[s] \in Undo!Undo /\ undoing[s].at \in DOMAIN saved[s] /\ k <= Len(t.entries)
    BY <1>1 DEF Session
  <1>3. t \in Undo!Turn /\ Sound(t)
    BY <1>1, <1>2 DEF Session, Archive
  <1>4. t.entries \in Seq(Undo!Entry) /\ k \in 1..Len(t.entries) /\ Confined(t.entries, t.touched)
    <2>1. k \in Nat
      BY <1>2 DEF Undo!Undo
    <2>2. t.entries \in Seq(Undo!Entry)
      BY <1>3 DEF Undo!Turn
    <2> HIDE DEF t, k
    <2>3. k > 0
      BY DEF k
    <2> QED BY <1>2, <1>3, <2>1, <2>2, <2>3 DEF Sound
  <1>5. PICK D : Spans(D, t) /\ Agree(t.touched, disk, D[k])
    BY <1>1 DEF Session, Reverting
  <1>6. t.touched \in SUBSET Undo!Places
    BY <1>3 DEF Undo!Turn
  <1>7. e = t.entries[k]
    OBVIOUS
  <1> HIDE DEF t, k
  <1>8. /\ e \in Undo!Entry /\ e.path \in t.touched
        /\ e.movedTo # None => e.movedTo \in t.touched /\ e.movedTo # e.path
    BY <1>4, <1>7 DEF Confined
  <1>9. /\ Reverts(D[k], e, D[k - 1]) /\ D[k] \in [Undo!Places -> Content] /\ D[k - 1] \in [Undo!Places -> Content]
    <2>1. k \in 0..Len(t.entries) /\ k - 1 \in 0..Len(t.entries)
      BY <1>4
    <2> QED BY <1>4, <1>5, <1>7, <2>1 DEF Spans, Chain
  <1>10. CASE e.movedTo # None
    <2>1. disk[e.movedTo] = D[k][e.movedTo] /\ disk[e.path] = D[k][e.path]
      BY <1>5, <1>8, <1>10 DEF Agree
    <2>2. Undo!MayMoveBack(e)
      BY <1>9, <1>10, <2>1 DEF Reverts, Undo!MayMoveBack
    <2>3. Undo!Reverted(e) = [disk EXCEPT ![e.path] = disk[e.movedTo], ![e.movedTo] = None]
      BY <1>10 DEF Undo!Reverted
    <2>4. D[k - 1] = [D[k] EXCEPT ![e.path] = D[k][e.movedTo], ![e.movedTo] = None]
      BY <1>9, <1>10 DEF Reverts
    <2>5. Agree(t.touched, Undo!Reverted(e), D[k - 1])
      <3> SUFFICES ASSUME NEW q \in t.touched PROVE Undo!Reverted(e)[q] = D[k - 1][q]
        BY DEF Agree
      <3>1. q \in Undo!Places /\ disk[q] = D[k][q] /\ e.path \in Undo!Places /\ e.movedTo \in Undo!Places
        BY <1>5, <1>6, <1>8, <1>10 DEF Agree
      <3>2. CASE q = e.movedTo
        <4>1. D[k - 1][q] = None
          BY <1>9, <2>4, <3>1, <3>2
        <4>2. Undo!Reverted(e)[q] = None
          BY <1>1, <2>3, <3>1, <3>2
        <4> QED BY <4>1, <4>2
      <3>3. CASE q = e.path
        <4>1. q # e.movedTo
          BY <1>8, <1>10, <3>3
        <4>2. D[k - 1][q] = D[k][e.movedTo]
          BY <1>9, <2>4, <3>1, <3>3, <4>1
        <4>3. Undo!Reverted(e)[q] = disk[e.movedTo]
          BY <1>1, <2>3, <3>1, <3>3, <4>1
        <4> QED BY <2>1, <4>2, <4>3
      <3>4. CASE q # e.movedTo /\ q # e.path
        <4>1. D[k - 1][q] = D[k][q]
          BY <1>9, <2>4, <3>1, <3>4
        <4>2. Undo!Reverted(e)[q] = disk[q]
          BY <1>1, <2>3, <3>1, <3>4
        <4> QED BY <3>1, <4>1, <4>2
      <3> QED BY <3>2, <3>3, <3>4
    <2> QED BY <1>5, <1>10, <2>2, <2>5 DEF t, k
  <1>11. CASE e.movedTo = None
    <2>1. disk[e.path] = D[k][e.path]
      BY <1>5, <1>8 DEF Agree
    <2>2. Undo!MayRevert(e)
      BY <1>9, <1>11, <2>1 DEF Reverts, Undo!MayRevert
    <2>3. Undo!Reverted(e) = [disk EXCEPT ![e.path] = e.before]
      BY <1>11 DEF Undo!Reverted
    <2>4. D[k - 1] = [D[k] EXCEPT ![e.path] = e.before]
      BY <1>9, <1>11 DEF Reverts
    <2>5. Agree(t.touched, Undo!Reverted(e), D[k - 1])
      <3> SUFFICES ASSUME NEW q \in t.touched PROVE Undo!Reverted(e)[q] = D[k - 1][q]
        BY DEF Agree
      <3>1. q \in Undo!Places /\ disk[q] = D[k][q] /\ e.path \in Undo!Places
        BY <1>5, <1>6, <1>8 DEF Agree
      <3> QED BY <1>1, <1>9, <2>3, <2>4, <3>1
    <2> QED BY <1>5, <1>11, <2>2, <2>5 DEF t, k
  <1> QED BY <1>10, <1>11

LEMMA UndoEntryIInv == ASSUME UndoInv, NEW s \in Owners, Undo!UndoEntry(s) PROVE UndoInv'
  <1> DEFINE u == undoing[s]
             t == saved[s][u.at]
             e == t.entries[u.todo]
             may == IF e.movedTo # None THEN Undo!MayMoveBack(e) ELSE Undo!MayRevert(e)
             Q == IF e.movedTo # None THEN {e.path, e.movedTo} ELSE {e.path}
             mine == IF may THEN [u EXCEPT !.todo = @ - 1, !.restored = @ + 1]
                     ELSE [u EXCEPT !.todo = @ - 1, !.conflicts = @ + 1]
  <1>0. /\ u # None /\ u.todo > 0
        /\ disk' = IF may THEN Undo!Reverted(e) ELSE disk
        /\ open' = IF may THEN [x \in Owners |-> Undo!Disturbed(open[x], Q)] ELSE open
        /\ undoing' = [x \in Owners |->
              CASE x = s -> mine
                [] x # s /\ may -> Undo!DisturbedUndo(x, Q)
                [] OTHER -> undoing[x]]
        /\ UNCHANGED <<trashed, saved, begun, mutations, outside>>
    BY DEF Undo!UndoEntry, Undo!NextEntry
  <1>1. World /\ \A x \in Owners : Session(x)
    BY Parts
  <1>2. open \in [Owners -> Undo!Turn \cup {None}] /\ saved \in [Owners -> Seq(Undo!Turn)]
        /\ undoing \in [Owners -> Undo!Undo \cup {None}] /\ begun \in Nat
    BY DEF UndoInv, Undo!TypeOK
  <1>3. u \in Undo!Undo /\ u.at \in DOMAIN saved[s] /\ u.todo <= Len(t.entries) /\ open[s] = None
    BY <1>0, <1>1 DEF Session, Recording
  <1>4. t \in Undo!Turn /\ Sound(t) /\ Known(t, begun, trashed)
    BY <1>1, <1>3 DEF Session, Archive
  <1>5. /\ u.todo \in Nat /\ u.conflicts \in Nat /\ u.restored \in Nat /\ u.at \in Nat \ {0}
        /\ u.alone \in BOOLEAN
    BY <1>3 DEF Undo!Undo
  <1>6. /\ e \in Undo!Entry /\ e.path \in t.touched
        /\ e.movedTo # None => e.movedTo \in t.touched /\ e.movedTo # e.path
    <2>1. u.todo \in 1..Len(t.entries)
      <3>1. t.entries \in Seq(Undo!Entry)
        BY <1>4 DEF Undo!Turn
      <3> HIDE DEF u, t
      <3> QED BY <1>0, <1>3, <1>5, <3>1
    <2> HIDE DEF t
    <2> QED BY <1>4, <2>1 DEF Sound, Confined
  <1>7. t.touched \in SUBSET Undo!Places
    BY <1>4 DEF Undo!Turn
  <1>8. /\ mine \in Undo!Undo /\ mine.at = u.at /\ mine.todo = u.todo - 1 /\ mine.alone = u.alone
        /\ may => mine.conflicts = u.conflicts
    <2> HIDE DEF e, may
    <2> DEFINE a == u.todo - 1
               r == u.restored + 1
               c == u.conflicts + 1
    <2>1. a \in Nat /\ r \in Nat /\ c \in Nat
      BY <1>0, <1>5
    <2>2. mine = IF may THEN [u EXCEPT !.todo = a, !.restored = r]
                 ELSE [u EXCEPT !.todo = a, !.conflicts = c]
      BY <1>3
    <2>3. mine.todo = a => mine.todo = u.todo - 1
      OBVIOUS
    <2> HIDE DEF mine, may, a, r, c, u
    <2>4. CASE may
      <3>1. mine = [u EXCEPT !.todo = a, !.restored = r]
        BY <2>2, <2>4
      <3> QED BY <1>3, <2>1, <2>3, <3>1 DEF Undo!Undo
    <2>5. CASE ~may
      <3>1. mine = [u EXCEPT !.todo = a, !.conflicts = c]
        BY <2>2, <2>5
      <3> QED BY <1>3, <2>1, <2>3, <2>5, <3>1 DEF Undo!Undo
    <2> QED BY <2>4, <2>5
  <1>9. Undo!Reverted(e) \in [Undo!Places -> Content] /\ Agree(Undo!Places \ Q, Undo!Reverted(e), disk)
    <2> HIDE DEF e
    <2> QED BY <1>1, <1>6, <1>7 DEF Undo!Reverted, Agree, World, Undo!Entry, Content
  <1>10. World'
    <2>1. disk' \in [Undo!Places -> Content]
      BY <1>0, <1>1, <1>9 DEF World
    <2>2. TrashFree'
      <3> SUFFICES ASSUME NEW k \in Undo!Trash, k > trashed PROVE disk'[k] = None
        BY <1>0 DEF TrashFree
      <3>1. k \notin t.touched /\ k \in Undo!Places /\ disk[k] = None
        BY <1>1, <1>4, Apart DEF Known, World, TrashFree
      <3>2. k \notin Q
        BY <1>6, <3>1
      <3> QED BY <1>0, <1>9, <3>1, <3>2 DEF Agree
    <2> QED BY <1>0, <1>1, <2>1, <2>2 DEF World
  <1>11. Session(s)'
    <2>1. open'[s] = None /\ undoing'[s] = mine /\ saved'[s] = saved[s]
      BY <1>0, <1>2, <1>3 DEF Undo!Disturbed
    <2>2. ASSUME mine.alone
          PROVE  /\ t.alone
                 /\ t.recorded => mine.conflicts = 0 /\ \E D : Spans(D, t) /\ Agree(t.touched, disk', D[mine.todo])
      <3>1. u.alone /\ t.alone /\ (t.recorded => u.conflicts = 0)
        BY <1>0, <1>1, <1>8, <2>2 DEF Session, Reverting
      <3>2. ASSUME t.recorded PROVE may /\ \E D : Spans(D, t) /\ Agree(t.touched, Undo!Reverted(e), D[u.todo - 1])
        BY <1>0, <3>1, <3>2, StepBack
      <3> HIDE DEF mine, may, e, t, u
      <3> QED BY <1>0, <1>8, <3>1, <3>2
    <2>3. Reverting(s)'
      <3> HIDE DEF mine, may, e
      <3> QED BY <1>0, <1>8, <2>1, <2>2 DEF Reverting
    <2>4. Recording(s)' /\ Archive(s)'
      BY <1>0, <1>1, <2>1 DEF Session, Recording, Archive
    <2>5. mine.todo <= Len(t.entries)
      <3>1. Len(t.entries) \in Nat
        BY <1>4 DEF Undo!Turn
      <3> HIDE DEF mine, may, e, t
      <3> QED BY <1>3, <1>5, <1>8, <3>1
    <2> HIDE DEF mine, may, e
    <2> QED BY <1>0, <1>1, <1>3, <1>8, <2>1, <2>3, <2>4, <2>5 DEF Session
  <1>12. ASSUME NEW x \in Owners, x # s PROVE Session(x)'
    <2> HIDE DEF mine, e, Q
    <2>1. CASE may
      <3>1. /\ open'[x] = Undo!Disturbed(open[x], Q) /\ undoing'[x] = Undo!DisturbedUndo(x, Q)
            /\ saved'[x] = saved[x] /\ begun' = begun /\ trashed' \in Nat /\ trashed' >= trashed
            /\ Agree(Undo!Places \ Q, disk', disk)
        BY <1>0, <1>1, <1>9, <1>12, <2>1 DEF World
      <3> QED BY <1>0, <1>2, <3>1, Bystander DEF Session
    <2>2. CASE ~may
      <3>1. /\ open'[x] = open[x] /\ undoing'[x] = undoing[x] /\ disk' = disk
        BY <1>0, <1>12, <2>2
      <3> QED BY <1>0, <1>1, <1>2, <3>1, Same
    <2> QED BY <2>1, <2>2
  <1>13. open' = [x \in Owners |-> open'[x]]
    BY <1>0, <1>2
  <1> QED BY <1>0, <1>2, <1>10, <1>11, <1>12, <1>13, Whole

LEMMA ToolStepIInv == ASSUME UndoInv, NEW s \in Owners, Undo!ToolStep(s) PROVE UndoInv'
  BY EditFileIInv, MovesIInv, AcrossIInv, MoveOverIInv DEF Undo!ToolStep

LEMMA NextIInv == UndoInv /\ [Undo!Next]_(Undo!vars) => UndoInv'
  <1> SUFFICES ASSUME UndoInv, [Undo!Next]_(Undo!vars) PROVE UndoInv'
    OBVIOUS
  <1>1. ASSUME NEW s \in Owners, Undo!BeginTurn(s) PROVE UndoInv'
    BY <1>1, BeginTurnIInv
  <1>2. ASSUME NEW s \in Owners, Undo!ToolStep(s) PROVE UndoInv'
    BY <1>2, ToolStepIInv
  <1>3. ASSUME NEW s \in Owners, Undo!CommitTurn(s) PROVE UndoInv'
    BY <1>3, CommitTurnIInv
  <1>4. ASSUME NEW s \in Owners, Undo!Lose(s) PROVE UndoInv'
    BY <1>4, LoseIInv
  <1>5. ASSUME NEW s \in Owners, Undo!BeginUndo(s) PROVE UndoInv'
    BY <1>5, BeginUndoIInv
  <1>6. ASSUME NEW s \in Owners, Undo!UndoEntry(s) PROVE UndoInv'
    BY <1>6, UndoEntryIInv
  <1>7. ASSUME NEW s \in Owners, Undo!EndUndo(s) PROVE UndoInv'
    BY <1>7, EndUndoIInv
  <1>8. ASSUME NEW q \in Undo!Places, NEW b \in HumanBytes \cup {None}, Undo!Outside(q, b) PROVE UndoInv'
    BY <1>8, OutsideIInv
  <1>9. CASE UNCHANGED Undo!vars
    BY <1>9 DEF Undo!vars, UndoInv, Undo!TypeOK, TrashFree, Recording, Archive, Reverting
  <1> QED BY <1>1, <1>2, <1>3, <1>4, <1>5, <1>6, <1>7, <1>8, <1>9 DEF Undo!Next

LEMMA Invariance == Undo!Spec => []UndoInv
  <1> QED BY InitIInv, NextIInv, PTL DEF Undo!Spec

\* An undo that came to its end has the disk where its turn found it.
LEMMA EndOfUndo == UndoInv => Undo!UndoInverts
  <1> SUFFICES ASSUME UndoInv, NEW s \in Owners, Undo!Undisturbed(s),
                      saved[s][undoing[s].at].recorded
               PROVE  Undo!PutBack(s)
    BY DEF Undo!UndoInverts
  <1> DEFINE t == saved[s][undoing[s].at]
  <1>1. /\ undoing[s] # None /\ undoing[s].todo = 0 /\ undoing[s].alone
    BY DEF Undo!Undisturbed
  <1>2. Reverting(s)
    BY DEF UndoInv
  <1>3. undoing[s].conflicts = 0 /\ \E D : Spans(D, t) /\ Agree(t.touched, disk, D[0])
    BY <1>1, <1>2 DEF Reverting
  <1>4. PICK D : Spans(D, t) /\ Agree(t.touched, disk, D[0])
    BY <1>3
  <1> HIDE DEF t
  <1>5. \A q \in t.touched : disk[q] = t.found[q]
    BY <1>4 DEF Spans, Agree
  <1> QED BY <1>3, <1>5 DEF Undo!PutBack, t

-----------------------------------------------------------------------------
(* What others wrote. *)

\* The entry an undo has come to, as it was recorded.
LEMMA EntryAt ==
  ASSUME UndoInv, NEW s \in Owners, undoing[s] # None, undoing[s].todo > 0,
         NEW e, e = saved[s][undoing[s].at].entries[undoing[s].todo]
  PROVE  /\ e \in Undo!Entry
         /\ e.movedTo # None => e.movedTo # e.path
         /\ e.movedTo = None => e.after \in AgentBytes
  <1> DEFINE t == saved[s][undoing[s].at]
             k == undoing[s].todo
  <1>1. Session(s)
    BY Parts
  <1>2. undoing[s] \in Undo!Undo /\ undoing[s].at \in DOMAIN saved[s] /\ k <= Len(t.entries)
    BY <1>1 DEF Session
  <1>3. t \in Undo!Turn /\ Sound(t)
    BY <1>1, <1>2 DEF Session, Archive
  <1>4. t.entries \in Seq(Undo!Entry) /\ k \in 1..Len(t.entries)
    <2>1. k \in Nat
      BY <1>2 DEF Undo!Undo
    <2>2. t.entries \in Seq(Undo!Entry)
      BY <1>3 DEF Undo!Turn
    <2> HIDE DEF t, k
    <2>3. k > 0
      BY DEF k
    <2> QED BY <1>2, <2>1, <2>2, <2>3
  <1>5. e = t.entries[k]
    OBVIOUS
  <1> HIDE DEF t, k
  <1> QED BY <1>3, <1>4, <1>5 DEF Sound, Confined

\* Bytes of others that an undone entry moves away from a place, or finds
\* there, are still in some place.
LEMMA SparedByEntry ==
  ASSUME UndoInv, NEW s \in Owners, Undo!UndoEntry(s), NEW h \in HumanBytes,
         NEW q \in Undo!Places, disk[q] = h
  PROVE  \E r \in Undo!Places : disk'[r] = h
  <1> DEFINE e == saved[s][undoing[s].at].entries[undoing[s].todo]
             may == IF e.movedTo # None THEN Undo!MayMoveBack(e) ELSE Undo!MayRevert(e)
  <1>1. /\ undoing[s] # None /\ undoing[s].todo > 0
        /\ disk' = IF may THEN Undo!Reverted(e) ELSE disk
    BY DEF Undo!UndoEntry, Undo!NextEntry
  <1>2. /\ e \in Undo!Entry /\ (e.movedTo # None => e.movedTo # e.path)
        /\ e.movedTo = None => e.after \in AgentBytes
    BY <1>1, EntryAt
  <1> HIDE DEF e
  <1>3. h \notin AgentBytes /\ h # None /\ disk \in [Undo!Places -> Content]
        /\ e.path \in Undo!Places /\ e.movedTo \in Undo!Places \cup {None}
    BY <1>2, CheckpointAssumption, Parts DEF World, Undo!Bytes, Undo!Entry
  <1>4. CASE ~may
    BY <1>1, <1>4
  <1>5. CASE may /\ e.movedTo = None
    <2>1. q # e.path
      BY <1>2, <1>3, <1>5 DEF Undo!MayRevert
    <2>2. disk'[q] = h
      BY <1>1, <1>3, <1>5, <2>1 DEF Undo!Reverted
    <2> QED BY <2>2
  <1>6. CASE may /\ e.movedTo # None
    <2>1. disk' = [disk EXCEPT ![e.path] = disk[e.movedTo], ![e.movedTo] = None]
      BY <1>1, <1>6 DEF Undo!Reverted
    <2>2. q # e.path /\ e.movedTo \in Undo!Places
      BY <1>3, <1>6 DEF Undo!MayMoveBack
    <2>3. CASE q = e.movedTo
      <3>1. disk'[e.path] = h
        BY <1>2, <1>3, <1>6, <2>1, <2>2, <2>3
      <3> QED BY <1>3, <3>1
    <2>4. CASE q # e.movedTo
      <3>1. disk'[q] = h
        BY <1>3, <2>1, <2>2, <2>4
      <3> QED BY <3>1
    <2> QED BY <2>3, <2>4
  <1> QED BY <1>4, <1>5, <1>6

LEMMA Spared == Undo!Spec => Undo!HumanWorkSurvivesUndo
  <1>1. ASSUME UndoInv
        PROVE  [\A s \in Owners : Undo!UndoEntry(s) =>
                 \A h \in HumanBytes : (\E q \in Undo!Places : disk[q] = h)
                                         => \E q \in Undo!Places : disk'[q] = h]_(Undo!vars)
    BY <1>1, SparedByEntry
  <1> QED BY <1>1, Invariance, PTL DEF Undo!HumanWorkSurvivesUndo

-----------------------------------------------------------------------------
(* What a commit prunes. *)

\* The newest of a sequence of turns are newer than the rest.
LEMMA Newest ==
  ASSUME NEW ts \in Seq(Undo!Turn), \A i, j \in DOMAIN ts : i < j => ts[i].n < ts[j].n
  PROVE  /\ Undo!Turns(Undo!Prune(ts)) \subseteq Undo!Turns(ts)
         /\ Undo!Turns(Undo!Prune(ts)) = Undo!Turns(ts) \/ Len(Undo!Prune(ts)) = RetainTurns
         /\ \A m \in Undo!Turns(ts) \ Undo!Turns(Undo!Prune(ts)), n \in Undo!Turns(Undo!Prune(ts)) : m < n
  <1>1. RetainTurns \in Nat /\ Len(ts) \in Nat /\ DOMAIN ts = 1..Len(ts)
    BY CheckpointAssumption
  <1>2. CASE Len(ts) <= RetainTurns
    <2>1. Undo!Prune(ts) = ts
      BY <1>1, <1>2 DEF Undo!Prune
    <2> QED BY <2>1
  <1>3. CASE Len(ts) > RetainTurns
    <2> DEFINE k == Len(ts) - RetainTurns
               us == Undo!Prune(ts)
    <2>1. /\ us = SubSeq(ts, k + 1, Len(ts)) /\ k \in Nat
      BY <1>1, <1>3 DEF Undo!Prune
    <2>2. Len(us) = RetainTurns /\ DOMAIN us = 1..RetainTurns /\ \A i \in 1..RetainTurns : us[i] = ts[k + i]
      BY <1>1, <2>1
    <2> HIDE DEF us
    <2>3. \A i \in 1..RetainTurns : k + i \in DOMAIN ts
      BY <1>1, <2>1
    <2>4. Undo!Turns(us) \subseteq Undo!Turns(ts)
      BY <2>2, <2>3 DEF Undo!Turns
    <2>5. ASSUME NEW m \in Undo!Turns(ts) \ Undo!Turns(us), NEW n \in Undo!Turns(us) PROVE m < n
      <3>1. PICK i \in DOMAIN ts : m = ts[i].n
        BY DEF Undo!Turns
      <3>2. PICK j \in 1..RetainTurns : n = us[j].n
        BY <2>2 DEF Undo!Turns
      <3>3. i <= k
        <4> SUFFICES ASSUME i > k PROVE FALSE
          BY <1>1, <2>1
        <4>1. i - k \in 1..RetainTurns /\ k + (i - k) = i
          BY <1>1, <2>1
        <4>2. us[i - k] = ts[i]
          BY <2>2, <4>1
        <4>3. m \in Undo!Turns(us)
          BY <2>2, <3>1, <4>1, <4>2 DEF Undo!Turns
        <4> QED BY <4>3
      <3>4. i < k + j /\ k + j \in DOMAIN ts /\ us[j] = ts[k + j]
        BY <1>1, <2>1, <2>2, <2>3, <3>2, <3>3
      <3> QED BY <3>1, <3>2, <3>4
    <2> QED BY <2>2, <2>4, <2>5 DEF us
  <1> QED BY <1>1, <1>2, <1>3

\* One more turn, one more number.
LEMMA OneMoreTurn ==
  ASSUME NEW ts \in Seq(Undo!Turn), NEW t \in Undo!Turn
  PROVE  /\ Append(ts, t) \in Seq(Undo!Turn)
         /\ Undo!Turns(Append(ts, t)) = Undo!Turns(ts) \cup {t.n}
  <1> DEFINE us == Append(ts, t)
  <1>1. /\ us \in Seq(Undo!Turn) /\ Len(ts) \in Nat /\ DOMAIN us = 1..(Len(ts) + 1)
        /\ us[Len(ts) + 1] = t /\ DOMAIN ts = 1..Len(ts)
        /\ \A i \in 1..Len(ts) : us[i] = ts[i]
    OBVIOUS
  <1> HIDE DEF us
  <1>2. Undo!Turns(us) \subseteq Undo!Turns(ts) \cup {t.n}
    <2> SUFFICES ASSUME NEW i \in DOMAIN us PROVE us[i].n \in Undo!Turns(ts) \cup {t.n}
      BY DEF Undo!Turns
    <2>1. i = Len(ts) + 1 \/ i \in DOMAIN ts
      BY <1>1
    <2> QED BY <1>1, <2>1 DEF Undo!Turns
  <1>3. Undo!Turns(ts) \subseteq Undo!Turns(us)
    <2> SUFFICES ASSUME NEW i \in DOMAIN ts PROVE ts[i].n \in Undo!Turns(us)
      BY DEF Undo!Turns
    <2>1. i \in DOMAIN us /\ us[i] = ts[i]
      BY <1>1
    <2>2. us[i].n \in Undo!Turns(us)
      BY <2>1 DEF Undo!Turns
    <2> QED BY <2>1, <2>2
  <1>4. t.n \in Undo!Turns(us)
    <2>1. Len(ts) + 1 \in DOMAIN us
      BY <1>1
    <2>2. us[Len(ts) + 1].n \in Undo!Turns(us)
      BY <2>1 DEF Undo!Turns
    <2> QED BY <1>1, <2>2
  <1> QED BY <1>1, <1>2, <1>3, <1>4 DEF us

\* What a commit leaves of the turns of a session, when "all" were there.
Spares(kept, all, len) ==
    /\ kept \subseteq all
    /\ kept = all \/ len = RetainTurns
    /\ \A n \in all \ kept, m \in kept : n < m

LEMMA CommitSpares ==
  ASSUME UndoInv, NEW s \in Owners, NEW x \in Owners, Undo!CommitTurn(s), open[s].entries # <<>>
  PROVE  Spares(Undo!Turns(saved'[x]),
                Undo!Turns(saved[x]) \cup (IF x = s THEN {open[s].n} ELSE {}), Len(saved'[x]))
  <1>1. /\ open[s] # None /\ saved' = [saved EXCEPT ![s] = Undo!Prune(Append(@, open[s]))]
    BY DEF Undo!CommitTurn
  <1>2. saved \in [Owners -> Seq(Undo!Turn)] /\ open[s] \in Undo!Turn \cup {None}
    BY DEF UndoInv, Undo!TypeOK
  <1>3. CASE x # s
    <2>1. saved'[x] = saved[x]
      BY <1>1, <1>2, <1>3
    <2> QED BY <1>3, <2>1 DEF Spares
  <1>4. CASE x = s
    <2> DEFINE ts == saved[s]
               t == open[s]
               us == Append(ts, t)
    <2>1. ts \in Seq(Undo!Turn) /\ t \in Undo!Turn
      BY <1>1, <1>2
    <2>2. saved'[x] = Undo!Prune(us)
      BY <1>1, <1>2, <1>4
    <2>3. us \in Seq(Undo!Turn) /\ Undo!Turns(us) = Undo!Turns(ts) \cup {t.n}
      BY <2>1, OneMoreTurn
    <2>4. \A i, j \in DOMAIN us : i < j => us[i].n < us[j].n
      <3>1. Recording(s) /\ Archive(s)
        BY DEF UndoInv
      <3>2. \A i \in DOMAIN ts : ts[i].n < t.n
        BY <1>1, <3>1 DEF Recording
      <3>3. \A i, j \in DOMAIN ts : i < j => ts[i].n < ts[j].n
        BY <3>1 DEF Archive
      <3>4. /\ Len(ts) \in Nat /\ DOMAIN us = 1..(Len(ts) + 1)
            /\ us[Len(ts) + 1] = t /\ DOMAIN ts = 1..Len(ts)
            /\ \A i \in 1..Len(ts) : us[i] = ts[i]
        BY <2>1
      <3> HIDE DEF us, ts, t
      <3> QED BY <3>2, <3>3, <3>4
    <2> HIDE DEF us, ts, t
    <2>5. Spares(Undo!Turns(Undo!Prune(us)), Undo!Turns(us), Len(Undo!Prune(us)))
      BY <2>3, <2>4, Newest DEF Spares
    <2> QED BY <1>4, <2>2, <2>3, <2>5 DEF ts, t
  <1> QED BY <1>3, <1>4

LEMMA NewestSpared == Undo!Spec => Undo!PruneSparesNewest
  <1>1. ASSUME UndoInv
        PROVE  [\A s, x \in Owners : Undo!CommitTurn(s) /\ open[s].entries # <<>> =>
                 LET all == Undo!Turns(saved[x]) \cup (IF x = s THEN {open[s].n} ELSE {})
                     kept == Undo!Turns(saved'[x])
                 IN /\ kept \subseteq all
                    /\ kept = all \/ Len(saved'[x]) = RetainTurns
                    /\ \A n \in all \ kept, m \in kept : n < m]_(Undo!vars)
    BY <1>1, CommitSpares DEF Spares
  <1> QED BY <1>1, Invariance, PTL DEF Undo!PruneSparesNewest

-----------------------------------------------------------------------------
(* The checkpoints of MCSession. *)

LEMMA UndoAlone == Spec => Undo!Spec
  <1>1. Init => Undo!Init
    BY DEF Init
  <1>2. [Next]_<<memory, historyVars, journalVars, checkpointVars>> => [Undo!Next]_(Undo!vars)
    BY DEF Next, checkpointVars, Undo!vars
  <1> QED BY <1>1, <1>2, PTL DEF Spec, Undo!Spec

\* A turn that recorded each of its mutations, and that nobody disturbed, is
\* put back by its undo, whatever mix of edits, deletions and moves it made
\* and however many sessions, files and trash names there are.
THEOREM UndoInvertsHolds == Spec => []UndoInverts
  <1>1. UndoInv => UndoInverts
    BY EndOfUndo DEF UndoInverts, UndoInv
  <1> QED BY <1>1, UndoAlone, Invariance, PTL

\* No entry that an undo reverts destroys what somebody else wrote, and no
\* commit prunes a session's newest turns or another session's.
THEOREM OthersAreSparedHolds == Spec => OthersAreSpared
  BY UndoAlone, Spared, NewestSpared DEF OthersAreSpared

-----------------------------------------------------------------------------
(* The records of a journal. *)

Lines == Seq(Seq(Store!Piece))

\* N[i] is what the first i lines hold of a kind.
CountsAt(N, ls, kind, i) ==
    N[i] = IF i = 0 THEN <<>>
           ELSE IF Store!IsA(ls[i], kind) THEN Append(N[i - 1], ls[i][1].n)
           ELSE N[i - 1]
Counts(N, ls, kind) ==
    N = [i \in 0..Len(ls) |->
          IF i = 0 THEN <<>>
          ELSE IF Store!IsA(ls[i], kind) THEN Append(N[i - 1], ls[i][1].n)
          ELSE N[i - 1]]

LEMMA CountsEach ==
  ASSUME NEW ls, NEW kind, NEW N, Counts(N, ls, kind), NEW i \in 0..Len(ls)
  PROVE  CountsAt(N, ls, kind, i)
  BY DEF Counts, CountsAt

LEMMA Countable ==
  ASSUME NEW ls \in Lines, NEW kind
  PROVE  \E N : Counts(N, ls, kind)
  <1> DEFINE L == Len(ls)
             Good(m) == \E N : \A i \in 0..m : CountsAt(N, ls, kind, i)
             S == {m \in 0..L : Good(m)}
  <1>0. L \in Nat
    BY DEF Lines
  <1>1. Good(0)
    <2> DEFINE N == [i \in 0..0 |-> <<>>]
    <2>1. \A i \in 0..0 : CountsAt(N, ls, kind, i)
      BY DEF CountsAt
    <2> QED BY <2>1
  <1>2. ASSUME NEW m \in 0..(L - 1), Good(m) PROVE Good(m + 1)
    <2>1. PICK N : \A i \in 0..m : CountsAt(N, ls, kind, i)
      BY <1>2
    <2> DEFINE new == IF Store!IsA(ls[m + 1], kind) THEN Append(N[m], ls[m + 1][1].n) ELSE N[m]
               M == [i \in 0..(m + 1) |-> IF i = m + 1 THEN new ELSE N[i]]
    <2>2. m \in Nat
      BY <1>0
    <2>3. M[m + 1] = new /\ \A i \in 0..m : M[i] = N[i]
      BY <2>2
    <2> HIDE DEF M
    <2>4. CountsAt(M, ls, kind, m + 1)
      BY <2>2, <2>3 DEF CountsAt
    <2>5. ASSUME NEW i \in 0..m PROVE CountsAt(M, ls, kind, i)
      <3>1. i = 0 \/ i - 1 \in 0..m
        BY <2>2
      <3>2. CountsAt(N, ls, kind, i) /\ M[i] = N[i] /\ (i # 0 => M[i - 1] = N[i - 1])
        BY <2>1, <2>3, <3>1
      <3> QED BY <3>2 DEF CountsAt
    <2>6. \A i \in 0..(m + 1) : i = m + 1 \/ i \in 0..m
      BY <2>2
    <2> QED BY <2>4, <2>5, <2>6
  <1> HIDE DEF Good
  <1>3. \A m \in 0..L : m \in S
    <2>1. 0 \in S /\ \A m \in 0..(L - 1) : m \in S => m + 1 \in S
      BY <1>0, <1>1, <1>2
    <2> HIDE DEF S, L
    <2> QED BY <1>0, <2>1, UpTo
  <1>4. Good(L)
    BY <1>0, <1>3
  <1>5. PICK N : \A i \in 0..L : CountsAt(N, ls, kind, i)
    BY <1>4 DEF Good
  <1> DEFINE M == [i \in 0..L |-> N[i]]
  <1>6. ASSUME NEW i \in 0..L PROVE CountsAt(M, ls, kind, i)
    <2>1. i = 0 \/ i - 1 \in 0..L
      BY <1>0
    <2>2. CountsAt(N, ls, kind, i) /\ M[i] = N[i] /\ (i # 0 => M[i - 1] = N[i - 1])
      BY <1>5, <2>1
    <2> QED BY <2>2 DEF CountsAt
  <1>7. M = [i \in 0..L |-> M[i]]
    OBVIOUS
  <1> HIDE DEF M
  <1>8. Counts(M, ls, kind)
    BY <1>6, <1>7 DEF Counts, CountsAt
  <1> QED BY <1>8

LEMMA Counted ==
  ASSUME NEW f, f.lines \in Lines, NEW kind
  PROVE  \E N : Counts(N, f.lines, kind) /\ Store!Numbers(f, kind) = N[Len(f.lines)]
  <1> DEFINE N == CHOOSE N : Counts(N, f.lines, kind)
  <1>1. Counts(N, f.lines, kind)
    BY Countable
  <1>2. Store!Numbers(f, kind) = N[Len(f.lines)]
    BY DEF Store!Numbers, Counts
  <1> QED BY <1>1, <1>2

\* The records of a kind are among those that stand in lines of that kind.
LEMMA NumbersIn ==
  ASSUME NEW f, f.lines \in Lines, NEW kind, NEW A,
         \A i \in DOMAIN f.lines : Store!IsA(f.lines[i], kind) => f.lines[i][1].n \in A
  PROVE  Store!Numbers(f, kind) \in Seq(A)
  <1>1. PICK N : Counts(N, f.lines, kind) /\ Store!Numbers(f, kind) = N[Len(f.lines)]
    BY Counted
  <1> DEFINE L == Len(f.lines)
             S == {m \in 0..L : N[m] \in Seq(A)}
  <1>2. L \in Nat /\ DOMAIN f.lines = 1..L
    BY DEF Lines
  <1>3. 0 \in S
    <2>1. CountsAt(N, f.lines, kind, 0)
      BY <1>1, <1>2, CountsEach
    <2>2. <<>> \in Seq(A)
      OBVIOUS
    <2>3. N[0] \in Seq(A)
      BY <2>1, <2>2 DEF CountsAt
    <2> QED BY <1>2, <2>3
  <1>4. ASSUME NEW m \in 0..(L - 1), m \in S PROVE m + 1 \in S
    <2>1. m + 1 \in 1..L /\ m + 1 \in 0..L /\ m + 1 - 1 = m /\ m + 1 # 0
      BY <1>2
    <2>2. CountsAt(N, f.lines, kind, m + 1)
      BY <1>1, <2>1, CountsEach
    <2>3. N[m + 1] \in Seq(A)
      BY <1>2, <1>4, <2>1, <2>2 DEF CountsAt
    <2> QED BY <2>1, <2>3
  <1>5. \A m \in 0..L : m \in S
    <2> HIDE DEF S, L
    <2> QED BY <1>2, <1>3, <1>4, UpTo
  <1> QED BY <1>1, <1>2, <1>5

\* What stands behind a line does not change what stood before it.
LEMMA CountsAlike ==
  ASSUME NEW ls \in Lines, NEW ms \in Lines, NEW kind, NEW N, NEW M,
         Counts(N, ls, kind), Counts(M, ms, kind),
         NEW k \in Nat, k <= Len(ls), k <= Len(ms), \A i \in 1..k : ls[i] = ms[i]
  PROVE  N[k] = M[k]
  <1> DEFINE S == {m \in 0..k : N[m] = M[m]}
  <1>0. /\ Len(ls) \in Nat /\ Len(ms) \in Nat
        /\ \A m \in 0..k : CountsAt(N, ls, kind, m) /\ CountsAt(M, ms, kind, m)
    <2>1. Len(ls) \in Nat /\ Len(ms) \in Nat
      BY DEF Lines
    <2>2. \A m \in 0..k : m \in 0..Len(ls) /\ m \in 0..Len(ms)
      BY <2>1
    <2> QED BY <2>1, <2>2, CountsEach
  <1>1. 0 \in S
    BY <1>0 DEF CountsAt
  <1>2. ASSUME NEW m \in 0..(k - 1), m \in S PROVE m + 1 \in S
    <2>1. m + 1 \in 1..k /\ m + 1 \in 0..k /\ m + 1 - 1 = m /\ m + 1 # 0
      OBVIOUS
    <2>2. CountsAt(N, ls, kind, m + 1) /\ CountsAt(M, ms, kind, m + 1) /\ ls[m + 1] = ms[m + 1]
      BY <1>0, <2>1
    <2>3. N[m + 1] = M[m + 1]
      BY <1>2, <2>1, <2>2 DEF CountsAt
    <2> QED BY <2>1, <2>3
  <1>3. \A m \in 0..k : m \in S
    <2> HIDE DEF S
    <2> QED BY <1>1, <1>2, UpTo
  <1> QED BY <1>3

LEMMA NumbersAppend ==
  ASSUME NEW f, f.lines \in Lines, NEW l \in Seq(Store!Piece), NEW g,
         g.lines = Append(f.lines, l), NEW kind
  PROVE  /\ Store!IsA(l, kind) => Store!Numbers(g, kind) = Append(Store!Numbers(f, kind), l[1].n)
         /\ ~Store!IsA(l, kind) => Store!Numbers(g, kind) = Store!Numbers(f, kind)
  <1> DEFINE ls == f.lines
             ms == g.lines
             k == Len(ls)
  <1>1. /\ k \in Nat /\ ms \in Lines /\ Len(ms) = k + 1 /\ ms[k + 1] = l
        /\ \A i \in 1..k : ls[i] = ms[i]
    BY DEF Lines
  <1>2. PICK N : Counts(N, ls, kind) /\ Store!Numbers(f, kind) = N[k]
    BY Counted
  <1>3. PICK M : Counts(M, ms, kind) /\ Store!Numbers(g, kind) = M[Len(ms)]
    BY <1>1, Counted
  <1>4. CountsAt(M, ms, kind, k + 1)
    <2>1. k + 1 \in 0..Len(ms)
      BY <1>1
    <2> QED BY <1>3, <2>1, CountsEach
  <1>5. N[k] = M[k]
    <2>1. k <= Len(ls) /\ k <= Len(ms)
      BY <1>1
    <2> HIDE DEF ls, ms, k
    <2>2. ls \in Lines
      BY DEF ls
    <2> QED BY <1>1, <1>2, <1>3, <2>1, <2>2, CountsAlike
  <1>6. k + 1 - 1 = k /\ k + 1 # 0
    BY <1>1
  <1> QED BY <1>1, <1>2, <1>3, <1>4, <1>5, <1>6 DEF CountsAt


-----------------------------------------------------------------------------
(* What an append leaves. *)

\* One piece to a line; only a last line without its newline may be cut.
Neat(fl) ==
    \A i \in DOMAIN fl.lines :
        /\ Len(fl.lines[i]) = 1
        /\ i # Len(fl.lines) \/ fl.ended = TRUE => fl.lines[i][1].whole = TRUE

Numbered(fl, w) ==
    \A i \in DOMAIN fl.lines : \A j \in DOMAIN fl.lines[i] : fl.lines[i][j].n <= w

\* Replay finds no record of the session.
Headless(fl) ==
    \A i \in DOMAIN fl.lines : \A j \in DOMAIN fl.lines[i] : fl.lines[i][j].kind # "session"

NumbersOf(fl, kind) == IF fl = None THEN <<>> ELSE Store!Numbers(fl, kind)

\* g holds what fl held, and a record number n if it was written whole.
Grows(g, fl, whole, kind, n) ==
    \A k : NumbersOf(g, k) =
             IF whole = TRUE /\ kind = k THEN Append(NumbersOf(fl, k), n)
             ELSE NumbersOf(fl, k)

LEMMA NumbersTyped ==
  ASSUME NEW fl \in Store!File, NEW kind, NEW w \in Nat, Numbered(fl, w)
  PROVE  Store!Numbers(fl, kind) \in Seq(0..w)
  <1>1. fl.lines \in Lines
    BY DEF Store!File, Lines
  <1>2. ASSUME NEW i \in DOMAIN fl.lines, Store!IsA(fl.lines[i], kind)
        PROVE  fl.lines[i][1].n \in 0..w
    <2>1. fl.lines[i] \in Seq(Store!Piece) /\ Len(fl.lines[i]) = 1
      BY <1>1, <1>2 DEF Store!IsA, Store!Parses, Lines
    <2>2. \A z \in Seq(Store!Piece) : Len(z) = 1 => 1 \in DOMAIN z /\ z[1] \in Store!Piece
      OBVIOUS
    <2>3. 1 \in DOMAIN fl.lines[i] /\ fl.lines[i][1] \in Store!Piece
      BY <2>1, <2>2
    <2> QED BY <2>3 DEF Numbered, Store!Piece
  <1> QED BY <1>1, <1>2, NumbersIn

LEMMA HeadlessLost ==
  ASSUME NEW fl \in Store!File, Headless(fl)
  PROVE  Store!Numbers(fl, "session") = <<>>
  <1>1. fl.lines \in Lines
    BY DEF Store!File, Lines
  <1>2. ASSUME NEW i \in DOMAIN fl.lines, Store!IsA(fl.lines[i], "session") PROVE FALSE
    <2>1. fl.lines[i] \in Seq(Store!Piece) /\ Len(fl.lines[i]) = 1 /\ fl.lines[i][1].kind = "session"
      BY <1>1, <1>2 DEF Store!IsA, Store!Parses, Lines
    <2>2. 1 \in DOMAIN fl.lines[i]
      BY <2>1
    <2> QED BY <2>1, <2>2 DEF Headless
  <1>3. Store!Numbers(fl, "session") \in Seq({})
    BY <1>1, <1>2, NumbersIn
  <1>4. \A z \in Seq({}) : z = <<>>
    OBVIOUS
  <1> QED BY <1>3, <1>4

\* Behind anything.
LEMMA AppendedShape ==
  ASSUME NEW fl \in Store!File \cup {None}, NEW p \in Store!Piece, NEW nl \in BOOLEAN,
         NEW v \in Nat, NEW w \in Nat, v <= w, p.n <= w, fl # None => Numbered(fl, v),
         NEW g, g = Store!Appended(fl, p, nl)
  PROVE  /\ g \in Store!File /\ g # None /\ g.ended = nl /\ Numbered(g, w)
         /\ p.kind # "session" /\ (fl # None => Headless(fl)) => Headless(g)
  <1>1. None \notin Store!File
    BY JournalAssumption
  <1>2. CASE fl = None
    <2>1. g = [lines |-> << <<p>> >>, ended |-> nl]
      BY <1>2 DEF Store!Appended
    <2>2. << <<p>> >> \in Seq(Seq(Store!Piece))
      OBVIOUS
    <2>3. g \in Store!File /\ g.lines = << <<p>> >> /\ g.ended = nl
      BY <2>1, <2>2 DEF Store!File
    <2>4. \A i \in DOMAIN g.lines : \A j \in DOMAIN g.lines[i] : g.lines[i][j] = p
      BY <2>3
    <2> QED BY <1>1, <2>3, <2>4 DEF Numbered, Headless
  <1>3. CASE fl # None
    <2> DEFINE L == Len(fl.lines)
    <2>0. fl \in Store!File /\ fl.lines \in Seq(Seq(Store!Piece)) /\ L \in Nat /\ DOMAIN fl.lines = 1..L
      BY <1>3 DEF Store!File
    <2>a. \A i \in DOMAIN fl.lines : fl.lines[i] \in Seq(Store!Piece)
      BY <2>0
    <2>b. \A i \in DOMAIN fl.lines : \A j \in DOMAIN fl.lines[i] : fl.lines[i][j].n \in Nat
      <3>1. \A z \in Seq(Store!Piece) : \A j \in DOMAIN z : z[j] \in Store!Piece
        OBVIOUS
      <3>2. \A x \in Store!Piece : x.n \in Nat
        BY DEF Store!Piece
      <3> QED BY <2>a, <3>1, <3>2
    <2>1. CASE fl.ended
      <3>1. g = [lines |-> Append(fl.lines, <<p>>), ended |-> nl]
        BY <1>3, <2>1 DEF Store!Appended
      <3>2. <<p>> \in Seq(Store!Piece)
        OBVIOUS
      <3>3. Append(fl.lines, <<p>>) \in Seq(Seq(Store!Piece))
        BY <2>0, <3>2
      <3>4. g \in Store!File /\ g.ended = nl /\ g.lines = Append(fl.lines, <<p>>)
        BY <3>1, <3>3 DEF Store!File
      <3>5. \A i \in DOMAIN g.lines : (i \in DOMAIN fl.lines /\ g.lines[i] = fl.lines[i]) \/ g.lines[i] = <<p>>
        BY <2>0, <3>4
      <3>6. \A i \in DOMAIN g.lines : \A j \in DOMAIN g.lines[i] :
               \/ i \in DOMAIN fl.lines /\ g.lines[i][j] = fl.lines[i][j] /\ j \in DOMAIN fl.lines[i]
               \/ g.lines[i][j] = p
        BY <3>5
      <3>8. Numbered(g, w)
        BY <1>3, <2>b, <3>6 DEF Numbered
      <3>9. p.kind # "session" /\ Headless(fl) => Headless(g)
        BY <3>6 DEF Headless
      <3> QED BY <1>1, <1>3, <3>4, <3>8, <3>9
    <2>2. CASE ~fl.ended
      <3> DEFINE more == Append(fl.lines[L], p)
                 ls == [fl.lines EXCEPT ![L] = more]
      <3>1. g = [lines |-> ls, ended |-> nl]
        BY <1>3, <2>2 DEF Store!Appended
      <3>2. ls \in Seq(Seq(Store!Piece)) /\ DOMAIN ls = 1..L
        <4>1. L \in 1..L => more \in Seq(Store!Piece)
          BY <2>0, <2>a
        <4> HIDE DEF more
        <4> HIDE DEF L
        <4>2. ls \in [1..L -> Seq(Store!Piece)]
          BY <2>0, <2>a, <4>1
        <4> HIDE DEF ls
        <4> QED BY <2>0, <4>2, FunIsSeq
      <3>3. g \in Store!File /\ g.ended = nl /\ g.lines = ls
        BY <3>1, <3>2 DEF Store!File
      <3>4. \A i \in DOMAIN ls : \A j \in DOMAIN ls[i] :
               (ls[i][j] = fl.lines[i][j] /\ j \in DOMAIN fl.lines[i]) \/ ls[i][j] = p
        <4> SUFFICES ASSUME NEW i \in DOMAIN ls, NEW j \in DOMAIN ls[i]
                     PROVE  (ls[i][j] = fl.lines[i][j] /\ j \in DOMAIN fl.lines[i]) \/ ls[i][j] = p
          OBVIOUS
        <4>1. i \in DOMAIN fl.lines /\ fl.lines[i] \in Seq(Store!Piece)
          BY <2>0, <2>a, <3>2
        <4>2. CASE i = L
          <5>1. ls[i] = Append(fl.lines[i], p)
            BY <2>0, <3>2, <4>1, <4>2
          <5> HIDE DEF ls
          <5> QED BY <4>1, <5>1
        <4>3. CASE i # L
          <5>1. ls[i] = fl.lines[i]
            BY <2>0, <3>2, <4>1, <4>3
          <5> QED BY <5>1
        <4> QED BY <4>2, <4>3
      <3> HIDE DEF ls
      <3>5. DOMAIN g.lines = DOMAIN fl.lines
        BY <2>0, <3>2, <3>3
      <3>6. \A i \in DOMAIN g.lines : \A j \in DOMAIN g.lines[i] :
               (g.lines[i][j] = fl.lines[i][j] /\ j \in DOMAIN fl.lines[i]) \/ g.lines[i][j] = p
        BY <3>3, <3>4
      <3> HIDE DEF L
      <3>8. Numbered(g, w)
        BY <1>3, <2>b, <3>5, <3>6 DEF Numbered
      <3>9. p.kind # "session" /\ Headless(fl) => Headless(g)
        BY <3>5, <3>6 DEF Headless
      <3> QED BY <1>1, <1>3, <3>3, <3>8, <3>9
    <2> QED BY <2>1, <2>2
  <1> QED BY <1>2, <1>3

\* Behind a whole line.
LEMMA AppendedNeat ==
  ASSUME NEW fl \in Store!File \cup {None}, NEW p \in Store!Piece, NEW nl \in BOOLEAN,
         fl # None => fl.ended = TRUE /\ Neat(fl),
         NEW g, g = Store!Appended(fl, p, nl)
  PROVE  /\ Grows(g, fl, p.whole, p.kind, p.n)
         /\ p.whole = TRUE \/ nl = FALSE => Neat(g)
  <1>1. None \notin Store!File
    BY JournalAssumption
  <1>2. <<p>> \in Seq(Store!Piece) /\ Len(<<p>>) = 1 /\ <<p>>[1] = p
    OBVIOUS
  <1>3. \A kind : Store!IsA(<<p>>, kind) <=> p.whole = TRUE /\ p.kind = kind
    BY <1>2 DEF Store!IsA, Store!Parses, Store!Piece
  <1> DEFINE old == IF fl = None THEN <<>> ELSE fl.lines
             before == [lines |-> old, ended |-> TRUE]
  <1>4. old \in Lines /\ before.lines = old
    BY DEF Store!File, Lines
  <1>5. \A kind : NumbersOf(fl, kind) = Store!Numbers(before, kind)
    <2>1. CASE fl # None
      BY <2>1 DEF NumbersOf, Store!Numbers
    <2>2. CASE fl = None
      <3>1. before.lines = <<>>
        BY <2>2
      <3>2. \A kind : Store!Numbers(before, kind) \in Seq({})
        <4> HIDE DEF before
        <4> QED BY <1>4, <3>1, NumbersIn
      <3>3. \A z \in Seq({}) : z = <<>>
        OBVIOUS
      <3> QED BY <2>2, <3>2, <3>3 DEF NumbersOf
    <2> QED BY <2>1, <2>2
  <1>6. g.lines = Append(old, <<p>>) /\ g.ended = nl /\ g # None
    <2>1. CASE fl # None
      <3>1. g = [lines |-> Append(fl.lines, <<p>>), ended |-> nl]
        BY <2>1 DEF Store!Appended
      <3>2. Append(fl.lines, <<p>>) \in Seq(Seq(Store!Piece))
        BY <1>2, <1>4, <2>1 DEF Lines
      <3>3. g \in Store!File
        BY <3>1, <3>2 DEF Store!File
      <3>4. old = fl.lines
        BY <2>1
      <3> HIDE DEF old
      <3>5. g # None
        BY <1>1, <3>3
      <3>6. g.ended = nl /\ g.lines = Append(fl.lines, <<p>>)
        BY <3>1
      <3> QED BY <3>4, <3>5, <3>6
    <2>2. CASE fl = None
      <3>1. g = [lines |-> << <<p>> >>, ended |-> nl]
        BY <2>2 DEF Store!Appended
      <3>2. << <<p>> >> \in Seq(Seq(Store!Piece)) /\ << <<p>> >> = Append(<<>>, <<p>>)
        BY <1>2
      <3>3. g \in Store!File
        BY <3>1, <3>2 DEF Store!File
      <3> QED BY <1>1, <2>2, <3>1, <3>2, <3>3
    <2> QED BY <2>1, <2>2
  <1>7. ASSUME NEW kind
        PROVE  NumbersOf(g, kind) = IF p.whole = TRUE /\ p.kind = kind THEN Append(NumbersOf(fl, kind), p.n)
                                    ELSE NumbersOf(fl, kind)
    <2>1. NumbersOf(g, kind) = Store!Numbers(g, kind)
      BY <1>6 DEF NumbersOf
    <2>2. /\ Store!IsA(<<p>>, kind) => Store!Numbers(g, kind) = Append(Store!Numbers(before, kind), <<p>>[1].n)
          /\ ~Store!IsA(<<p>>, kind) => Store!Numbers(g, kind) = Store!Numbers(before, kind)
      <3>1. before.lines \in Lines /\ g.lines = Append(before.lines, <<p>>)
        BY <1>4, <1>6
      <3> HIDE DEF before, old
      <3>2. PICK l \in Seq(Store!Piece) : l = <<p>>
        BY <1>2
      <3>3. g.lines = Append(before.lines, l)
        BY <3>1, <3>2
      <3>4. /\ Store!IsA(l, kind) => Store!Numbers(g, kind) = Append(Store!Numbers(before, kind), l[1].n)
            /\ ~Store!IsA(l, kind) => Store!Numbers(g, kind) = Store!Numbers(before, kind)
        BY <3>1, <3>3, NumbersAppend
      <3> QED BY <3>2, <3>4
    <2> HIDE DEF before
    <2> QED BY <1>2, <1>3, <1>5, <2>1, <2>2
  <1>8. ASSUME p.whole = TRUE \/ nl = FALSE PROVE Neat(g)
    <2> SUFFICES ASSUME NEW i \in DOMAIN g.lines
                 PROVE  /\ Len(g.lines[i]) = 1
                        /\ i # Len(g.lines) \/ g.ended = TRUE => g.lines[i][1].whole = TRUE
      BY DEF Neat
    <2>1. Len(old) \in Nat /\ DOMAIN old = 1..Len(old)
      BY <1>4 DEF Lines
    <2> HIDE DEF old
    <2>2. Len(g.lines) = Len(old) + 1 /\ DOMAIN g.lines = 1..(Len(old) + 1)
      BY <1>2, <1>4, <1>6 DEF Lines
    <2>3. CASE i = Len(old) + 1
      <3>1. g.lines[i] = <<p>>
        BY <1>2, <1>4, <1>6, <2>1, <2>3 DEF Lines
      <3> QED BY <1>2, <1>6, <1>8, <2>2, <2>3, <3>1
    <2>4. CASE i # Len(old) + 1
      <3>1. i \in 1..Len(old) /\ g.lines[i] = old[i]
        BY <1>2, <1>4, <1>6, <2>1, <2>2, <2>4 DEF Lines
      <3>2. fl # None /\ old = fl.lines /\ i \in DOMAIN fl.lines
        BY <2>1, <3>1 DEF old
      <3> QED BY <3>1, <3>2 DEF Neat
    <2> QED BY <2>3, <2>4
  <1> QED BY <1>7, <1>8 DEF Grows


-----------------------------------------------------------------------------
(* The invariant of the journals. *)

Within(st, messages, telemetry) ==
    st # None => /\ Store!ToSet(st.messages) \subseteq messages
                 /\ st.telemetry = 0 \/ st.telemetry \in telemetry

NumberSet(fl, kind) == Store!ToSet(NumbersOf(fl, kind))

Paper(s) ==
    files[s] # None =>
        Numbered(files[s], writes) /\ (s \notin glued => Neat(files[s]))

Gone(s) ==
    /\ s \in deleted \ (redone \cup spared) =>
         s \notin alive /\ (files[s] # None => Headless(files[s]))
    /\ s \in spared => files[s] # None

\* Created, but nobody was told: its file has no newline.
Unknown(s) ==
    s \notin alive \cup glued \cup redone \cup (deleted \ spared) =>
        acked[s] = <<>> /\ (files[s] # None => files[s].ended = FALSE)

Waits(s) ==
    legacy /\ s \in Legacy =>
        /\ s \in alive \cup deleted
        /\ files[s] = None /\ s \notin deleted \cup redone => acked[s] = <<0>>

Told(s) == acked[s] \in Seq(0..writes)

Safe(s) ==
    s \in alive \ (glued \cup redone) =>
        \/ legacy /\ s \in Legacy /\ files[s] = None
        \/ /\ files[s] # None /\ NumbersOf(files[s], "session") # <<>>
           /\ Store!InOrder(acked[s], NumbersOf(files[s], "message"))

Books(s) == Paper(s) /\ Gone(s) /\ Unknown(s) /\ Waits(s) /\ Told(s) /\ Safe(s)

Held(s) ==
    /\ states[s] # None => up = TRUE /\ files[s] # None
    /\ s \in deleted \ (redone \cup spared) => states[s] = None
    /\ s \notin glued =>
         Within(states[s], NumberSet(files[s], "message"), NumberSet(files[s], "telemetry"))

JournalInv == Store!TypeOK /\ \A s \in Recorded : Books(s) /\ Held(s)

\* A journal that nobody wrote to.
LEMMA BooksStay ==
  ASSUME NEW s \in Recorded, Books(s), writes \in Nat, writes' \in Nat, writes <= writes',
         files[s] \in Store!File \cup {None}, files'[s] = files[s], acked'[s] = acked[s],
         UNCHANGED <<legacy, deleted, spared, redone>>,
         s \in alive' <=> s \in alive, s \in glued' <=> s \in glued
  PROVE  Books(s)'
  <1>1. files[s] # None => Numbered(files[s], writes')
    <2>1. \A z \in Seq(Store!Piece) : \A j \in DOMAIN z : z[j] \in Store!Piece
      OBVIOUS
    <2>2. \A x \in Store!Piece : x.n \in Nat
      BY DEF Store!Piece
    <2>3. files[s] # None => \A i \in DOMAIN files[s].lines : files[s].lines[i] \in Seq(Store!Piece)
      BY DEF Store!File
    <2> QED BY <2>1, <2>2, <2>3 DEF Books, Paper, Numbered
  <1>2. acked[s] \in Seq(0..writes')
    <2>1. 0..writes \subseteq 0..writes' /\ acked[s] \in Seq(0..writes)
      BY DEF Books, Told
    <2> QED BY <2>1
  <1>3. Paper(s)' /\ Gone(s)'
    BY <1>1 DEF Books, Paper, Gone
  <1>4. Unknown(s)' /\ Told(s)'
    BY <1>2 DEF Books, Unknown, Told
  <1>5. Waits(s)' /\ Safe(s)'
    BY DEF Books, Waits, Safe
  <1> QED BY <1>3, <1>4, <1>5 DEF Books

LEMMA OtherJournal ==
  ASSUME NEW s \in Recorded, Books(s), Held(s), writes \in Nat, writes' \in Nat, writes <= writes',
         files[s] \in Store!File \cup {None},
         files'[s] = files[s], acked'[s] = acked[s], (states'[s] = states[s] /\ up' = up) \/ states'[s] = None,
         UNCHANGED <<legacy, deleted, spared, redone>>,
         s \in alive' <=> s \in alive, s \in glued' <=> s \in glued
  PROVE  Books(s)' /\ Held(s)'
  <1>1. Within(states[s], NumberSet(files[s], "message"), NumberSet(files[s], "telemetry"))
          => Within(states'[s], NumberSet(files[s], "message"), NumberSet(files[s], "telemetry"))
    BY DEF Within
  <1>2. Held(s)'
    BY <1>1 DEF Held
  <1> QED BY <1>2, BooksStay

-----------------------------------------------------------------------------
(* Acknowledged messages stay in order. *)

LEMMA InOrderNone ==
  ASSUME NEW all
  PROVE  Store!InOrder(<<>>, all)
  <1> DEFINE m == [i \in {} |-> 0]
  <1>1. m \in [DOMAIN <<>> -> DOMAIN all] /\ DOMAIN <<>> = {}
    <2>1. DOMAIN <<>> = {}
      OBVIOUS
    <2> QED BY <2>1
  <1> QED BY <1>1 DEF Store!InOrder

LEMMA InOrderMore ==
  ASSUME NEW w \in Nat, NEW some \in Seq(0..w), NEW all \in Seq(0..w), Store!InOrder(some, all),
         NEW n, n = w + 1
  PROVE  Store!InOrder(some, Append(all, n))
  <1> DEFINE more == Append(all, n)
  <1>1. /\ DOMAIN all = 1..Len(all) /\ Len(all) \in Nat /\ DOMAIN more = 1..(Len(all) + 1)
        /\ \A k \in DOMAIN all : more[k] = all[k]
        /\ more[Len(all) + 1] = n
    BY DEF Store!InOrder
  <1>2. \A i \in DOMAIN some : some[i] # n
    BY DEF Store!InOrder
  <1>3. PICK at \in [DOMAIN some -> DOMAIN all] :
           \A i \in DOMAIN some :
             /\ {k \in DOMAIN all : all[k] = some[i]} = {at[i]}
             /\ \A j \in 1..(i - 1) : at[j] < at[i]
    BY DEF Store!InOrder
  <1> HIDE DEF more
  <1>4. at \in [DOMAIN some -> DOMAIN more]
    BY <1>1, <1>3
  <1>5. \A i \in DOMAIN some : {k \in DOMAIN more : more[k] = some[i]} = {at[i]}
    <2> SUFFICES ASSUME NEW i \in DOMAIN some
                 PROVE {k \in DOMAIN more : more[k] = some[i]} = {at[i]}
      OBVIOUS
    <2>1. {k \in DOMAIN all : all[k] = some[i]} = {at[i]} /\ some[i] # n
      BY <1>2, <1>3
    <2>2. \A k \in DOMAIN more : k \in DOMAIN all \/ k = Len(all) + 1
      BY <1>1
    <2>3. DOMAIN all \subseteq DOMAIN more
      BY <1>1
    <2> QED BY <1>1, <2>1, <2>2, <2>3
  <1> QED BY <1>3, <1>4, <1>5 DEF Store!InOrder, more

LEMMA InOrderBoth ==
  ASSUME NEW w \in Nat, NEW some \in Seq(0..w), NEW all \in Seq(0..w), Store!InOrder(some, all),
         NEW n, n = w + 1
  PROVE  Store!InOrder(Append(some, n), Append(all, n))
  <1> DEFINE few == Append(some, n)
             more == Append(all, n)
             L == Len(some)
  <1>1. /\ DOMAIN all = 1..Len(all) /\ Len(all) \in Nat /\ DOMAIN more = 1..(Len(all) + 1)
        /\ \A k \in DOMAIN all : more[k] = all[k] /\ all[k] # n
        /\ more[Len(all) + 1] = n
    OBVIOUS
  <1>2. /\ DOMAIN some = 1..L /\ L \in Nat /\ DOMAIN few = 1..(L + 1)
        /\ \A i \in DOMAIN some : few[i] = some[i] /\ some[i] # n
        /\ few[L + 1] = n
    OBVIOUS
  <1>3. PICK at \in [DOMAIN some -> DOMAIN all] :
           \A i \in DOMAIN some :
             /\ {k \in DOMAIN all : all[k] = some[i]} = {at[i]}
             /\ \A j \in 1..(i - 1) : at[j] < at[i]
    BY DEF Store!InOrder
  <1> HIDE DEF more, few, L
  <1> DEFINE m == [i \in DOMAIN few |-> IF i = L + 1 THEN Len(all) + 1 ELSE at[i]]
  <1>4. m \in [DOMAIN few -> DOMAIN more]
    BY <1>1, <1>2, <1>3
  <1>5. m[L + 1] = Len(all) + 1 /\ \A i \in DOMAIN some : m[i] = at[i] /\ at[i] \in DOMAIN all
    BY <1>2, <1>3
  <1> HIDE DEF m
  <1>6. ASSUME NEW i \in DOMAIN few
        PROVE  /\ {k \in DOMAIN more : more[k] = few[i]} = {m[i]}
               /\ \A j \in 1..(i - 1) : m[j] < m[i]
    <2>2. \A k \in DOMAIN more : k \in DOMAIN all \/ k = Len(all) + 1
      BY <1>1
    <2>3. DOMAIN all \subseteq DOMAIN more /\ Len(all) + 1 \in DOMAIN more
      BY <1>1
    <2>4. CASE i = L + 1
      <3>1. {k \in DOMAIN more : more[k] = few[i]} = {m[i]}
        BY <1>1, <1>2, <1>5, <2>2, <2>3, <2>4
      <3>2. \A j \in 1..(i - 1) : j \in DOMAIN some
        BY <1>2, <2>4
      <3>3. \A k \in DOMAIN all : k < Len(all) + 1
        BY <1>1
      <3> QED BY <1>5, <2>4, <3>1, <3>2, <3>3
    <2>5. CASE i # L + 1
      <3>0. i \in DOMAIN some
        BY <1>2, <2>5
      <3>1. i \in DOMAIN some /\ \A j \in 1..(i - 1) : j \in DOMAIN some
        BY <1>2, <3>0
      <3>2. {k \in DOMAIN all : all[k] = some[i]} = {at[i]}
        BY <1>3, <3>1
      <3>5. few[i] = some[i] /\ some[i] # n /\ m[i] = at[i]
        BY <1>2, <1>5, <3>0
      <3>6. {k \in DOMAIN more : more[k] = some[i]} = {k \in DOMAIN all : all[k] = some[i]}
        BY <1>1, <2>2, <2>3, <3>5
      <3>3. {k \in DOMAIN more : more[k] = few[i]} = {m[i]}
        BY <3>2, <3>5, <3>6
      <3>4. \A j \in 1..(i - 1) : m[j] < m[i]
        BY <1>3, <1>5, <3>1
      <3> QED BY <3>3, <3>4
    <2> QED BY <2>4, <2>5
  <1> QED BY <1>4, <1>6 DEF Store!InOrder, few, more

LEMMA InOrderFirst == Store!InOrder(<<0>>, <<0>>)
  <1> DEFINE m == [i \in 1..1 |-> 1]
  <1>1. m \in [DOMAIN <<0>> -> DOMAIN <<0>>]
    OBVIOUS
  <1>2. \A i \in DOMAIN <<0>> :
          /\ {k \in DOMAIN <<0>> : <<0>>[k] = <<0>>[i]} = {m[i]}
          /\ \A j \in 1..(i - 1) : m[j] < m[i]
    OBVIOUS
  <1> QED BY <1>1, <1>2 DEF Store!InOrder


-----------------------------------------------------------------------------
(* A write to the journal of one session. *)

More(set, here, n) == IF here THEN set \cup {n} ELSE set

\* The file after a record, or part of one, in terms of the file before.
LEMMA FileAfter ==
  ASSUME JournalInv, NEW s \in Recorded, NEW kind \in Store!Kinds, NEW whole \in BOOLEAN,
         NEW nl \in BOOLEAN, nl => whole, NEW n, n = writes + 1,
         NEW g, g = Store!Appended(files[s], [kind |-> kind, n |-> n, whole |-> whole], nl)
  PROVE  /\ g \in Store!File /\ g # None /\ g.ended = nl /\ Numbered(g, n)
         /\ kind # "session" /\ (files[s] # None => Headless(files[s])) => Headless(g)
         /\ s \notin Store!Glue(s) =>
              /\ Neat(g)
              /\ Grows(g, files[s], whole, kind, n)
  <1> DEFINE p == [kind |-> kind, n |-> n, whole |-> whole]
             fl == files[s]
  <1>1. /\ fl \in Store!File \cup {None} /\ writes \in Nat /\ n \in Nat /\ writes <= n
        /\ fl # None => Numbered(fl, writes) /\ (s \notin glued => Neat(fl))
    BY JournalAssumption DEF JournalInv, Store!TypeOK, Books, Paper
  <1>2. p \in Store!Piece /\ p.n <= n /\ p.n = n /\ p.kind = kind /\ p.whole = whole
    BY <1>1 DEF Store!Piece
  <1>3. g = Store!Appended(fl, p, nl)
    OBVIOUS
  <1>4. s \notin Store!Glue(s) => s \notin glued /\ (fl # None => fl.ended = TRUE)
    BY <1>1 DEF Store!Glue, Store!File
  <1> HIDE DEF p, fl
  <1>5. /\ g \in Store!File /\ g # None /\ g.ended = nl /\ Numbered(g, n)
        /\ p.kind # "session" /\ (fl # None => Headless(fl)) => Headless(g)
    BY <1>1, <1>2, <1>3, AppendedShape
  <1>6. ASSUME s \notin Store!Glue(s)
        PROVE  /\ Grows(g, fl, p.whole, p.kind, p.n)
               /\ p.whole = TRUE \/ nl = FALSE => Neat(g)
    <2>1. fl # None => fl.ended = TRUE /\ Neat(fl)
      BY <1>1, <1>4, <1>6
    <2> QED BY <1>1, <1>2, <1>3, <2>1, AppendedNeat
  <1> QED BY <1>2, <1>5, <1>6 DEF fl

\* Adding a number to a sequence adds it to its elements.
LEMMA OneMoreNumber ==
  ASSUME NEW z \in Seq(Nat), NEW n
  PROVE  Store!ToSet(Append(z, n)) = Store!ToSet(z) \cup {n}
  <1>1. /\ DOMAIN z = 1..Len(z) /\ Len(z) \in Nat /\ DOMAIN Append(z, n) = 1..(Len(z) + 1)
        /\ \A i \in 1..Len(z) : Append(z, n)[i] = z[i]
        /\ Append(z, n)[Len(z) + 1] = n
    OBVIOUS
  <1> DEFINE y == Append(z, n)
  <1> HIDE DEF y
  <1>2. /\ DOMAIN z = 1..Len(z) /\ Len(z) \in Nat /\ DOMAIN y = 1..(Len(z) + 1)
        /\ \A i \in 1..Len(z) : y[i] = z[i]
        /\ y[Len(z) + 1] = n
    BY <1>1 DEF y
  <1>3. \A x \in Store!ToSet(y) : x \in Store!ToSet(z) \cup {n}
    <2> SUFFICES ASSUME NEW i \in DOMAIN y PROVE y[i] \in Store!ToSet(z) \cup {n}
      BY DEF Store!ToSet
    <2>1. i \in 1..Len(z) \/ i = Len(z) + 1
      BY <1>2
    <2> QED BY <1>2, <2>1 DEF Store!ToSet
  <1>4. \A x \in Store!ToSet(z) : x \in Store!ToSet(y)
    <2> SUFFICES ASSUME NEW i \in DOMAIN z PROVE z[i] \in Store!ToSet(y)
      BY DEF Store!ToSet
    <2>1. i \in DOMAIN y /\ y[i] = z[i]
      BY <1>2
    <2>2. y[i] \in Store!ToSet(y)
      BY <2>1 DEF Store!ToSet
    <2> QED BY <2>1, <2>2
  <1>5. n \in Store!ToSet(y)
    <2>1. Len(z) + 1 \in DOMAIN y
      BY <1>2
    <2>2. y[Len(z) + 1] \in Store!ToSet(y)
      BY <2>1 DEF Store!ToSet
    <2> QED BY <1>2, <2>2
  <1> QED BY <1>3, <1>4, <1>5 DEF y

\* The session that is written to, when its file got a record and this state.
LEMMA WrittenBooks ==
  ASSUME JournalInv, NEW s \in Recorded, NEW kind \in Store!Kinds, NEW whole \in BOOLEAN,
         NEW nl \in BOOLEAN, nl => whole, writes' = writes + 1,
         files'[s] = Store!Appended(files[s], [kind |-> kind, n |-> writes', whole |-> whole], nl),
         UNCHANGED <<legacy, deleted, spared, redone>>,
         s \in deleted \ (redone \cup spared) => kind # "session" /\ ~(s \in alive'),
         files[s] = None => s \in deleted \/ (kind = "session" /\ s \notin alive \cup Legacy),
         s \in alive => s \in alive',
         ~nl => acked'[s] = acked[s] /\ (s \in alive' <=> s \in alive),
         nl => /\ acked'[s] = IF kind = "message" THEN Append(acked[s], writes') ELSE acked[s]
               /\ s \in alive' \cup deleted,
         s \in glued' <=> s \in Store!Glue(s)
  PROVE  Books(s)' /\ files'[s] \in Store!File /\ acked'[s] \in Seq(Nat)
  <1> DEFINE n == writes'
             fl == files[s]
             g == files'[s]
  <1>1. /\ g \in Store!File /\ g # None /\ g.ended = nl /\ Numbered(g, n)
        /\ kind # "session" /\ (fl # None => Headless(fl)) => Headless(g)
    BY FileAfter
  <1>0. s \notin glued' => Neat(g) /\ Grows(g, fl, whole, kind, n)
    BY FileAfter
  <1>2. s \notin glued' =>
              /\ Neat(g)
              /\ \A k : NumbersOf(g, k) =
                     IF whole /\ kind = k THEN Append(NumbersOf(fl, k), n)
                     ELSE NumbersOf(fl, k)
    <2> HIDE DEF g, fl, n
    <2> QED BY <1>0 DEF Grows
  <1>3. /\ Books(s) /\ writes \in Nat /\ n \in Nat /\ acked[s] \in Seq(0..writes)
        /\ fl \in Store!File \cup {None}
        /\ fl # None => Numbered(fl, writes)
    BY JournalAssumption DEF JournalInv, Store!TypeOK, Books, Told, Paper
  <1>4. s \notin glued' => s \notin glued /\ (fl # None => fl.ended = TRUE)
    BY <1>3 DEF Store!Glue, Store!File
  <1>5. Paper(s)'
    BY <1>1, <1>2 DEF Paper
  <1>6. Gone(s)'
    BY <1>1, <1>3 DEF Books, Gone
  <1>7. Told(s)'
    <2>1. acked[s] \in Seq(0..n) /\ n \in 0..n
      <3>1. 0..writes \subseteq 0..n
        BY <1>3
      <3> QED BY <1>3, <3>1
    <2>2. \A z \in Seq(0..n) : \A x \in 0..n : Append(z, x) \in Seq(0..n)
      OBVIOUS
    <2>3. acked'[s] = acked[s] \/ acked'[s] = Append(acked[s], n)
      OBVIOUS
    <2> HIDE DEF n
    <2>4. acked'[s] \in Seq(0..n)
      BY <2>1, <2>2, <2>3
    <2> QED BY <2>4 DEF Told, n
  <1>8. Unknown(s)'
    <2> SUFFICES ASSUME s \notin alive', s \notin redone, s \notin glued', s \in deleted => s \in spared
                 PROVE  acked'[s] = <<>> /\ g.ended = FALSE
      BY DEF Unknown
    <2>2. s \notin alive /\ s \notin glued
      BY <1>4
    <2>1. ~nl
      <3> SUFFICES ASSUME nl PROVE FALSE
        OBVIOUS
      <3>1. s \in spared /\ fl # None
        BY <1>3 DEF Books, Gone
      <3>2. fl.ended = FALSE /\ fl.ended = TRUE
        BY <1>3, <1>4, <2>2, <3>1 DEF Books, Unknown
      <3> QED BY <3>2
    <2> QED BY <1>1, <1>3, <2>1, <2>2 DEF Books, Unknown
  <1>9. Waits(s)'
    BY <1>1, <1>3 DEF Books, Waits
  <1>10. Safe(s)'
    <2> SUFFICES ASSUME s \in alive', s \notin glued', s \notin redone
                 PROVE  /\ NumbersOf(g, "session") # <<>>
                        /\ Store!InOrder(acked'[s], NumbersOf(g, "message"))
      BY <1>1 DEF Safe
    <2>0. s \in deleted => s \in spared
      OBVIOUS
    <2>1. CASE fl = None
      <3>0. s \notin deleted
        BY <1>3, <2>0, <2>1 DEF Books, Gone
      <3>1. kind = "session" /\ s \notin alive /\ s \notin Legacy /\ s \notin glued
        BY <1>4, <2>1, <3>0
      <3>2. acked[s] = <<>>
        BY <1>3, <3>0, <3>1 DEF Books, Unknown
      <3>3. acked'[s] = <<>> /\ nl
        BY <3>1, <3>2
      <3>4. NumbersOf(g, "session") = Append(NumbersOf(fl, "session"), n)
        BY <1>2, <3>1, <3>3
      <3>5. NumbersOf(fl, "session") = <<>> /\ Append(<<>>, n) # <<>>
        BY <2>1 DEF NumbersOf
      <3> QED BY <3>3, <3>4, <3>5, InOrderNone
    <2>2. CASE fl # None
      <3>1. fl.ended = TRUE /\ s \notin glued
        BY <1>4, <2>2
      <3>2. s \in alive
        BY <1>3, <2>0, <2>2, <3>1 DEF Books, Unknown
      <3>3. NumbersOf(fl, "session") # <<>> /\ Store!InOrder(acked[s], NumbersOf(fl, "message"))
        BY <1>3, <2>2, <3>1, <3>2 DEF Books, Safe
      <3>4. NumbersOf(fl, "message") \in Seq(0..writes) /\ NumbersOf(fl, "session") \in Seq(0..writes)
        <4>1. fl \in Store!File /\ Numbered(fl, writes)
          BY <1>3, <2>2
        <4> HIDE DEF fl
        <4>2. \A k : Store!Numbers(fl, k) \in Seq(0..writes)
          BY <1>3, <4>1, NumbersTyped
        <4> QED BY <2>2, <4>2 DEF NumbersOf
      <3> HIDE DEF n, fl, g
      <3>5. NumbersOf(g, "session") # <<>>
        <4>1. \A z \in Seq(0..writes) : Append(z, n) # <<>>
          OBVIOUS
        <4>2. \/ NumbersOf(g, "session") = NumbersOf(fl, "session")
              \/ NumbersOf(g, "session") = Append(NumbersOf(fl, "session"), n)
          BY <1>2
        <4> QED BY <3>3, <3>4, <4>1, <4>2
      <3>6. n = writes + 1
        BY DEF n
      <3>7. CASE whole /\ kind = "message"
        <4>1. NumbersOf(g, "message") = Append(NumbersOf(fl, "message"), n)
          BY <1>2, <3>7
        <4>2. CASE nl
          <5>1. acked'[s] = Append(acked[s], n)
            BY <3>7, <4>2 DEF n
          <5> QED BY <1>3, <3>3, <3>4, <3>5, <3>6, <4>1, <5>1, InOrderBoth
        <4>3. CASE ~nl
          <5>1. acked'[s] = acked[s]
            BY <4>3
          <5> QED BY <1>3, <3>3, <3>4, <3>5, <3>6, <4>1, <5>1, InOrderMore
        <4> QED BY <4>2, <4>3
      <3>8. CASE ~(whole /\ kind = "message")
        <4>1. NumbersOf(g, "message") = NumbersOf(fl, "message") /\ acked'[s] = acked[s]
          BY <1>2, <3>8
        <4> QED BY <3>3, <3>5, <4>1
      <3> QED BY <3>7, <3>8
    <2> QED BY <2>1, <2>2
  <1>11. acked'[s] \in Seq(Nat)
    <2>1. \A z \in Seq(0..n) : z \in Seq(Nat)
      OBVIOUS
    <2> QED BY <1>7, <2>1 DEF Told
  <1> QED BY <1>1, <1>5, <1>6, <1>7, <1>8, <1>9, <1>10, <1>11 DEF Books


\* The state of the session that is written to, when its file got the record
\* and memory is in step with it.
LEMMA WrittenHeld ==
  ASSUME JournalInv, NEW s \in Recorded, NEW kind \in Store!Kinds, NEW whole \in BOOLEAN,
         NEW nl \in BOOLEAN, nl => whole, NEW n, n = writes + 1,
         files'[s] = Store!Appended(files[s], [kind |-> kind, n |-> n, whole |-> whole], nl),
         UNCHANGED <<deleted, spared, redone>>,
         states'[s] # None => up' = TRUE,
         s \in deleted \ (redone \cup spared) => states'[s] = None,
         s \in glued' <=> s \in Store!Glue(s),
         s \notin glued => Within(states'[s],
              More(NumberSet(files[s], "message"), whole /\ kind = "message", n),
              More(NumberSet(files[s], "telemetry"), whole /\ kind = "telemetry", n))
  PROVE  Held(s)'
  <1>1. /\ files'[s] # None
        /\ s \notin glued' => Grows(files'[s], files[s], whole, kind, n)
    BY FileAfter
  <1>2. /\ files[s] \in Store!File \cup {None} /\ writes \in Nat
        /\ files[s] # None => Numbered(files[s], writes)
    BY JournalAssumption DEF JournalInv, Store!TypeOK, Books, Paper
  <1>3. \A k : NumbersOf(files[s], k) \in Seq(Nat)
    <2>1. CASE files[s] = None
      <3>1. <<>> \in Seq(Nat)
        OBVIOUS
      <3> QED BY <2>1, <3>1 DEF NumbersOf
    <2>2. CASE files[s] # None
      <3>1. \A k : Store!Numbers(files[s], k) \in Seq(0..writes)
        BY <1>2, <2>2, NumbersTyped
      <3>2. \A z \in Seq(0..writes) : z \in Seq(Nat)
        BY <1>2
      <3> QED BY <2>2, <3>1, <3>2 DEF NumbersOf
    <2> QED BY <2>1, <2>2
  <1>4. ASSUME s \notin glued', NEW k
        PROVE  NumberSet(files'[s], k) = More(NumberSet(files[s], k), whole /\ kind = k, n)
    <2>1. NumbersOf(files'[s], k) = IF whole = TRUE /\ kind = k THEN Append(NumbersOf(files[s], k), n)
                                    ELSE NumbersOf(files[s], k)
      BY <1>1, <1>4 DEF Grows
    <2>2. Store!ToSet(Append(NumbersOf(files[s], k), n)) = Store!ToSet(NumbersOf(files[s], k)) \cup {n}
      BY <1>3, OneMoreNumber
    <2> QED BY <2>1, <2>2 DEF NumberSet, More
  <1>5. s \notin glued' => s \notin glued
    BY DEF Store!Glue
  <1>6. s \notin glued' =>
           Within(states'[s], NumberSet(files'[s], "message"), NumberSet(files'[s], "telemetry"))
    BY <1>4, <1>5
  <1> QED BY <1>1, <1>6 DEF Held

LEMMA AppendIInv ==
  ASSUME JournalInv, NEW s \in Recorded, NEW kind \in Store!Kinds,
         NEW st \in Store!State \cup {None}, NEW err \in Store!State \cup {None},
         Store!AppendLine(s, kind, st, err),
         s \in deleted \ (redone \cup spared) => kind # "session" /\ st = None /\ err = None,
         files[s] = None => err = None /\ (s \in deleted \/ (kind = "session" /\ s \notin alive \cup Legacy)),
         st = None => s \in deleted,
         NEW n, n = writes + 1,
         s \notin glued => Within(st,
              More(NumberSet(files[s], "message"), kind = "message", n),
              More(NumberSet(files[s], "telemetry"), kind = "telemetry", n)),
         s \notin glued => Within(err, NumberSet(files[s], "message"), NumberSet(files[s], "telemetry"))
  PROVE  JournalInv'
  <1>0. /\ up = TRUE /\ writes < MaxWrites /\ writes' = n
        /\ UNCHANGED <<legacy, deleted, spared, redone>>
        /\ writes \in Nat /\ n \in 0..MaxWrites
        /\ files \in [Recorded -> Store!File \cup {None}]
        /\ states \in [Recorded -> Store!State \cup {None}]
        /\ acked \in [Recorded -> Seq(Nat)]
        /\ alive \subseteq Recorded /\ deleted \subseteq Recorded /\ spared \subseteq deleted
        /\ glued \subseteq Recorded /\ redone \subseteq Recorded
    BY JournalAssumption DEF Store!AppendLine, JournalInv, Store!TypeOK
  <1>1. \A x \in Recorded : Books(x) /\ Held(x)
    BY DEF JournalInv
  <1>2. s \in deleted \ (redone \cup spared) => s \notin alive
    BY <1>1 DEF Books, Gone
  \* What every outcome comes to.
  <1>3. ASSUME NEW g, files' = [files EXCEPT ![s] = g], g \in Store!File \cup {None},
               NEW z \in Store!State \cup {None},
               (states' = [states EXCEPT ![s] = z] /\ up' = up) \/ (states' = Store!Empty /\ up' = FALSE),
               NEW a \in Seq(Nat), acked' = [acked EXCEPT ![s] = a],
               alive' \in {alive, alive \cup {s}}, glued' \in {glued, glued \cup {s}},
               Books(s)', Held(s)'
        PROVE  JournalInv'
    <2>1. files' \in [Recorded -> Store!File \cup {None}] /\ acked' \in [Recorded -> Seq(Nat)]
      BY <1>0, <1>3
    <2>2. states' \in [Recorded -> Store!State \cup {None}] /\ up' \in BOOLEAN
      BY <1>0, <1>3, ZenonT(30) DEF Store!Empty
    <2>3. ASSUME NEW x \in Recorded, x # s PROVE Books(x)' /\ Held(x)'
      <3>1. /\ files'[x] = files[x] /\ acked'[x] = acked[x]
            /\ x \in alive' <=> x \in alive
            /\ x \in glued' <=> x \in glued
        BY <1>0, <1>3, <2>3
      <3>2. (states'[x] = states[x] /\ up' = up) \/ states'[x] = None
        BY <1>0, <1>3, <2>3 DEF Store!Empty
      <3>3. writes \in Nat /\ writes' \in Nat /\ writes <= writes'
        BY <1>0
      <3> QED BY <1>0, <1>1, <3>1, <3>2, <3>3, OtherJournal
    <2>4. \A x \in Recorded : Books(x)' /\ Held(x)'
      BY <1>3, <2>3
    <2>5. \A x \in Recorded : states'[x] # None => up' /\ files'[x] # None
      BY <2>4 DEF Held
    <2>6. /\ legacy' \in BOOLEAN /\ writes' \in 0..MaxWrites
          /\ alive' \subseteq Recorded /\ deleted' \subseteq Recorded /\ spared' \subseteq deleted'
          /\ glued' \subseteq Recorded /\ redone' \subseteq Recorded
      BY <1>0, <1>3 DEF JournalInv, Store!TypeOK
    <2> QED BY <2>1, <2>2, <2>4, <2>5, <2>6 DEF JournalInv, Store!TypeOK
  <1>4. \/ /\ files' = [files EXCEPT ![s] = Store!Appended(files[s], [kind |-> kind, n |-> n, whole |-> TRUE], TRUE)]
           /\ states' = [states EXCEPT ![s] = st]
           /\ acked' = IF kind = "message" THEN [acked EXCEPT ![s] = Append(acked[s], n)] ELSE acked
           /\ alive' = IF st # None THEN alive \cup {s} ELSE alive
           /\ glued' = Store!Glue(s) /\ up' = up
        \/ \E g \in Store!Torn(s, kind, n) :
             /\ files' = [files EXCEPT ![s] = g]
             /\ glued' = IF g # files[s] THEN Store!Glue(s) ELSE glued
             /\ \/ states' = [states EXCEPT ![s] = err] /\ up' = up
                \/ up' = FALSE /\ states' = Store!Empty
             /\ alive' = alive /\ acked' = acked
    BY <1>0 DEF Store!AppendLine, Store!Rec
  <1>5. Store!Glue(s) \in {glued, glued \cup {s}}
    BY DEF Store!Glue
  <1>6. CASE /\ files' = [files EXCEPT ![s] = Store!Appended(files[s], [kind |-> kind, n |-> n, whole |-> TRUE], TRUE)]
             /\ states' = [states EXCEPT ![s] = st]
             /\ acked' = IF kind = "message" THEN [acked EXCEPT ![s] = Append(acked[s], n)] ELSE acked
             /\ alive' = IF st # None THEN alive \cup {s} ELSE alive
             /\ glued' = Store!Glue(s) /\ up' = up
    <2> DEFINE g == Store!Appended(files[s], [kind |-> kind, n |-> n, whole |-> TRUE], TRUE)
               a == IF kind = "message" THEN Append(acked[s], n) ELSE acked[s]
    <2>1. files'[s] = g /\ states'[s] = st /\ acked'[s] = a
      BY <1>0, <1>6
    <2>2. acked' = [acked EXCEPT ![s] = a] /\ a \in Seq(Nat)
      <3>1. n \in Nat /\ acked[s] \in Seq(Nat) /\ acked = [acked EXCEPT ![s] = acked[s]]
        BY <1>0
      <3>2. Append(acked[s], n) \in Seq(Nat)
        BY <3>1
      <3>3. CASE kind = "message"
        BY <1>6, <3>2, <3>3
      <3>4. CASE kind # "message"
        BY <1>6, <3>1, <3>4
      <3> QED BY <3>3, <3>4
    <2>3. Books(s)' /\ g \in Store!File
      <3>1. /\ s \in deleted \ (redone \cup spared) => kind # "session" /\ ~(s \in alive')
            /\ s \in alive => s \in alive'
            /\ s \in alive' \cup deleted
            /\ s \in glued' <=> s \in Store!Glue(s)
        BY <1>2, <1>6
      <3>2. files'[s] = Store!Appended(files[s], [kind |-> kind, n |-> writes', whole |-> TRUE], TRUE)
        BY <1>0, <2>1
      <3>3. acked'[s] = IF kind = "message" THEN Append(acked[s], writes') ELSE acked[s]
        BY <1>0, <2>1
      <3>4. writes' = writes + 1
        BY <1>0
      <3> HIDE DEF g, a
      <3> QED BY <1>0, <2>1, <3>1, <3>2, <3>3, <3>4, WrittenBooks
    <2>4. Held(s)'
      <3>1. s \notin glued => Within(states'[s],
              More(NumberSet(files[s], "message"), TRUE /\ kind = "message", n),
              More(NumberSet(files[s], "telemetry"), TRUE /\ kind = "telemetry", n))
        BY <2>1 DEF More
      <3> QED BY <1>0, <1>6, <2>1, <3>1, WrittenHeld
    <2>5. alive' \in {alive, alive \cup {s}} /\ glued' \in {glued, glued \cup {s}}
      BY <1>5, <1>6
    <2>6. files' = [files EXCEPT ![s] = g]
      BY <1>6
    <2> HIDE DEF g, a
    <2> QED BY <1>3, <1>6, <2>2, <2>3, <2>4, <2>5, <2>6
  <1>7. ASSUME NEW g \in Store!Torn(s, kind, n), files' = [files EXCEPT ![s] = g],
               glued' = IF g # files[s] THEN Store!Glue(s) ELSE glued,
               (states' = [states EXCEPT ![s] = err] /\ up' = up) \/ (states' = Store!Empty /\ up' = FALSE),
               alive' = alive, acked' = acked
        PROVE  JournalInv'
    <2>1. files'[s] = g /\ states'[s] \in {err, None} /\ acked'[s] = acked[s]
          /\ (states'[s] # None => up' = TRUE /\ states'[s] = err)
      BY <1>0, <1>7 DEF Store!Empty
    <2>2. acked' = [acked EXCEPT ![s] = acked[s]] /\ acked[s] \in Seq(Nat)
      BY <1>0, <1>7
    <2>3. ASSUME g # files[s] PROVE Books(s)' /\ Held(s)' /\ g \in Store!File
      <3>1. PICK whole \in BOOLEAN : g = Store!Appended(files[s], [kind |-> kind, n |-> n, whole |-> whole], FALSE)
        BY <2>3 DEF Store!Torn, Store!Cut, Store!Rec
      <3>2. files'[s] = Store!Appended(files[s], [kind |-> kind, n |-> writes', whole |-> whole], FALSE)
        BY <1>0, <2>1, <3>1
      <3>3. /\ s \in glued' <=> s \in Store!Glue(s)
            /\ s \in deleted \ (redone \cup spared) => kind # "session" /\ ~(s \in alive')
            /\ s \in alive => s \in alive'
            /\ s \in alive' <=> s \in alive
            /\ writes' = writes + 1
        BY <1>0, <1>2, <1>7, <2>3
      <3>4. Books(s)' /\ g \in Store!File
        BY <1>0, <2>1, <3>2, <3>3, WrittenBooks
      <3>5. s \notin glued => Within(states'[s],
              More(NumberSet(files[s], "message"), whole /\ kind = "message", n),
              More(NumberSet(files[s], "telemetry"), whole /\ kind = "telemetry", n))
        BY <2>1 DEF More, Within
      <3>6. s \in deleted \ (redone \cup spared) => states'[s] = None
        BY <2>1
      <3>7. files'[s] = Store!Appended(files[s], [kind |-> kind, n |-> n, whole |-> whole], FALSE)
        BY <2>1, <3>1
      <3>8. n = writes + 1 /\ (states'[s] # None => up' = TRUE)
        BY <2>1
      <3>9. Held(s)'
        <4>1. s \in glued' <=> s \in Store!Glue(s)
          BY <3>3
        <4>2. UNCHANGED <<deleted, spared, redone>> /\ FALSE \in BOOLEAN /\ (FALSE => whole)
          BY <1>0
        <4>3. states'[s] # None => up' = TRUE
          BY <3>8
        <4> QED BY <3>5, <3>6, <3>7, <3>8, <4>1, <4>2, <4>3, WrittenHeld
      <3> QED BY <3>4, <3>9
    <2>4. ASSUME g = files[s] PROVE Books(s)' /\ Held(s)'
      <3>1. /\ Books(s) /\ writes \in Nat /\ writes' \in Nat /\ writes <= writes'
            /\ s \in alive' <=> s \in alive
            /\ s \in glued' <=> s \in glued
        BY <1>0, <1>1, <1>7, <2>4
      <3>2. Books(s)'
        <4> DEFINE z == None
        <4>1. files'[s] = files[s] /\ writes' = writes + 1
          BY <1>0, <2>1, <2>4
        <4> QED BY <1>0, <2>1, <3>1, <4>1, BooksStay
      <3>3. Held(s)'
        BY <1>0, <1>1, <2>1, <2>4, <3>1 DEF Held, Within
      <3> QED BY <3>2, <3>3
    <2>5. g \in Store!File \cup {None} /\ Books(s)' /\ Held(s)'
      BY <1>0, <2>3, <2>4
    <2>6. glued' \in {glued, glued \cup {s}}
      BY <1>5, <1>7
    <2>7. (states' = [states EXCEPT ![s] = err] /\ up' = up) \/ (states' = Store!Empty /\ up' = FALSE)
      BY <1>7
    <2> QED BY <1>3, <1>7, <2>2, <2>5, <2>6, <2>7
  <1> QED BY <1>4, <1>6, <1>7


-----------------------------------------------------------------------------
(* The writes. *)

\* What memory holds of a session that is written to.
LEMMA AtHand ==
  ASSUME JournalInv, NEW s \in Recorded
  PROVE  /\ Held(s) /\ Books(s) /\ states[s] \in Store!State \cup {None}
         /\ writes \in Nat /\ writes + 1 \in Nat /\ states \in [Recorded -> Store!State \cup {None}]
         /\ states[s] # None => s \notin deleted \ (redone \cup spared) /\ files[s] # None
         /\ states[s] = None \/ states[s] \in Store!State
  BY JournalAssumption DEF JournalInv, Store!TypeOK, Held

LEMMA CreateIInv == ASSUME JournalInv, NEW s \in Recorded, Store!CreateSession(s) PROVE JournalInv'
  <1>0. /\ s \notin Legacy /\ s \notin alive \cup deleted /\ files[s] = None
        /\ Store!AppendLine(s, "session", [record |-> writes', messages |-> <<>>, telemetry |-> 0], None)
    BY DEF Store!CreateSession
  <1>1. writes' = writes + 1 /\ writes \in Nat
    BY <1>0, AtHand DEF Store!AppendLine
  <1>2. PICK st \in Store!State : st = [record |-> writes', messages |-> <<>>, telemetry |-> 0]
    <2>1. <<>> \in Seq(Nat)
      OBVIOUS
    <2>2. writes' \in Nat
      BY <1>1
    <2>3. [record |-> writes', messages |-> <<>>, telemetry |-> 0] \in Store!State
      BY <2>1, <2>2 DEF Store!State
    <2> QED BY <2>3
  <1>3. Store!AppendLine(s, "session", st, None) /\ "session" \in Store!Kinds
    BY <1>0, <1>2 DEF Store!Kinds
  <1>4. Store!ToSet(st.messages) = {} /\ st.telemetry = 0
    <2>1. DOMAIN <<>> = {}
      OBVIOUS
    <2> QED BY <1>2, <2>1 DEF Store!ToSet
  <1>5. \A m, z : Within(st, m, z) /\ Within(None, m, z)
    BY <1>4 DEF Within
  <1>6. st # None
    BY JournalAssumption
  <1> QED BY <1>0, <1>1, <1>3, <1>5, <1>6, AppendIInv

\* A message more in memory.
LEMMA MessageIInv == ASSUME JournalInv, NEW s \in Recorded, Store!SaveMessage(s) PROVE JournalInv'
  <1>1. PICK st : /\ st = IF states[s] = None THEN None
                          ELSE [states[s] EXCEPT !.messages = Append(@, writes')]
                  /\ Store!MayWrite(s) /\ Store!AppendLine(s, "message", st, states[s])
    BY DEF Store!SaveMessage
  <1>2. /\ Held(s) /\ writes \in Nat /\ writes' = writes + 1 /\ "message" \in Store!Kinds
        /\ states[s] \in Store!State \cup {None}
        /\ states[s] # None => s \notin deleted \ (redone \cup spared) /\ files[s] # None
    BY <1>1, AtHand DEF Store!AppendLine, Store!Kinds
  <1>3. CASE states[s] = None
    <2>1. st = None /\ s \in deleted /\ Store!AppendLine(s, "message", None, None)
      BY <1>1, <1>3 DEF Store!MayWrite
    <2>2. \A m, z : Within(None, m, z)
      BY DEF Within
    <2> QED BY <1>2, <2>1, <2>2, AppendIInv
  <1>4. CASE states[s] # None
    <2>1. states[s] \in Store!State /\ st = [states[s] EXCEPT !.messages = Append(@, writes')]
      BY <1>1, <1>2, <1>4
    <2>2. /\ st \in Store!State /\ st.messages = Append(states[s].messages, writes')
          /\ st.telemetry = states[s].telemetry /\ states[s].messages \in Seq(Nat)
      <3>1. Append(states[s].messages, writes') \in Seq(Nat) /\ states[s].messages \in Seq(Nat)
        BY <1>2, <2>1 DEF Store!State
      <3>2. writes' \in Nat
        BY <1>2
      <3> QED BY <2>1, <3>1, <3>2 DEF Store!State
    <2>3. Store!ToSet(st.messages) = Store!ToSet(states[s].messages) \cup {writes'}
      BY <2>2, OneMoreNumber
    <2>4. \A m, z : Within(states[s], m, z) => Within(st, m \cup {writes'}, z)
      BY <1>4, <2>2, <2>3 DEF Within
    <2>5. s \notin glued => Within(st,
              More(NumberSet(files[s], "message"), "message" = "message", writes'),
              More(NumberSet(files[s], "telemetry"), "message" = "telemetry", writes'))
      BY <1>2, <2>4 DEF More, Held
    <2>6. s \notin glued => Within(states[s], NumberSet(files[s], "message"), NumberSet(files[s], "telemetry"))
      BY <1>2 DEF Held
    <2>7. st # None
      BY <2>2, JournalAssumption
    <2> QED BY <1>1, <1>2, <1>4, <2>2, <2>5, <2>6, <2>7, AppendIInv
  <1> QED BY <1>3, <1>4

LEMMA TelemetryIInv == ASSUME JournalInv, NEW s \in Recorded, Store!UpdateTelemetry(s) PROVE JournalInv'
  <1>1. PICK st : /\ st = IF states[s] = None THEN None
                          ELSE [states[s] EXCEPT !.telemetry = writes']
                  /\ Store!MayWrite(s) /\ Store!AppendLine(s, "telemetry", st, states[s])
    BY DEF Store!UpdateTelemetry
  <1>2. /\ Held(s) /\ writes \in Nat /\ writes' = writes + 1 /\ "telemetry" \in Store!Kinds
        /\ states[s] \in Store!State \cup {None}
        /\ states[s] # None => s \notin deleted \ (redone \cup spared) /\ files[s] # None
    BY <1>1, AtHand DEF Store!AppendLine, Store!Kinds
  <1>3. CASE states[s] = None
    <2>1. st = None /\ s \in deleted /\ Store!AppendLine(s, "telemetry", None, None)
      BY <1>1, <1>3 DEF Store!MayWrite
    <2>2. \A m, z : Within(None, m, z)
      BY DEF Within
    <2> QED BY <1>2, <2>1, <2>2, AppendIInv
  <1>4. CASE states[s] # None
    <2>1. states[s] \in Store!State /\ st = [states[s] EXCEPT !.telemetry = writes']
      BY <1>1, <1>2, <1>4
    <2>2. st \in Store!State /\ st.messages = states[s].messages /\ st.telemetry = writes'
      <3>1. writes' \in Nat
        BY <1>2
      <3> QED BY <2>1, <3>1 DEF Store!State
    <2>3. \A m, z : Within(states[s], m, z) => Within(st, m, z \cup {writes'})
      BY <1>4, <2>2 DEF Within
    <2>4. s \notin glued => Within(st,
              More(NumberSet(files[s], "message"), "telemetry" = "message", writes'),
              More(NumberSet(files[s], "telemetry"), "telemetry" = "telemetry", writes'))
      BY <1>2, <2>3 DEF More, Held
    <2>5. s \notin glued => Within(states[s], NumberSet(files[s], "message"), NumberSet(files[s], "telemetry"))
      BY <1>2 DEF Held
    <2>6. st # None
      BY <2>2, JournalAssumption
    <2> QED BY <1>1, <1>2, <1>4, <2>2, <2>4, <2>5, <2>6, AppendIInv
  <1> QED BY <1>3, <1>4

LEMMA RecordIInv == ASSUME JournalInv, NEW s \in Recorded, Store!UpdateSession(s) PROVE JournalInv'
  <1>1. PICK st : /\ st = [states[s] EXCEPT !.record = writes']
                  /\ states[s] # None /\ Store!AppendLine(s, "session", st, st)
    BY DEF Store!UpdateSession
  <1>2. /\ Held(s) /\ writes \in Nat /\ writes' = writes + 1 /\ "session" \in Store!Kinds
        /\ states[s] \in Store!State /\ s \notin deleted \ (redone \cup spared) /\ files[s] # None
    BY <1>1, AtHand DEF Store!AppendLine, Store!Kinds
  <1>3. st \in Store!State /\ st.messages = states[s].messages /\ st.telemetry = states[s].telemetry
    <2>1. writes' \in Nat
      BY <1>2
    <2> QED BY <1>1, <1>2, <2>1 DEF Store!State
  <1>4. \A m, z : Within(states[s], m, z) => Within(st, m, z)
    BY <1>1, <1>3 DEF Within
  <1>5. s \notin glued => Within(st, NumberSet(files[s], "message"), NumberSet(files[s], "telemetry"))
    BY <1>2, <1>4 DEF Held
  <1>6. \A m : More(m, "session" = "message", writes') = m /\ More(m, "session" = "telemetry", writes') = m
    BY DEF More
  <1>7. st # None
    BY <1>3, JournalAssumption
  <1> QED BY <1>1, <1>2, <1>3, <1>5, <1>6, <1>7, AppendIInv

-----------------------------------------------------------------------------
(* The other steps. *)

\* The journal goes, or its removal fails and it stays as it is.
LEMMA DeleteIInv == ASSUME JournalInv, NEW s \in Recorded, Store!DeleteSession(s) PROVE JournalInv'
  <1>0. /\ up = TRUE /\ states' = [states EXCEPT ![s] = None] /\ deleted' = deleted \cup {s}
        /\ UNCHANGED <<up, legacy, writes, acked, glued, redone>>
        /\ writes \in Nat /\ files[s] # None /\ s \notin deleted \ (redone \cup spared)
        /\ files \in [Recorded -> Store!File \cup {None}]
        /\ states \in [Recorded -> Store!State \cup {None}]
        /\ alive \subseteq Recorded /\ spared \subseteq deleted
    BY JournalAssumption, AtHand DEF Store!DeleteSession, JournalInv, Store!TypeOK
  <1>1. \A x \in Recorded : Books(x) /\ Held(x)
    BY DEF JournalInv
  <1>2. ASSUME NEW fs \in {files[s], None}, files' = [files EXCEPT ![s] = fs],
               alive' \in {alive, alive \ {s}}, spared' \in {spared \cup {s}, spared \ {s}}, Books(s)'
        PROVE  JournalInv'
    <2>1. states'[s] = None /\ Held(s)'
      BY <1>0 DEF Held, Within
    <2>2. ASSUME NEW x \in Recorded, x # s PROVE Books(x)' /\ Held(x)'
      <3>1. /\ files'[x] = files[x] /\ states'[x] = states[x]
            /\ x \in alive' <=> x \in alive
            /\ x \in deleted' <=> x \in deleted
            /\ x \in spared' <=> x \in spared
        BY <1>0, <1>2, <2>2
      <3>2. Paper(x)' /\ Gone(x)' /\ Unknown(x)' /\ Waits(x)' /\ Told(x)' /\ Safe(x)'
        BY <1>0, <1>1, <3>1 DEF Books, Paper, Gone, Unknown, Waits, Told, Safe
      <3>3. Held(x)'
        BY <1>0, <1>1, <3>1 DEF Held
      <3> QED BY <3>2, <3>3 DEF Books
    <2>3. files' \in [Recorded -> Store!File \cup {None}] /\ states' \in [Recorded -> Store!State \cup {None}]
      BY <1>0, <1>2
    <2>4. \A x \in Recorded : states'[x] # None => up' /\ files'[x] # None
      BY <2>1, <2>2 DEF Held
    <2>5. alive' \subseteq Recorded /\ spared' \subseteq deleted' /\ deleted' \subseteq Recorded
      BY <1>0, <1>2 DEF JournalInv, Store!TypeOK
    <2>6. Store!TypeOK'
      BY <1>0, <2>3, <2>4, <2>5 DEF JournalInv, Store!TypeOK
    <2> QED BY <1>2, <2>1, <2>2, <2>6 DEF JournalInv
  <1>3. CASE /\ files' = [files EXCEPT ![s] = None]
             /\ alive' = alive \ {s} /\ spared' = spared \ {s}
    <2>1. files'[s] = None
      BY <1>0, <1>3
    <2>2. Paper(s)' /\ Gone(s)' /\ Unknown(s)' /\ Waits(s)' /\ Safe(s)'
      BY <1>0, <1>3, <2>1 DEF Paper, Gone, Unknown, Waits, Safe
    <2>3. Told(s)'
      BY <1>0, <1>1 DEF Books, Told
    <2> QED BY <1>2, <1>3, <2>2, <2>3 DEF Books
  <1>4. CASE spared' = spared \cup {s} /\ UNCHANGED <<files, alive>>
    <2>1. files'[s] = files[s] /\ files' = [files EXCEPT ![s] = files[s]]
      BY <1>0, <1>4
    <2>2. Paper(s)' /\ Gone(s)' /\ Unknown(s)' /\ Waits(s)' /\ Told(s)' /\ Safe(s)'
      BY <1>0, <1>1, <1>4, <2>1 DEF Books, Paper, Gone, Unknown, Waits, Told, Safe
    <2> QED BY <1>2, <1>4, <2>1, <2>2 DEF Books
  <1> QED BY <1>3, <1>4 DEF Store!DeleteSession

LEMMA StopIInv == ASSUME JournalInv, Store!Stop PROVE JournalInv'
  <1>1. /\ up' = FALSE /\ states' = [s \in Recorded |-> None]
        /\ UNCHANGED <<legacy, files, writes, alive, deleted, spared, acked, glued, redone>>
    BY DEF Store!Stop, Store!Empty, Store!history
  <1>2. Store!TypeOK'
    BY <1>1 DEF JournalInv, Store!TypeOK
  <1>3. \A s \in Recorded : Books(s)' /\ Held(s)'
    BY <1>1 DEF JournalInv, Books, Paper, Gone, Unknown, Waits, Told, Safe, Held, Within
  <1> QED BY <1>2, <1>3 DEF JournalInv

\* Replay gives what the file holds.
LEMMA ReplayHolds ==
  ASSUME NEW fl \in Store!File \cup {None}, NEW w \in Nat, fl # None => Numbered(fl, w)
  PROVE  /\ Store!Replay(fl) \in Store!State \cup {None}
         /\ Store!Replay(fl) # None => fl # None /\ NumbersOf(fl, "session") # <<>>
         /\ fl # None /\ NumbersOf(fl, "session") # <<>> =>
              Store!Replay(fl) # None /\ Store!Replay(fl).messages = NumbersOf(fl, "message")
         /\ Within(Store!Replay(fl), NumberSet(fl, "message"), NumberSet(fl, "telemetry"))
  <1>1. CASE ~Store!Exists(fl)
    <2>1. Store!Replay(fl) = None
      BY <1>1 DEF Store!Replay
    <2> QED BY <1>1, <2>1 DEF Within, Store!Exists, NumbersOf
  <1>2. CASE Store!Exists(fl)
    <2>1. fl \in Store!File /\ Numbered(fl, w) /\ fl # None
      BY <1>2 DEF Store!Exists
    <2>2. \A k : NumbersOf(fl, k) = Store!Numbers(fl, k) /\ Store!Numbers(fl, k) \in Seq(0..w)
      BY <2>1, NumbersTyped DEF NumbersOf
    <2>3. \A z \in Seq(0..w) : /\ z \in Seq(Nat)
                               /\ z # <<>> => z[Len(z)] \in Nat /\ Len(z) \in DOMAIN z
      OBVIOUS
    <2> DEFINE Last(z) == Store!LastOr(z, 0)
    <2>4. \A z \in Seq(0..w) : Last(z) \in Nat /\ (Last(z) = 0 \/ Last(z) \in Store!ToSet(z))
      <3> SUFFICES ASSUME NEW z \in Seq(0..w)
                   PROVE  Last(z) \in Nat /\ (Last(z) = 0 \/ Last(z) \in Store!ToSet(z))
        OBVIOUS
      <3>1. CASE z = <<>>
        BY <3>1 DEF Store!LastOr
      <3>2. CASE z # <<>>
        <4>1. Last(z) = z[Len(z)]
          BY <3>2 DEF Store!LastOr, Store!Last
        <4> HIDE DEF Last
        <4> QED BY <2>3, <3>2, <4>1 DEF Store!ToSet
      <3> QED BY <3>1, <3>2
    <2>5. Store!Replay(fl) = [record |-> Last(Store!Numbers(fl, "session")),
                              messages |-> Store!Numbers(fl, "message"),
                              telemetry |-> Last(Store!Numbers(fl, "telemetry"))]
      BY <1>2 DEF Store!Replay
    <2> HIDE DEF Last
    <2>6. Store!Replay(fl) \in Store!State
      BY <2>2, <2>3, <2>4, <2>5 DEF Store!State
    <2>7. Store!Replay(fl) # None
      BY <2>6, JournalAssumption
    <2>8. Store!Replay(fl).messages = NumbersOf(fl, "message")
          /\ Store!Replay(fl).telemetry = Last(NumbersOf(fl, "telemetry"))
      BY <2>2, <2>5
    <2>9. Within(Store!Replay(fl), NumberSet(fl, "message"), NumberSet(fl, "telemetry"))
      BY <2>2, <2>4, <2>8 DEF Within, NumberSet
    <2>10. NumbersOf(fl, "session") # <<>>
      BY <1>2, <2>2 DEF Store!Exists
    <2> QED BY <2>1, <2>6, <2>7, <2>8, <2>9, <2>10
  <1> QED BY <1>1, <1>2

\* A start, whether or not it migrates.
LEMMA LoadIInv ==
  ASSUME JournalInv, ~up, NEW fs, fs = files', Store!Load(fs) \/ UNCHANGED <<up, states>>,
         files' \in [Recorded -> Store!File \cup {None}],
         \A s \in Recorded : Books(s)', UNCHANGED <<writes, alive, deleted, spared, acked, glued>>,
         legacy' \in BOOLEAN, redone' \subseteq Recorded
  PROVE  JournalInv'
  <1>0. /\ writes \in Nat /\ states \in [Recorded -> Store!State \cup {None}]
        /\ \A s \in Recorded : states[s] = None
        /\ up \in BOOLEAN
    BY JournalAssumption DEF JournalInv, Store!TypeOK
  <1>1. \/ up' = TRUE /\ states' = [s \in Recorded |-> Store!Replay(files'[s])]
        \/ up' = up /\ states' = states
    BY DEF Store!Load
  <1>2. ASSUME NEW s \in Recorded
        PROVE  Held(s)' /\ states'[s] \in Store!State \cup {None}
    <2>1. CASE up' = up /\ states' = states
      BY <1>0, <2>1 DEF Held, Within
    <2>2. CASE up' = TRUE /\ states' = [x \in Recorded |-> Store!Replay(files'[x])]
      <3> DEFINE fl == files'[s]
      <3>1. states'[s] = Store!Replay(fl) /\ fl \in Store!File \cup {None}
        BY <2>2
      <3>2. fl # None => Numbered(fl, writes)
        BY DEF Books, Paper
      <3>3. s \in deleted' \ (redone' \cup spared') /\ fl # None => NumbersOf(fl, "session") = <<>>
        <4>1. s \in deleted' \ (redone' \cup spared') /\ fl # None => Headless(fl)
          BY DEF Books, Gone
        <4> HIDE DEF fl
        <4> QED BY <3>1, <4>1, HeadlessLost DEF NumbersOf
      <3> HIDE DEF fl
      <3>4. /\ Store!Replay(fl) \in Store!State \cup {None}
            /\ Store!Replay(fl) # None => fl # None /\ NumbersOf(fl, "session") # <<>>
            /\ Within(Store!Replay(fl), NumberSet(fl, "message"), NumberSet(fl, "telemetry"))
        BY <1>0, <3>1, <3>2, ReplayHolds
      <3>5. s \in deleted' \ (redone' \cup spared') => states'[s] = None
        BY <3>1, <3>3, <3>4
      <3> QED BY <2>2, <3>1, <3>4, <3>5 DEF Held, fl
    <2> QED BY <1>1, <2>1, <2>2
  <1>3. states' \in [Recorded -> Store!State \cup {None}] /\ up' \in BOOLEAN
    BY <1>0, <1>1, <1>2
  <1>4. \A s \in Recorded : states'[s] # None => up' /\ files'[s] # None
    BY <1>2 DEF Held
  <1>5. Store!TypeOK'
    BY <1>3, <1>4 DEF JournalInv, Store!TypeOK
  <1> QED BY <1>2, <1>5 DEF JournalInv


\* The files the migration writes.
LEMMA LegacyNumbers ==
  /\ Store!LegacyFile \in Store!File /\ Store!LegacyFile # None /\ Store!LegacyFile.ended = TRUE
  /\ Neat(Store!LegacyFile) /\ ~Headless(Store!LegacyFile)
  /\ \A w \in Nat : Numbered(Store!LegacyFile, w)
  /\ NumbersOf(Store!LegacyFile, "session") # <<>>
  /\ NumbersOf(Store!LegacyFile, "message") = <<0>>
  <1> DEFINE p == Store!Rec("session", 0)
             q == Store!Rec("message", 0)
             one == Store!Appended(None, p, TRUE)
             two == Store!Appended(one, q, TRUE)
  <1>1. p \in Store!Piece /\ q \in Store!Piece
    BY DEF Store!Piece, Store!Kinds, Store!Rec
  <1>2. p.whole = TRUE /\ q.whole = TRUE /\ p.kind = "session" /\ q.kind = "message" /\ p.n = 0 /\ q.n = 0
    BY DEF Store!Rec
  <1>3. Store!LegacyFile = two
    BY DEF Store!LegacyFile
  <1> HIDE DEF p, q
  <1>4. \A w \in Nat : one \in Store!File /\ one # None /\ one.ended = TRUE /\ Numbered(one, w)
    <2> SUFFICES ASSUME NEW w \in Nat
                 PROVE  one \in Store!File /\ one # None /\ one.ended = TRUE /\ Numbered(one, w)
      OBVIOUS
    <2>1. w <= w /\ p.n <= w /\ None \in Store!File \cup {None} /\ TRUE \in BOOLEAN
      BY <1>2
    <2> QED BY <1>1, <2>1, AppendedShape
  <1>5. Neat(one) /\ Grows(one, None, TRUE, "session", 0)
    BY <1>1, <1>2, AppendedNeat
  <1>6. one \in Store!File /\ one # None /\ one.ended = TRUE
    BY <1>4
  <1> HIDE DEF one
  <1>7. \A w \in Nat : two \in Store!File /\ two # None /\ two.ended = TRUE /\ Numbered(two, w)
    <2> SUFFICES ASSUME NEW w \in Nat
                 PROVE  two \in Store!File /\ two # None /\ two.ended = TRUE /\ Numbered(two, w)
      OBVIOUS
    <2>1. w <= w /\ q.n <= w /\ TRUE \in BOOLEAN
      BY <1>2
    <2> QED BY <1>1, <1>4, <2>1, AppendedShape
  <1>8. Neat(two) /\ Grows(two, one, TRUE, "message", 0)
    BY <1>1, <1>2, <1>5, <1>6, AppendedNeat
  <1> HIDE DEF two
  <1>9. NumbersOf(one, "session") = Append(NumbersOf(None, "session"), 0)
        /\ NumbersOf(one, "message") = NumbersOf(None, "message")
    BY <1>5 DEF Grows
  <1>10. NumbersOf(two, "session") = NumbersOf(one, "session")
         /\ NumbersOf(two, "message") = Append(NumbersOf(one, "message"), 0)
    BY <1>8 DEF Grows
  <1>11. \A k : NumbersOf(None, k) = <<>>
    BY DEF NumbersOf
  <1>12. Append(<<>>, 0) = <<0>> /\ <<0>> # <<>>
    OBVIOUS
  <1>13. two \in Store!File /\ two # None
    BY <1>7
  <1>14. ~Headless(two)
    BY <1>9, <1>10, <1>11, <1>12, <1>13, HeadlessLost DEF NumbersOf
  <1> QED BY <1>3, <1>7, <1>8, <1>9, <1>10, <1>11, <1>12, <1>13, <1>14

\* Some of the old sessions were written anew; the old store goes only when
\* all were.
LEMMA MigratedBooks ==
  ASSUME JournalInv, legacy, NEW done \in SUBSET Legacy, Store!MigrateThese(done),
         legacy' = legacy \/ (legacy' = FALSE /\ done = Legacy)
  PROVE  /\ files' \in [Recorded -> Store!File \cup {None}]
         /\ \A s \in Recorded : Books(s)'
         /\ redone' \subseteq Recorded
  <1>0. /\ files' = [s \in Recorded |-> IF s \in done THEN Store!LegacyFile ELSE files[s]]
        /\ redone' = redone \cup {s \in done :
             files[s] # Store!LegacyFile /\ (files[s] # None \/ s \in deleted)}
        /\ UNCHANGED <<writes, alive, deleted, spared, acked, glued>>
        /\ files \in [Recorded -> Store!File \cup {None}] /\ writes \in Nat /\ redone \subseteq Recorded
        /\ Legacy \subseteq Recorded
    BY JournalAssumption DEF Store!MigrateThese, Store!Migrated, JournalInv, Store!TypeOK
  <1>1. files' \in [Recorded -> Store!File \cup {None}] /\ redone' \subseteq Recorded
    BY <1>0, LegacyNumbers
  <1>2. ASSUME NEW s \in Recorded, s \notin done PROVE Books(s)'
    <2>1. files'[s] = files[s] /\ (s \in redone' <=> s \in redone) /\ (s \in Legacy => legacy' = legacy)
      BY <1>0, <1>2
    <2>2. Books(s)
      BY DEF JournalInv
    <2>3. Paper(s)' /\ Gone(s)' /\ Unknown(s)' /\ Told(s)'
      BY <1>0, <2>1, <2>2 DEF Books, Paper, Gone, Unknown, Told
    <2>4. Waits(s)' /\ Safe(s)'
      BY <1>0, <2>1, <2>2 DEF Books, Waits, Safe
    <2> QED BY <2>3, <2>4 DEF Books
  <1>3. ASSUME NEW s \in Recorded, s \in done PROVE Books(s)'
    <2>1. /\ files'[s] = Store!LegacyFile /\ s \in Legacy
          /\ s \notin redone' => s \notin redone /\ (files[s] = Store!LegacyFile \/ (files[s] = None /\ s \notin deleted))
      BY <1>0, <1>3
    <2>2. Books(s)
      BY DEF JournalInv
    <2>3. s \in alive \cup deleted
      BY <2>1, <2>2 DEF Books, Waits
    <2>4. Paper(s)'
      BY <1>0, <2>1, LegacyNumbers DEF Paper
    <2>5. Gone(s)'
      BY <1>0, <2>1, <2>2, LegacyNumbers DEF Books, Gone
    <2>6. Unknown(s)' /\ Told(s)' /\ Waits(s)'
      BY <1>0, <2>1, <2>2, <2>3, LegacyNumbers DEF Books, Unknown, Told, Waits
    <2>7. Safe(s)'
      <3> SUFFICES ASSUME s \in alive, s \notin glued, s \notin redone'
                   PROVE  Store!InOrder(acked[s], <<0>>)
        BY <1>0, <2>1, LegacyNumbers DEF Safe
      <3>1. CASE files[s] = Store!LegacyFile
        BY <2>1, <2>2, <3>1, LegacyNumbers DEF Books, Safe
      <3>2. CASE files[s] = None /\ s \notin deleted
        <4>1. acked[s] = <<0>>
          BY <2>1, <2>2, <3>2 DEF Books, Waits
        <4> QED BY <4>1, InOrderFirst
      <3> QED BY <2>1, <3>1, <3>2
    <2> QED BY <2>4, <2>5, <2>6, <2>7 DEF Books
  <1> QED BY <1>1, <1>2, <1>3

LEMMA StartIInv ==
  ASSUME JournalInv,
         Store!Start \/ Store!Migrate \/ Store!MigrationFails \/ Store!MigrationCrashes
  PROVE  JournalInv'
  <1>0. /\ legacy \in BOOLEAN /\ files \in [Recorded -> Store!File \cup {None}] /\ redone \subseteq Recorded
        /\ \A s \in Recorded : Books(s)
    BY DEF JournalInv, Store!TypeOK
  <1>1. CASE Store!Start
    <2>1. /\ ~up /\ Store!Load(files') /\ legacy' = legacy /\ files' = files /\ redone' = redone
          /\ UNCHANGED <<writes, alive, deleted, spared, acked, glued>>
      BY <1>1 DEF Store!Start, Store!history
    <2>2. \A s \in Recorded : Books(s)'
      BY <1>0, <2>1 DEF Books, Paper, Gone, Unknown, Waits, Told, Safe
    <2> QED BY <1>0, <2>1, <2>2, LoadIInv
  <1>2. ASSUME NEW done \in SUBSET Legacy, Store!MigrateThese(done), ~up, legacy,
               legacy' = legacy \/ (legacy' = FALSE /\ done = Legacy),
               Store!Load(files') \/ UNCHANGED <<up, states>>
        PROVE  JournalInv'
    <2>1. UNCHANGED <<writes, alive, deleted, spared, acked, glued>>
      BY <1>2 DEF Store!MigrateThese
    <2>2. /\ files' \in [Recorded -> Store!File \cup {None}]
          /\ \A s \in Recorded : Books(s)'
          /\ redone' \subseteq Recorded
      BY <1>2, MigratedBooks
    <2>3. legacy' \in BOOLEAN
      BY <1>0, <1>2
    <2> QED BY <1>2, <2>1, <2>2, <2>3, LoadIInv
  <1>3. CASE Store!Migrate
    <2>1. Legacy \in SUBSET Legacy
      OBVIOUS
    <2> QED BY <1>2, <1>3, <2>1 DEF Store!Migrate, Store!MayMigrate
  <1>4. CASE Store!MigrationFails
    BY <1>2, <1>4 DEF Store!MigrationFails, Store!MayMigrate
  <1>5. CASE Store!MigrationCrashes
    BY <1>2, <1>5 DEF Store!MigrationCrashes, Store!MayMigrate
  <1> QED BY <1>1, <1>3, <1>4, <1>5

LEMMA JournalInit == Store!Init => JournalInv
  <1> SUFFICES ASSUME Store!Init PROVE JournalInv
    OBVIOUS
  <1>1. /\ up = FALSE /\ legacy \in BOOLEAN /\ writes = 0 /\ deleted = {} /\ spared = {} /\ glued = {} /\ redone = {}
        /\ files = [s \in Recorded |-> None] /\ states = [s \in Recorded |-> None]
        /\ alive = (IF legacy THEN Legacy ELSE {})
        /\ acked = [s \in Recorded |-> IF legacy /\ s \in Legacy THEN <<0>> ELSE <<>>]
    BY DEF Store!Init
  <1>2. <<0>> \in Seq(0..0) /\ <<>> \in Seq(0..0) /\ <<0>> \in Seq(Nat) /\ <<>> \in Seq(Nat)
    OBVIOUS
  <1>3. Store!TypeOK
    <2>1. acked \in [Recorded -> Seq(Nat)]
      BY <1>1, <1>2
    <2>2. files \in [Recorded -> Store!File \cup {None}] /\ states \in [Recorded -> Store!State \cup {None}]
      BY <1>1
    <2>3. \A s \in Recorded : states[s] = None
      BY <1>1
    <2>4. alive \subseteq Recorded /\ 0 \in 0..MaxWrites
      BY <1>1, JournalAssumption
    <2> QED BY <1>1, <2>1, <2>2, <2>3, <2>4 DEF Store!TypeOK
  <1>4. ASSUME NEW s \in Recorded PROVE Books(s) /\ Held(s)
    <2>1. files[s] = None /\ states[s] = None
      BY <1>1
    <2>2. Told(s)
      BY <1>1, <1>2 DEF Told
    <2>3. Unknown(s)
      BY <1>1, <2>1 DEF Unknown
    <2>4. Waits(s) /\ Safe(s)
      BY <1>1, <2>1 DEF Waits, Safe
    <2> QED BY <1>1, <2>1, <2>2, <2>3, <2>4 DEF Books, Paper, Gone, Held, Within
  <1> QED BY <1>3, <1>4 DEF JournalInv

LEMMA JournalNext == JournalInv /\ [Store!Next]_(Store!vars) => JournalInv'
  <1> SUFFICES ASSUME JournalInv, [Store!Next]_(Store!vars) PROVE JournalInv'
    OBVIOUS
  <1>1. CASE UNCHANGED Store!vars
    <2>1. UNCHANGED <<up, legacy, files, states, writes, alive, deleted, spared, acked, glued, redone>>
      BY <1>1 DEF Store!vars, Store!history
    <2> QED BY <2>1 DEF JournalInv, Store!TypeOK, Books, Paper, Gone, Unknown, Waits, Told, Safe, Held
  <1>2. ASSUME NEW s \in Recorded,
               \/ Store!CreateSession(s) \/ Store!SaveMessage(s) \/ Store!UpdateTelemetry(s)
               \/ Store!UpdateSession(s) \/ Store!DeleteSession(s)
        PROVE  JournalInv'
    BY <1>2, CreateIInv, MessageIInv, TelemetryIInv, RecordIInv, DeleteIInv
  <1> QED BY <1>1, <1>2, StartIInv, StopIInv DEF Store!Next

\* What the invariant says of a journal that can be read.
LEMMA JournalWord ==
  JournalInv => /\ Store!TypeOK /\ Store!AckedSurvives /\ Store!MemoryNotAhead
                /\ Store!DeletedStaysDeleted
  <1> SUFFICES ASSUME JournalInv
               PROVE  Store!AckedSurvives /\ Store!MemoryNotAhead /\ Store!DeletedStaysDeleted
    BY DEF JournalInv
  <1>0. /\ files \in [Recorded -> Store!File \cup {None}] /\ writes \in Nat
        /\ alive \subseteq Recorded /\ deleted \subseteq Recorded /\ spared \subseteq deleted
        /\ \A s \in Recorded : Books(s) /\ Held(s)
    BY JournalAssumption DEF JournalInv, Store!TypeOK
  <1>1. ASSUME NEW s \in alive \ (glued \cup redone) PROVE Store!Kept(s)
    <2>1. s \in Recorded /\ Safe(s) /\ Paper(s) /\ files[s] \in Store!File \cup {None}
      BY <1>0 DEF Books
    <2>2. CASE legacy /\ s \in Legacy /\ files[s] = None
      BY <2>2 DEF Store!Kept
    <2>3. CASE ~(legacy /\ s \in Legacy /\ files[s] = None)
      <3>1. /\ files[s] # None /\ NumbersOf(files[s], "session") # <<>>
            /\ Store!InOrder(acked[s], NumbersOf(files[s], "message"))
        BY <2>1, <2>3 DEF Safe
      <3>2. /\ Store!Replay(files[s]) # None
            /\ Store!Replay(files[s]).messages = NumbersOf(files[s], "message")
        BY <1>0, <2>1, <3>1, ReplayHolds DEF Paper
      <3>3. Store!Readable(files[s])
        <4>1. Neat(files[s])
          BY <2>1, <3>1 DEF Paper
        <4> QED BY <4>1 DEF Neat, Store!Readable, Store!Parses
      <3> QED BY <3>1, <3>2, <3>3 DEF Store!Kept
    <2> QED BY <2>2, <2>3
  <1>2. Store!MemoryNotAhead
    <2> SUFFICES ASSUME NEW s \in Recorded \ glued, states[s] # None
                 PROVE  /\ Store!ToSet(states[s].messages) \subseteq Store!ToSet(Store!Numbers(files[s], "message"))
                        /\ \/ states[s].telemetry = 0
                           \/ states[s].telemetry \in Store!ToSet(Store!Numbers(files[s], "telemetry"))
      BY DEF Store!MemoryNotAhead
    <2>1. Within(states[s], NumberSet(files[s], "message"), NumberSet(files[s], "telemetry")) /\ files[s] # None
      BY <1>0 DEF Held
    <2> QED BY <2>1 DEF Within, NumberSet, NumbersOf
  <1>3. Store!DeletedStaysDeleted
    BY <1>0 DEF Held, Store!DeletedStaysDeleted
  <1> QED BY <1>1, <1>2, <1>3 DEF Store!AckedSurvives

LEMMA StoreAlone == Spec => Store!Spec
  <1>1. Init => Store!Init
    BY DEF Init
  <1>2. [Next]_<<memory, historyVars, journalVars, checkpointVars>> => [Store!Next]_(Store!vars)
    BY DEF Next, journalVars, Store!vars, Store!history
  <1> QED BY <1>1, <1>2, PTL DEF Spec, Store!Spec

\* A message whose save returned is read again after any failed appends,
\* crashes, restarts and half migrations, memory is never ahead of the disk,
\* and a deleted session does not come back, but for journals that were
\* glued or migrated again, or that a deletion could not remove.
THEOREM JournalKeepsItsWordHolds == Spec => []JournalKeepsItsWord
  <1>1. Store!Spec => []JournalInv
    BY JournalInit, JournalNext, PTL DEF Store!Spec
  <1>2. JournalInv => JournalKeepsItsWord
    BY JournalWord DEF JournalKeepsItsWord
  <1> QED BY <1>1, <1>2, StoreAlone, PTL
==================================================================================
