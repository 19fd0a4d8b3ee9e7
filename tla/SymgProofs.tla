----------------------------- MODULE SymgProofs ----------------------------
(***************************************************************************)
(* Proofs about Symg for any set of cursors, any symMap and any number of  *)
(* libraries: no two symbols share a Go name, customised symbols get the   *)
(* names asked for, a suffix is the rank of its symbol among those that    *)
(* want the name, and what is in the table can be linked.                  *)
(***************************************************************************)
EXTENDS SymgSafety, WellFoundedInduction, FiniteSetTheorems, TLAPS

(* What the distinctness of names rests on: a suffix never turns one of    *)
(* the names wanted into another one, or into one that is its own.         *)
SuffixApart ==
  \A d, e \in Cursor, k, l \in Nat \ {0} :
     SuffixCount(Wanted(d).name, k) = SuffixCount(Wanted(e).name, l)
       => Wanted(d).name = Wanted(e).name /\ k = l

(* The queue has one entry for each collected symbol; the sort only        *)
(* happens before the first entry is named.                                *)
QueueInv ==
  /\ queue \in Seq(Cursor)
  /\ \A i, j \in DOMAIN queue : queue[i].sym = queue[j].sym => i = j
  /\ DOMAIN symbolMap = {queue[i].sym : i \in DOMAIN queue}
  /\ at \in 1..Len(queue) + 1
  /\ phase = "visit" => at = 1
  /\ \A i \in DOMAIN queue : i >= at => symbolMap[queue[i].sym] = Unnamed

(* What the sort is for: the customised entries are the first.             *)
CustomAhead ==
  \A i, j \in DOMAIN queue : i < j /\ Custom(queue[j].sym) => Custom(queue[i].sym)

(* An entry that has been named is "-" or has the number of one of the     *)
(* counted users of the name it wants.                                     *)
IsNumbered(i) ==
  /\ Wanted(queue[i]) \in DOMAIN nameCounts
  /\ \E k \in 1..nameCounts[Wanted(queue[i])] :
        symbolMap[queue[i].sym] = Numbered(Wanted(queue[i]), k)
NameInv ==
  /\ \A g \in DOMAIN nameCounts : nameCounts[g] \in Nat \ {0}
  /\ \A i \in 1..at - 1 :
        IF Ignore(queue[i].sym) THEN symbolMap[queue[i].sym] = Ignored ELSE IsNumbered(i)
  /\ \A i, j \in 1..at - 1 :
        (~Ignore(queue[i].sym) /\ ~Ignore(queue[j].sym)
           /\ symbolMap[queue[i].sym] = symbolMap[queue[j].sym]) => i = j

-----------------------------------------------------------------------------
(* Bind changes one key and no other.                                      *)
LEMMA BindFacts ==
  \A f, k, v : /\ Bind(f, k, v)[k] = v
               /\ \A x : x \in DOMAIN Bind(f, k, v) <=> x \in DOMAIN f \/ x = k
               /\ \A x \in DOMAIN f : x # k => Bind(f, k, v)[x] = f[x]
  BY DEF Bind

(* Two numbered names are equal only when they are one user of one name.   *)
LEMMA NumberedApart ==
  ASSUME SuffixApart, NEW d \in Cursor, NEW e \in Cursor,
         NEW k \in Nat \ {0}, NEW l \in Nat \ {0},
         Numbered(Wanted(d), k) = Numbered(Wanted(e), l)
  PROVE  Wanted(d) = Wanted(e) /\ k = l
<1>1. \A c \in Cursor : \E r, cl, n : Wanted(c) = [recv |-> r, class |-> cl, name |-> n]
  BY DEF Wanted, GenMethodName, GoFunc, Plain
<1>2. PICK r1, c1, n1 : Wanted(d) = [recv |-> r1, class |-> c1, name |-> n1]
  BY <1>1
<1>3. PICK r2, c2, n2 : Wanted(e) = [recv |-> r2, class |-> c2, name |-> n2]
  BY <1>1
<1>4. Numbered(Wanted(d), k) = [recv |-> r1, class |-> c1, name |-> SuffixCount(n1, k)]
  BY <1>2 DEF Numbered
<1>5. Numbered(Wanted(e), l) = [recv |-> r2, class |-> c2, name |-> SuffixCount(n2, l)]
  BY <1>3 DEF Numbered
<1>6. r1 = r2 /\ c1 = c2 /\ SuffixCount(n1, k) = SuffixCount(n2, l)
  <2> DEFINE a == Numbered(Wanted(d), k)
             b == Numbered(Wanted(e), l)
  <2>1. a.recv = r1 /\ a.class = c1 /\ a.name = SuffixCount(n1, k)
    BY <1>4
  <2>2. b.recv = r2 /\ b.class = c2 /\ b.name = SuffixCount(n2, l)
    BY <1>5
  <2>3. a = b
    OBVIOUS
  <2> QED
    BY <2>1, <2>2, <2>3
<1>7. Wanted(d).name = n1 /\ Wanted(e).name = n2
  BY <1>2, <1>3
<1>8. n1 = n2 /\ k = l
  BY <1>6, <1>7 DEF SuffixApart
<1> QED
  BY <1>2, <1>3, <1>6, <1>8

-----------------------------------------------------------------------------
LEMMA InitIInv == Init => QueueInv /\ NameInv
<1> SUFFICES ASSUME Init PROVE QueueInv /\ NameInv
  OBVIOUS
<1>1. DOMAIN queue = {} /\ Len(queue) = 0 /\ queue \in Seq(Cursor)
  BY DEF Init
<1>2. DOMAIN symbolMap = {} /\ DOMAIN nameCounts = {} /\ at = 1
  BY DEF Init, Empty
<1>3. QueueInv
  BY <1>1, <1>2 DEF QueueInv
<1>4. NameInv
  BY <1>2 DEF NameInv
<1> QED
  BY <1>3, <1>4

(* A visited cursor is appended only when its symbol is new.               *)
LEMMA VisitQueue ==
  ASSUME QueueInv, NEW d \in Cursor, Visit(d)
  PROVE  QueueInv'
<1>1. at = 1 /\ at' = at /\ phase' = phase /\ phase = "visit"
  BY DEF Visit, QueueInv
<1>2. CASE Collected(d) /\ d.sym \notin DOMAIN symbolMap
  <2>1. queue' = Append(queue, d) /\ symbolMap' = Bind(symbolMap, d.sym, Unnamed)
    BY <1>2 DEF Visit
  <2>2. /\ queue' \in Seq(Cursor) /\ Len(queue') = Len(queue) + 1
        /\ DOMAIN queue' = 1..Len(queue) + 1 /\ DOMAIN queue = 1..Len(queue)
        /\ queue'[Len(queue) + 1] = d
        /\ \A i \in 1..Len(queue) : queue'[i] = queue[i]
        /\ Len(queue) \in Nat
    BY <2>1 DEF QueueInv
  <2>3. \A i \in 1..Len(queue) : queue[i].sym \in DOMAIN symbolMap /\ queue[i].sym # d.sym
    BY <1>2, <2>2 DEF QueueInv
  <2>4. \A i, j \in DOMAIN queue' : queue'[i].sym = queue'[j].sym => i = j
    BY <2>2, <2>3 DEF QueueInv
  <2>5. /\ DOMAIN symbolMap' = DOMAIN symbolMap \cup {d.sym}
        /\ symbolMap'[d.sym] = Unnamed
        /\ \A x \in DOMAIN symbolMap : x # d.sym => symbolMap'[x] = symbolMap[x]
    <3>1. /\ \A x : x \in DOMAIN symbolMap' <=> x \in DOMAIN symbolMap \/ x = d.sym
          /\ symbolMap'[d.sym] = Unnamed
          /\ \A x \in DOMAIN symbolMap : x # d.sym => symbolMap'[x] = symbolMap[x]
      BY <2>1, BindFacts
    <3> QED
      BY <3>1
  <2>6. {queue'[i].sym : i \in DOMAIN queue'} = {queue[i].sym : i \in DOMAIN queue} \cup {d.sym}
    BY <2>2
  <2>7. \A i \in DOMAIN queue' : symbolMap'[queue'[i].sym] = Unnamed
    <3> TAKE i \in DOMAIN queue'
    <3>1. CASE i = Len(queue) + 1
      BY <3>1, <2>2, <2>5
    <3>2. CASE i # Len(queue) + 1
      <4>1. i \in 1..Len(queue) /\ i >= at
        BY <3>2, <2>2, <1>1
      <4>2. symbolMap[queue[i].sym] = Unnamed
        BY <4>1, <2>2 DEF QueueInv
      <4>3. symbolMap'[queue[i].sym] = symbolMap[queue[i].sym]
        BY <4>1, <2>3, <2>5
      <4> QED
        BY <4>1, <4>2, <4>3, <2>2
    <3> QED
      BY <3>1, <3>2
  <2> QED
    BY <1>1, <2>2, <2>4, <2>5, <2>6, <2>7 DEF QueueInv
<1>3. CASE ~(Collected(d) /\ d.sym \notin DOMAIN symbolMap)
  <2>1. queue' = queue /\ symbolMap' = symbolMap
    BY <1>3 DEF Visit
  <2> QED
    BY <1>1, <2>1 DEF QueueInv, Unnamed, Plain, GoFunc
<1> QED
  BY <1>2, <1>3

(* The sort permutes the entries before any of them is named.              *)
LEMMA EndVisitQueue ==
  ASSUME QueueInv, EndVisit
  PROVE  QueueInv' /\ CustomAhead'
<1>1. at = 1 /\ at' = 1 /\ symbolMap' = symbolMap /\ phase' = "name"
  BY DEF EndVisit, QueueInv
<1>2. PICK r \in CustomFirst(queue) : queue' = [i \in DOMAIN queue |-> queue[r[i]]]
  BY DEF EndVisit
<1>3. /\ r \in [DOMAIN queue -> DOMAIN queue]
      /\ \A k \in DOMAIN queue : \E i \in DOMAIN queue : r[i] = k
  BY DEF CustomFirst, Orders
<1>4. /\ queue \in Seq(Cursor) /\ DOMAIN queue = 1..Len(queue) /\ Len(queue) \in Nat
      /\ \A i \in DOMAIN queue : queue[i] \in Cursor
  BY DEF QueueInv
<1>5. \A i, j \in DOMAIN queue : i < j => r[i] # r[j]
  <2> TAKE i, j \in DOMAIN queue
  <2>1. SUFFICES ASSUME i < j, r[i] = r[j] PROVE FALSE
    OBVIOUS
  <2>2. \/ Custom(queue[r[i]].sym) /\ ~Custom(queue[r[j]].sym)
        \/ r[i] < r[j]
    BY <2>1 DEF CustomFirst
  <2>3. r[i] \in Nat
    BY <1>3, <1>4
  <2> QED
    BY <2>1, <2>2, <2>3
<1>6. \A i, j \in DOMAIN queue : r[i] = r[j] => i = j
  BY <1>4, <1>5
<1>7. queue' \in Seq(Cursor) /\ DOMAIN queue' = DOMAIN queue /\ Len(queue') = Len(queue)
  BY <1>2, <1>3, <1>4
<1>8. \A i \in DOMAIN queue' : queue'[i] = queue[r[i]] /\ r[i] \in DOMAIN queue
  BY <1>2, <1>3, <1>7
<1>9. \A i, j \in DOMAIN queue' : queue'[i].sym = queue'[j].sym => i = j
  <2> TAKE i, j \in DOMAIN queue'
  <2> HAVE queue'[i].sym = queue'[j].sym
  <2>1. r[i] = r[j]
    BY <1>8 DEF QueueInv
  <2> QED
    BY <2>1, <1>6, <1>7
<1>10. {queue'[i].sym : i \in DOMAIN queue'} = {queue[i].sym : i \in DOMAIN queue}
  <2>1. \A i \in DOMAIN queue' : queue'[i].sym = queue[r[i]].sym /\ r[i] \in DOMAIN queue
    BY <1>8
  <2>2. \A k \in DOMAIN queue : \E i \in DOMAIN queue' : queue[k].sym = queue'[i].sym
    <3> TAKE k \in DOMAIN queue
    <3>1. PICK i \in DOMAIN queue : r[i] = k
      BY <1>3
    <3> QED
      BY <3>1, <1>7, <2>1
  <2> QED
    BY <2>1, <2>2
<1>11. \A i \in DOMAIN queue' : symbolMap'[queue'[i].sym] = Unnamed
  <2> TAKE i \in DOMAIN queue'
  <2>1. r[i] \in DOMAIN queue /\ r[i] >= 1
    BY <1>8, <1>4
  <2> QED
    BY <2>1, <1>1, <1>8 DEF QueueInv
<1>12. QueueInv'
  BY <1>1, <1>4, <1>7, <1>9, <1>10, <1>11 DEF QueueInv
<1>13. CustomAhead'
  <2> SUFFICES ASSUME NEW i \in DOMAIN queue', NEW j \in DOMAIN queue', i < j, Custom(queue'[j].sym)
               PROVE  Custom(queue'[i].sym)
    BY DEF CustomAhead
  <2>1. Custom(queue[r[j]].sym) /\ queue'[i] = queue[r[i]]
    BY <1>8
  <2>2. \/ Custom(queue[r[i]].sym) /\ ~Custom(queue[r[j]].sym)
        \/ Custom(queue[r[i]].sym) <=> Custom(queue[r[j]].sym)
    BY <1>7 DEF CustomFirst
  <2> QED
    BY <2>1, <2>2
<1> QED
  BY <1>12, <1>13

(* Naming an entry changes the name of its symbol and no other.            *)
LEMMA NameNextQueue ==
  ASSUME QueueInv, NameNext
  PROVE  /\ QueueInv'
         /\ \A i \in DOMAIN queue : i # at => symbolMap'[queue[i].sym] = symbolMap[queue[i].sym]
<1> DEFINE d == queue[at]
<1>1. /\ phase = "name" /\ phase' = phase /\ queue' = queue /\ at' = at + 1 /\ at \in DOMAIN queue
      /\ DOMAIN queue = 1..Len(queue) /\ Len(queue) \in Nat /\ at \in Nat \ {0}
      /\ NameIt(d)
  BY DEF NameNext, QueueInv
<1>2. \A i \in DOMAIN queue : queue[i] \in Cursor /\ queue[i].sym \in DOMAIN symbolMap
  BY DEF QueueInv
<1>3. d \in Cursor /\ d.sym \in DOMAIN symbolMap
  BY <1>1, <1>2
<1>4. \A i \in DOMAIN queue : i # at => queue[i].sym # d.sym
  BY <1>1 DEF QueueInv
<1>5. \E g : symbolMap' = Bind(symbolMap, d.sym, g)
  BY <1>1 DEF NameIt
<1>6. /\ \A x : x \in DOMAIN symbolMap' <=> x \in DOMAIN symbolMap
      /\ \A x \in DOMAIN symbolMap : x # d.sym => symbolMap'[x] = symbolMap[x]
  BY <1>3, <1>5, BindFacts
<1>7. \A i \in DOMAIN queue : i # at => symbolMap'[queue[i].sym] = symbolMap[queue[i].sym]
  BY <1>2, <1>4, <1>6
<1>8. DOMAIN symbolMap' = {queue[i].sym : i \in DOMAIN queue}
  <2>1. DOMAIN symbolMap = {queue[i].sym : i \in DOMAIN queue}
    BY DEF QueueInv
  <2> QED
    BY <2>1, <1>6
<1>9. \A i \in DOMAIN queue : i >= at + 1 => symbolMap'[queue[i].sym] = Unnamed
  BY <1>1, <1>7 DEF QueueInv
<1>10. QueueInv'
  BY <1>1, <1>8, <1>9 DEF QueueInv, Unnamed, Plain, GoFunc
<1> QED
  BY <1>7, <1>10

(* The next entry gets a number none of the users of its name has.         *)
LEMMA NameNextNames ==
  ASSUME SuffixApart, QueueInv, NameInv, NameNext
  PROVE  NameInv'
<1> DEFINE d == queue[at]
           w == Wanted(d)
           k == Users(w) + 1
<1>1. /\ queue' = queue /\ at' = at + 1 /\ at \in DOMAIN queue
      /\ DOMAIN queue = 1..Len(queue) /\ Len(queue) \in Nat /\ at \in Nat \ {0}
      /\ NameIt(d)
  BY DEF NameNext, QueueInv
<1>2. \A i \in DOMAIN queue : queue[i] \in Cursor /\ queue[i].sym \in DOMAIN symbolMap
  BY DEF QueueInv
<1>3. d \in Cursor
  BY <1>1, <1>2
<1>5. k \in Nat \ {0} /\ Users(w) \in Nat
  BY DEF Users, NameInv
<1>8. \A i \in DOMAIN queue : i # at => symbolMap'[queue[i].sym] = symbolMap[queue[i].sym]
  BY NameNextQueue
<1>10. CASE Ignore(d.sym)
  <2>1. nameCounts' = nameCounts /\ symbolMap' = Bind(symbolMap, d.sym, Ignored)
    BY <1>1, <1>10 DEF NameIt
  <2>2. symbolMap'[d.sym] = Ignored
    BY <2>1, BindFacts
  <2>3. \A i \in 1..at : IF Ignore(queue[i].sym) THEN symbolMap'[queue[i].sym] = Ignored
                         ELSE i < at /\ IsNumbered(i) /\ symbolMap'[queue[i].sym] = symbolMap[queue[i].sym]
    <3> TAKE i \in 1..at
    <3>1. CASE i = at
      BY <3>1, <2>2, <1>10
    <3>2. CASE i # at
      <4>1. i \in 1..at - 1 /\ i \in DOMAIN queue
        BY <3>2, <1>1
      <4>2. IF Ignore(queue[i].sym) THEN symbolMap[queue[i].sym] = Ignored ELSE IsNumbered(i)
        BY <4>1 DEF NameInv
      <4>3. symbolMap'[queue[i].sym] = symbolMap[queue[i].sym] /\ i < at
        BY <4>1, <3>2, <1>1, <1>8
      <4> QED
        BY <4>2, <4>3
    <3> QED
      BY <3>1, <3>2
  <2>4. \A i \in 1..at : IF Ignore(queue[i].sym) THEN symbolMap'[queue[i].sym] = Ignored
                         ELSE IsNumbered(i)'
    BY <2>1, <2>3, <1>1 DEF IsNumbered
  <2>5. \A i, j \in 1..at :
          (~Ignore(queue[i].sym) /\ ~Ignore(queue[j].sym)
             /\ symbolMap'[queue[i].sym] = symbolMap'[queue[j].sym]) => i = j
    BY <2>3, <1>1 DEF NameInv
  <2> QED
    BY <1>1, <2>1, <2>4, <2>5 DEF NameInv
<1>11. CASE ~Ignore(d.sym)
  <2>1. nameCounts' = Bind(nameCounts, w, k) /\ symbolMap' = Bind(symbolMap, d.sym, Numbered(w, k))
    BY <1>1, <1>11 DEF NameIt
  <2>2. symbolMap'[d.sym] = Numbered(w, k)
    BY <2>1, BindFacts
  <2>3. /\ nameCounts'[w] = k
        /\ \A g : g \in DOMAIN nameCounts' <=> g \in DOMAIN nameCounts \/ g = w
        /\ \A g \in DOMAIN nameCounts : g # w => nameCounts'[g] = nameCounts[g]
    BY <2>1, BindFacts
  <2>4. /\ \A g \in DOMAIN nameCounts : nameCounts[g] \in Nat \ {0} /\ nameCounts[g] <= nameCounts'[g]
        /\ \A g \in DOMAIN nameCounts' : nameCounts'[g] \in Nat \ {0}
    <3>1. \A g \in DOMAIN nameCounts : nameCounts[g] \in Nat \ {0}
      BY DEF NameInv
    <3>2. w \in DOMAIN nameCounts => nameCounts[w] < k
      BY <3>1 DEF Users
    <3> QED
      BY <3>1, <3>2, <2>3, <1>5
  <2>5. ASSUME NEW i \in 1..at - 1, ~Ignore(queue[i].sym)
        PROVE  IsNumbered(i)' /\ symbolMap'[queue[i].sym] # Numbered(w, k)
    <3>1. i \in DOMAIN queue /\ queue[i] \in Cursor /\ symbolMap'[queue[i].sym] = symbolMap[queue[i].sym]
      BY <1>1, <1>2, <1>8
    <3> DEFINE v == Wanted(queue[i])
    <3>2. IsNumbered(i)
      BY <2>5 DEF NameInv
    <3>3. v \in DOMAIN nameCounts
      BY <3>2 DEF IsNumbered
    <3>4. PICK l \in 1..nameCounts[v] : symbolMap[queue[i].sym] = Numbered(v, l)
      BY <3>2 DEF IsNumbered
    <3>5. l \in Nat \ {0} /\ l <= nameCounts[v] /\ nameCounts[v] \in Nat
      BY <3>3, <3>4, <2>4
    <3>6. v \in DOMAIN nameCounts' /\ l \in 1..nameCounts'[v]
      BY <3>3, <3>5, <2>3, <2>4
    <3>7. IsNumbered(i)'
      BY <3>1, <3>4, <3>6, <1>1 DEF IsNumbered
    <3>8. Numbered(v, l) # Numbered(w, k)
      <4>1. SUFFICES ASSUME Numbered(v, l) = Numbered(w, k) PROVE FALSE
        OBVIOUS
      <4>2. v = w /\ l = k
        BY <4>1, <3>1, <3>5, <1>3, <1>5, NumberedApart
      <4> QED
        BY <4>2, <3>3, <3>5 DEF Users
    <3> QED
      BY <3>1, <3>4, <3>7, <3>8
  <2>6. ASSUME NEW i \in 1..at, i = at PROVE IsNumbered(i)'
    <3>1. k \in 1..nameCounts'[w] /\ w \in DOMAIN nameCounts'
      BY <2>3, <1>5
    <3>2. queue'[i] = d
      BY <2>6, <1>1
    <3> QED
      BY <3>1, <3>2, <2>2 DEF IsNumbered
  <2>7. \A i \in 1..at : IF Ignore(queue[i].sym) THEN symbolMap'[queue[i].sym] = Ignored
                         ELSE IsNumbered(i)'
    <3> TAKE i \in 1..at
    <3>1. CASE i = at
      BY <3>1, <2>6, <1>11
    <3>2. CASE i # at
      <4>1. i \in 1..at - 1 /\ i \in DOMAIN queue
        BY <3>2, <1>1
      <4>2. Ignore(queue[i].sym) => symbolMap[queue[i].sym] = Ignored
        BY <4>1 DEF NameInv
      <4> QED
        BY <4>1, <4>2, <3>2, <2>5, <1>8, Zenon
    <3> QED
      BY <3>1, <3>2
  <2>8. ASSUME NEW i \in 1..at, NEW j \in 1..at, ~Ignore(queue[i].sym), ~Ignore(queue[j].sym),
               symbolMap'[queue[i].sym] = symbolMap'[queue[j].sym]
        PROVE  i = j
    <3>1. CASE i = at \/ j = at
      <4>1. i # at => i \in 1..at - 1
        BY <1>1
      <4>2. j # at => j \in 1..at - 1
        BY <1>1
      <4> QED
        BY <4>1, <4>2, <3>1, <2>2, <2>5, <2>8
    <3>2. CASE i # at /\ j # at
      <4>1. i \in 1..at - 1 /\ j \in 1..at - 1 /\ i \in DOMAIN queue /\ j \in DOMAIN queue
        BY <3>2, <1>1
      <4>2. symbolMap[queue[i].sym] = symbolMap[queue[j].sym]
        BY <4>1, <3>2, <2>8, <1>8
      <4> QED
        BY <4>1, <4>2, <2>8 DEF NameInv
    <3> QED
      BY <3>1, <3>2
  <2> QED
    BY <1>1, <2>4, <2>7, <2>8 DEF NameInv
<1> QED
  BY <1>10, <1>11

(* Reading the libraries changes no name.                                  *)
LEMMA LibsQueue ==
  ASSUME QueueInv, UNCHANGED <<queue, symbolMap, at>>, phase' = "visit" => phase = "visit"
  PROVE  QueueInv'
BY DEF QueueInv, Unnamed, Plain, GoFunc

(* What a step that names nothing leaves alone.                            *)
LibStep ==
  /\ UNCHANGED <<headerOnly, queue, symbolMap, at, nameCounts>>
  /\ phase' = "visit" => phase = "visit"
  /\ phase # "visit"
LEMMA Steps ==
  ASSUME [Next]_vars
  PROVE  \/ \E d \in Cursor : Visit(d)
         \/ EndVisit \/ NameNext \/ UNCHANGED vars
         \/ LibStep /\ (EndNames \/ Intersect \/ (\E present \in SUBSET LibFile : FindLibs(present))
                          \/ (\E f \in libFiles, listed \in BOOLEAN : ListLib(f, listed)))
<1>1. CASE EndNames
  BY <1>1 DEF EndNames, LibStep, nameVars
<1>2. CASE \E present \in SUBSET LibFile : FindLibs(present)
  BY <1>2 DEF FindLibs, LibStep, nameVars
<1>3. CASE \E f \in libFiles, listed \in BOOLEAN : ListLib(f, listed)
  BY <1>3 DEF ListLib, LibStep, nameVars
<1>4. CASE Intersect
  BY <1>4 DEF Intersect, LibStep, nameVars
<1> QED
  BY <1>1, <1>2, <1>3, <1>4 DEF Next, Terminated

LEMMA NextQueue == QueueInv /\ [Next]_vars => QueueInv'
<1> SUFFICES ASSUME QueueInv, [Next]_vars PROVE QueueInv'
  OBVIOUS
<1>1. CASE \E d \in Cursor : Visit(d)
  BY <1>1, VisitQueue
<1>2. CASE EndVisit
  BY <1>2, EndVisitQueue
<1>3. CASE NameNext
  BY <1>3, NameNextQueue
<1>4. CASE LibStep
  BY <1>4, LibsQueue DEF LibStep
<1>5. CASE UNCHANGED vars
  BY <1>5, LibsQueue DEF vars
<1> QED
  BY <1>1, <1>2, <1>3, <1>4, <1>5, Steps

LEMMA NextNames ==
  ASSUME SuffixApart, QueueInv, NameInv, [Next]_vars
  PROVE  NameInv'
<1>1. CASE (\E d \in Cursor : Visit(d)) \/ EndVisit
  <2>1. at' = 1 /\ at = 1 /\ nameCounts' = nameCounts
    BY <1>1 DEF Visit, EndVisit, QueueInv
  <2> QED
    BY <2>1 DEF NameInv
<1>2. CASE NameNext
  BY <1>2, NameNextNames
<1>3. CASE UNCHANGED <<queue, symbolMap, at, nameCounts>>
  BY <1>3 DEF NameInv, IsNumbered
<1> QED
  BY <1>1, <1>2, <1>3, Steps DEF LibStep, vars

(* No two symbols of a library share a Go name (genGoName, AddSuffix and   *)
(* the order of processCollect), when no function is named like another    *)
(* one with a suffix.                                                      *)
THEOREM GoNamesDistinct ==
  ASSUME SuffixApart
  PROVE  Spec => []NamesDistinct
<1>1. Init => QueueInv /\ NameInv
  BY InitIInv
<1>2. QueueInv /\ NameInv /\ [Next]_vars => (QueueInv /\ NameInv)'
  BY NextQueue, NextNames
<1>3. QueueInv /\ NameInv => NamesDistinct
  <2> SUFFICES ASSUME QueueInv, NameInv, NEW s \in DOMAIN symbolMap, NEW t \in DOMAIN symbolMap,
                      Named(s), Named(t), symbolMap[s] = symbolMap[t]
               PROVE  s = t
    BY DEF NamesDistinct
  <2>1. PICK i \in DOMAIN queue : queue[i].sym = s
    BY DEF QueueInv
  <2>2. PICK j \in DOMAIN queue : queue[j].sym = t
    BY DEF QueueInv
  <2>3. DOMAIN queue = 1..Len(queue) /\ Len(queue) \in Nat /\ at \in Nat
    BY DEF QueueInv
  <2>4. i < at /\ j < at
    BY <2>1, <2>2, <2>3 DEF Named, QueueInv
  <2>5. ~Ignore(s) /\ ~Ignore(t)
    BY <2>1, <2>2, <2>3, <2>4 DEF Named, NameInv
  <2>6. i = j
    BY <2>1, <2>2, <2>3, <2>4, <2>5 DEF NameInv
  <2> QED
    BY <2>1, <2>2, <2>6
<1> QED
  BY <1>1, <1>2, <1>3, PTL DEF Spec

-----------------------------------------------------------------------------
(* Every user that is counted is an entry before, and the customised       *)
(* entries are the first: a customised entry that finds its name in use    *)
(* finds it used by another customised one.                                *)
CustomInv ==
  /\ phase # "visit" => CustomAhead
  /\ \A g \in DOMAIN nameCounts :
       \E j \in 1..at - 1 : ~Ignore(queue[j].sym) /\ Wanted(queue[j]) = g
  /\ CustomGiven

(* What CustomGiven says of the entry i.                                   *)
Contested(i) ==
  \E j \in DOMAIN queue :
    j # i /\ Custom(queue[j].sym) /\ ~Ignore(queue[j].sym) /\ Wanted(queue[j]) = Wanted(queue[i])
GivenTo(i) ==
  Custom(queue[i].sym) =>
    IF Ignore(queue[i].sym) THEN symbolMap[queue[i].sym] = Ignored
    ELSE Contested(i) \/ symbolMap[queue[i].sym] = Numbered(Wanted(queue[i]), 1)
LEMMA GivenToEach == CustomGiven <=> \A i \in 1..at - 1 : GivenTo(i)
BY DEF CustomGiven, GivenTo, Contested

LEMMA NameNextCustom ==
  ASSUME QueueInv, CustomInv, NameNext
  PROVE  CustomInv'
<1> DEFINE d == queue[at]
           w == Wanted(d)
<1>1. /\ phase = "name" /\ phase' = phase /\ queue' = queue /\ at' = at + 1 /\ at \in DOMAIN queue
      /\ DOMAIN queue = 1..Len(queue) /\ Len(queue) \in Nat /\ at \in Nat \ {0}
      /\ NameIt(d)
  BY DEF NameNext, QueueInv
<1>2. \A i \in DOMAIN queue : i # at => symbolMap'[queue[i].sym] = symbolMap[queue[i].sym]
  BY NameNextQueue
<1>3. CustomAhead'
  BY <1>1 DEF CustomInv, CustomAhead
<1>4. \A g \in DOMAIN nameCounts' : g \in DOMAIN nameCounts \/ (g = w /\ ~Ignore(d.sym))
  BY <1>1, BindFacts DEF NameIt
<1>5. \A g \in DOMAIN nameCounts' :
        \E j \in 1..at : ~Ignore(queue[j].sym) /\ Wanted(queue[j]) = g
  <2> TAKE g \in DOMAIN nameCounts'
  <2>1. CASE g \in DOMAIN nameCounts
    <3>1. PICK j \in 1..at - 1 : ~Ignore(queue[j].sym) /\ Wanted(queue[j]) = g
      BY <2>1 DEF CustomInv
    <3> QED
      BY <3>1, <1>1
  <2>2. CASE g = w /\ ~Ignore(d.sym)
    BY <2>2, <1>1
  <2> QED
    BY <2>1, <2>2, <1>4
<1>6. ASSUME Custom(d.sym)
      PROVE  IF Ignore(d.sym) THEN symbolMap'[d.sym] = Ignored
             ELSE Contested(at) \/ symbolMap'[d.sym] = Numbered(w, 1)
  <2>1. CASE Ignore(d.sym)
    BY <2>1, <1>1, BindFacts DEF NameIt
  <2>2. CASE ~Ignore(d.sym) /\ w \notin DOMAIN nameCounts
    <3>1. Users(w) + 1 = 1
      BY <2>2 DEF Users
    <3>2. symbolMap' = Bind(symbolMap, d.sym, Numbered(w, Users(w) + 1))
      BY <2>2, <1>1 DEF NameIt
    <3> QED
      BY <2>2, <3>1, <3>2, BindFacts
  <2>3. CASE ~Ignore(d.sym) /\ w \in DOMAIN nameCounts
    <3>1. PICK j \in 1..at - 1 : ~Ignore(queue[j].sym) /\ Wanted(queue[j]) = w
      BY <2>3 DEF CustomInv
    <3>2. j \in DOMAIN queue /\ j < at
      BY <1>1
    <3>3. Custom(queue[j].sym)
      BY <3>2, <1>1, <1>6 DEF CustomInv, CustomAhead
    <3> QED
      BY <2>3, <3>1, <3>2, <3>3 DEF Contested
  <2> QED
    BY <2>1, <2>2, <2>3
<1>7. \A i \in 1..at : GivenTo(i)'
  <2> TAKE i \in 1..at
  <2>1. Contested(i)' <=> Contested(i)
    BY <1>1 DEF Contested
  <2>2. CASE i = at
    BY <2>1, <2>2, <1>1, <1>6 DEF GivenTo
  <2>3. CASE i # at
    <3>1. i \in 1..at - 1 /\ i \in DOMAIN queue
      BY <2>3, <1>1
    <3>2. GivenTo(i)
      BY <3>1, GivenToEach DEF CustomInv
    <3>3. symbolMap'[queue[i].sym] = symbolMap[queue[i].sym] /\ queue'[i] = queue[i]
      BY <3>1, <2>3, <1>1, <1>2
    <3> QED
      BY <2>1, <3>2, <3>3 DEF GivenTo
  <2> QED
    BY <2>2, <2>3
<1>8. CustomGiven'
  <2>1. \A i \in 1..at' - 1 : GivenTo(i)'
    BY <1>1, <1>7
  <2>2. CustomGiven' <=> \A i \in 1..at' - 1 : GivenTo(i)'
    BY DEF CustomGiven, GivenTo, Contested
  <2> QED
    BY <2>1, <2>2
<1> QED
  BY <1>1, <1>3, <1>5, <1>8 DEF CustomInv

LEMMA NextCustom ==
  ASSUME QueueInv, CustomInv, [Next]_vars
  PROVE  CustomInv'
<1>1. CASE \E d \in Cursor : Visit(d)
  <2>1. at' = 1 /\ at = 1 /\ nameCounts' = nameCounts /\ phase' = "visit"
    BY <1>1 DEF Visit, QueueInv
  <2> QED
    BY <2>1 DEF CustomInv, CustomGiven
<1>2. CASE EndVisit
  <2>1. at' = 1 /\ at = 1 /\ nameCounts' = nameCounts
    BY <1>2 DEF EndVisit, QueueInv
  <2> QED
    BY <1>2, <2>1, EndVisitQueue DEF CustomInv, CustomGiven
<1>3. CASE NameNext
  BY <1>3, NameNextCustom
<1>4. CASE UNCHANGED <<queue, symbolMap, at, nameCounts>> /\ (phase' = phase \/ phase # "visit")
  BY <1>4 DEF CustomInv, CustomAhead, CustomGiven
<1> QED
  BY <1>1, <1>2, <1>3, <1>4, Steps DEF LibStep, vars

(* A customised symbol gets the name asked for, without a suffix, unless   *)
(* another customised one asks for the same: processCollect takes the      *)
(* customised ones first (its comment's "take precedence").                *)
THEOREM CustomPrecedes == Spec => []CustomGiven
<1>1. Init => QueueInv /\ CustomInv
  <2> SUFFICES ASSUME Init PROVE CustomInv
    BY InitIInv
  <2>1. phase = "visit" /\ DOMAIN nameCounts = {} /\ at = 1
    BY DEF Init, Empty
  <2> QED
    BY <2>1 DEF CustomInv, CustomGiven
<1>2. QueueInv /\ CustomInv /\ [Next]_vars => (QueueInv /\ CustomInv)'
  BY NextQueue, NextCustom
<1>3. CustomInv => CustomGiven
  BY DEF CustomInv
<1> QED
  BY <1>1, <1>2, <1>3, PTL DEF Spec

-----------------------------------------------------------------------------
(* From the libraries to the table: only files the linker takes are        *)
(* listed, only what they list is remembered, only that gets in.           *)
Taken(i, k) == i \in DOMAIN Paths /\ k \in DOMAIN LibNames /\ LinkerTakes(i, LibNames[k])
LinkInv ==
  /\ phase \in {"visit", "name", "find"} => symbols = {} /\ libFiles = {}
  /\ phase \in {"visit", "name", "find", "list"} => DOMAIN table = {}
  /\ phase = "failed" => symbols = {} /\ DOMAIN table = {}
  /\ \A f \in libFiles : \E i, k : Taken(i, k) /\ f = <<Paths[i], LibNames[k]>>
  /\ \A s \in symbols : \E i, k : Taken(i, k) /\ s \in NmList[<<Paths[i], LibNames[k]>>]
  /\ ~headerOnly => \A s \in DOMAIN table : s \in symbols

(* The directories are tried in order, so one that has the library is the  *)
(* first or comes after the first.                                         *)
LEMMA FirstExists ==
  ASSUME NEW T \in SUBSET Nat, T # {}
  PROVE  \E i \in T : \A j \in T : i <= j
<1>1. \E x \in T : \A y \in T : ~(<<y, x>> \in OpToRel(<, Nat))
  BY WFMin, NatLessThanWellFounded
<1>2. PICK x \in T : \A y \in T : ~(<<y, x>> \in OpToRel(<, Nat))
  BY <1>1
<1>3. \A y \in T : ~(y < x)
  BY <1>2 DEF OpToRel
<1> QED
  BY <1>3

LEMMA FilesAreTaken ==
  ASSUME NEW present, disk' = present
  PROVE  \A f \in Files(present) : \E i, k : Taken(i, k)' /\ f = <<Paths[i], LibNames[k]>>
<1> SUFFICES ASSUME NEW k \in DOMAIN LibNames, \E i \in DOMAIN Paths : <<Paths[i], LibNames[k]>> \in present
             PROVE  \E i : Taken(i, k)' /\ FirstDir(present, LibNames[k]) = Paths[i]
  BY DEF Files
<1> DEFINE hit == {i \in DOMAIN Paths : <<Paths[i], LibNames[k]>> \in present}
<1>1. hit \in SUBSET Nat /\ hit # {} /\ DOMAIN Paths \subseteq Nat
  <2>1. Paths \in Seq({Paths[i] : i \in DOMAIN Paths})
    BY SymgAssumption
  <2>2. DOMAIN Paths = 1..Len(Paths) /\ Len(Paths) \in Nat
    BY <2>1
  <2> QED
    BY <2>2
<1>2. \E i \in hit : \A j \in hit : i <= j
  BY <1>1, FirstExists
<1>3. PICK first : first = CHOOSE i \in hit : \A j \in hit : i <= j
  OBVIOUS
<1>4. first \in hit /\ \A j \in hit : first <= j
  BY <1>2, <1>3
<1>5. FirstDir(present, LibNames[k]) = Paths[first]
  BY <1>3 DEF FirstDir
<1>6. LinkerTakes(first, LibNames[k])'
  <2>1. \A j \in DOMAIN Paths : j < first => j \notin hit
    BY <1>1, <1>4
  <2> QED
    BY <1>4, <2>1 DEF LinkerTakes
<1> QED
  BY <1>4, <1>5, <1>6 DEF Taken

(* A step that does not look for libraries leaves what the linker takes.   *)
LEMMA SameDisk ==
  ASSUME disk' = disk
  PROVE  \A i, k : Taken(i, k) => Taken(i, k)'
BY DEF Taken, LinkerTakes

LEMMA NextLink ==
  ASSUME LinkInv, [Next]_vars
  PROVE  LinkInv'
<1>1. ASSUME UNCHANGED <<headerOnly, libVars>>,
             \/ phase' = phase
             \/ phase = "visit" /\ phase' = "name"
      PROVE  LinkInv'
  <2>1. UNCHANGED <<headerOnly, disk, libFiles, symbols, table>>
    BY <1>1 DEF libVars
  <2>2. \A f \in libFiles : \E i, k : Taken(i, k)' /\ f = <<Paths[i], LibNames[k]>>
    BY <2>1, SameDisk DEF LinkInv
  <2>3. \A s \in symbols : \E i, k : Taken(i, k)' /\ s \in NmList[<<Paths[i], LibNames[k]>>]
    BY <2>1, SameDisk DEF LinkInv
  <2> QED
    BY <1>1, <2>1, <2>2, <2>3 DEF LinkInv
<1>2. CASE EndNames
  <2>1. /\ phase = "name" /\ UNCHANGED <<headerOnly, disk, libFiles, symbols>> /\ symbols = {} /\ libFiles = {}
        /\ \/ headerOnly /\ phase' = "done"
           \/ ~headerOnly /\ phase' = "find" /\ table' = table
    BY <1>2 DEF EndNames, nameVars, LinkInv
  <2> QED
    BY <2>1 DEF LinkInv
<1>3. ASSUME NEW present \in SUBSET LibFile, FindLibs(present) PROVE LinkInv'
  <2>1. /\ phase = "find" /\ disk' = present /\ libFiles' = Files(present) /\ symbols' = symbols
        /\ table' = table /\ headerOnly' = headerOnly /\ phase' \in {"failed", "list"}
        /\ symbols = {} /\ DOMAIN table = {}
    BY <1>3 DEF FindLibs, nameVars, LinkInv
  <2>2. \A f \in libFiles' : \E i, k : Taken(i, k)' /\ f = <<Paths[i], LibNames[k]>>
    BY <2>1, FilesAreTaken
  <2> QED
    BY <2>1, <2>2 DEF LinkInv
<1>4. ASSUME NEW f \in libFiles, NEW listed \in BOOLEAN, ListLib(f, listed) PROVE LinkInv'
  <2>1. /\ phase = "list" /\ phase' = phase /\ disk' = disk /\ libFiles' \subseteq libFiles /\ table' = table
        /\ headerOnly' = headerOnly /\ symbols \subseteq symbols' /\ symbols' \subseteq symbols \cup NmList[f]
        /\ DOMAIN table = {}
    BY <1>4 DEF ListLib, nameVars, LinkInv
  <2>2. \A g \in libFiles' : \E i, k : Taken(i, k)' /\ g = <<Paths[i], LibNames[k]>>
    BY <2>1, SameDisk DEF LinkInv
  <2>3. \A s \in symbols' : \E i, k : Taken(i, k)' /\ s \in NmList[<<Paths[i], LibNames[k]>>]
    <3> TAKE s \in symbols'
    <3>1. CASE s \in symbols
      BY <3>1, <2>1, SameDisk DEF LinkInv
    <3>2. CASE s \in NmList[f]
      <4>1. PICK i, k : Taken(i, k) /\ f = <<Paths[i], LibNames[k]>>
        BY DEF LinkInv
      <4> QED
        BY <3>2, <4>1, <2>1, SameDisk
    <3> QED
      BY <3>1, <3>2, <2>1
  <2> QED
    BY <2>1, <2>2, <2>3 DEF LinkInv
<1>5. CASE Intersect
  <2>1. /\ phase = "list" /\ UNCHANGED <<headerOnly, disk, libFiles, symbols>>
        /\ \/ symbols = {} /\ phase' = "failed" /\ table' = table
           \/ phase' = "done" /\ table' = CommonSymbols
    BY <1>5 DEF Intersect, nameVars
  <2>2. \A s \in DOMAIN table' : s \in symbols
    BY <2>1 DEF CommonSymbols, LinkInv
  <2>3. \A g \in libFiles : \E i, k : Taken(i, k)' /\ g = <<Paths[i], LibNames[k]>>
    BY <2>1, SameDisk DEF LinkInv
  <2>4. \A s \in symbols : \E i, k : Taken(i, k)' /\ s \in NmList[<<Paths[i], LibNames[k]>>]
    BY <2>1, SameDisk DEF LinkInv
  <2>5. phase' = "failed" => symbols = {} /\ DOMAIN table' = {}
    BY <2>1, <2>2
  <2> QED
    BY <2>1, <2>2, <2>3, <2>4, <2>5 DEF LinkInv
<1>6. ASSUME NEW d \in Cursor, Visit(d) PROVE LinkInv'
  <2>1. phase' = phase /\ UNCHANGED <<headerOnly, libVars>>
    BY <1>6 DEF Visit
  <2> QED
    BY <1>1, <2>1
<1>7. CASE EndVisit
  <2>1. phase = "visit" /\ phase' = "name" /\ UNCHANGED <<headerOnly, libVars>>
    BY <1>7 DEF EndVisit
  <2> QED
    BY <1>1, <2>1
<1>8. CASE NameNext
  BY <1>1, <1>8 DEF NameNext
<1>9. CASE UNCHANGED vars
  <2>1. UNCHANGED <<phase, headerOnly, disk, libFiles, symbols, table>>
    BY <1>9 DEF vars
  <2>2. phase' = phase /\ UNCHANGED <<headerOnly, libVars>>
    BY <2>1 DEF libVars
  <2> QED
    BY <1>1, <2>2
<1>10. CASE EndNames \/ Intersect \/ (\E present \in SUBSET LibFile : FindLibs(present))
         \/ (\E f \in libFiles, listed \in BOOLEAN : ListLib(f, listed))
  BY <1>2, <1>3, <1>4, <1>5, <1>10
<1> QED
  BY <1>10, <1>6, <1>7, <1>8, <1>9, Steps

(* Whatever library files there are and whichever nm can list, every entry *)
(* of the table is listed in a library the linker takes.                   *)
THEOREM EntriesLink == Spec => []TableLinks
<1>1. Init => LinkInv
  BY DEF Init, Empty, LinkInv
<1>2. LinkInv /\ [Next]_vars => LinkInv'
  BY NextLink
<1>3. LinkInv => TableLinks
  BY DEF LinkInv, TableLinks, Taken
<1> QED
  BY <1>1, <1>2, <1>3, PTL DEF Spec
-----------------------------------------------------------------------------
(* The number of a name is a rank.  Users counts the entries before that   *)
(* want the name, and the queue is the source order after a stable sort.   *)
Wants(q, n, g) == {j \in 1..n : ~Ignore(q[j].sym) /\ Wanted(q[j]) = g}
RankInv ==
  /\ found \in Seq(Cursor)
  /\ IF phase = "visit" THEN queue = found
     ELSE \E r \in CustomFirst(found) : queue = [i \in DOMAIN found |-> found[r[i]]]
  /\ \A g \in {Wanted(d) : d \in Cursor} : Users(g) = Cardinality(Wants(queue, at - 1, g))
  /\ \A i \in 1..at - 1 : ~Ignore(queue[i].sym) =>
        symbolMap[queue[i].sym]
          = Numbered(Wanted(queue[i]), 1 + Cardinality(Wants(queue, i - 1, Wanted(queue[i]))))
  /\ phase \notin {"visit", "name"} => at = Len(queue) + 1

(* Each entry is a user of the name it wants and of no other.              *)
LEMMA WantsNext ==
  ASSUME NEW q, NEW n \in Nat, NEW g
  PROVE  Cardinality(Wants(q, n + 1, g))
           = IF ~Ignore(q[n + 1].sym) /\ Wanted(q[n + 1]) = g THEN Cardinality(Wants(q, n, g)) + 1
             ELSE Cardinality(Wants(q, n, g))
<1>1. IsFiniteSet(Wants(q, n, g))
  <2>1. IsFiniteSet(1..n)
    BY FS_Interval
  <2>2. Wants(q, n, g) \in SUBSET (1..n)
    BY DEF Wants
  <2> QED
    BY <2>1, <2>2, FS_Subset
<1>2. CASE ~Ignore(q[n + 1].sym) /\ Wanted(q[n + 1]) = g
  <2>1. Wants(q, n + 1, g) = Wants(q, n, g) \cup {n + 1} /\ n + 1 \notin Wants(q, n, g)
    BY <1>2 DEF Wants
  <2> QED
    BY <1>1, <1>2, <2>1, FS_AddElement
<1>3. CASE ~(~Ignore(q[n + 1].sym) /\ Wanted(q[n + 1]) = g)
  <2>1. Wants(q, n + 1, g) = Wants(q, n, g)
    BY <1>3 DEF Wants
  <2> QED
    BY <1>3, <2>1
<1> QED
  BY <1>2, <1>3

LEMMA WantsNone == \A q, g : Cardinality(Wants(q, 0, g)) = 0
<1>1. \A q, g : Wants(q, 0, g) = {}
  BY DEF Wants
<1> QED
  BY <1>1, FS_EmptySet

LEMMA NameNextRank ==
  ASSUME QueueInv, RankInv, NameNext
  PROVE  RankInv'
<1> DEFINE d == queue[at]
           w == Wanted(d)
           k == Users(w) + 1
<1>1. /\ phase = "name" /\ phase' = phase /\ queue' = queue /\ found' = found /\ at' = at + 1
      /\ at \in DOMAIN queue /\ DOMAIN queue = 1..Len(queue) /\ Len(queue) \in Nat /\ at \in Nat \ {0}
      /\ NameIt(d)
  BY DEF NameNext, QueueInv
<1>2. \A i \in DOMAIN queue : i # at => symbolMap'[queue[i].sym] = symbolMap[queue[i].sym]
  BY NameNextQueue
<1>3. d \in Cursor
  BY <1>1 DEF QueueInv
<1>4. \A g \in {Wanted(c) : c \in Cursor} :
        Users(g)' = IF ~Ignore(d.sym) /\ w = g THEN Users(g) + 1 ELSE Users(g)
  <2> TAKE g \in {Wanted(c) : c \in Cursor}
  <2>1. CASE Ignore(d.sym)
    <3>1. nameCounts' = nameCounts
      BY <2>1, <1>1 DEF NameIt
    <3> QED
      BY <2>1, <3>1 DEF Users
  <2>2. CASE ~Ignore(d.sym)
    <3>1. nameCounts' = Bind(nameCounts, w, k)
      BY <2>2, <1>1 DEF NameIt
    <3>2. CASE g = w
      <4>1. g \in DOMAIN nameCounts' /\ nameCounts'[g] = k
        BY <3>1, <3>2, BindFacts
      <4> QED
        BY <4>1, <2>2, <3>2 DEF Users
    <3>3. CASE g # w
      <4>1. (g \in DOMAIN nameCounts' <=> g \in DOMAIN nameCounts)
            /\ (g \in DOMAIN nameCounts => nameCounts'[g] = nameCounts[g])
        BY <3>1, <3>3, BindFacts
      <4> QED
        BY <4>1, <3>3 DEF Users
    <3> QED
      BY <3>2, <3>3
  <2> QED
    BY <2>1, <2>2
<1>5. \A g : Cardinality(Wants(queue, at, g))
               = IF ~Ignore(d.sym) /\ w = g THEN Cardinality(Wants(queue, at - 1, g)) + 1
                 ELSE Cardinality(Wants(queue, at - 1, g))
  <2>1. at - 1 \in Nat /\ at - 1 + 1 = at
    BY <1>1
  <2> QED
    BY <2>1, WantsNext
<1>6. \A g \in {Wanted(c) : c \in Cursor} : Users(g) = Cardinality(Wants(queue, at - 1, g))
  BY DEF RankInv
<1>7. \A g \in {Wanted(c) : c \in Cursor} : Users(g)' = Cardinality(Wants(queue', at' - 1, g))
  <2>1. at' - 1 = at
    BY <1>1
  <2> QED
    BY <1>1, <1>4, <1>5, <1>6, <2>1
<1>8. ~Ignore(d.sym) => symbolMap'[d.sym] = Numbered(w, 1 + Cardinality(Wants(queue, at - 1, w)))
  <2> SUFFICES ASSUME ~Ignore(d.sym)
               PROVE  symbolMap'[d.sym] = Numbered(w, 1 + Cardinality(Wants(queue, at - 1, w)))
    OBVIOUS
  <2>1. symbolMap'[d.sym] = Numbered(w, k)
    <3>1. symbolMap' = Bind(symbolMap, d.sym, Numbered(w, k))
      BY <1>1 DEF NameIt
    <3> QED
      BY <3>1, BindFacts
  <2>2. Users(w) = Cardinality(Wants(queue, at - 1, w))
    BY <1>3, <1>6
  <2>3. Users(w) \in Nat
    <3>1. IsFiniteSet(1..at - 1)
      BY <1>1, FS_Interval
    <3>2. Wants(queue, at - 1, w) \in SUBSET (1..at - 1)
      BY DEF Wants
    <3>3. IsFiniteSet(Wants(queue, at - 1, w))
      BY <3>1, <3>2, FS_Subset
    <3> QED
      BY <2>2, <3>3, FS_CardinalityType
  <2>4. k = 1 + Cardinality(Wants(queue, at - 1, w))
    BY <2>2, <2>3
  <2> QED
    BY <2>1, <2>4
<1>9. \A i \in 1..at : ~Ignore(queue[i].sym) =>
        symbolMap'[queue[i].sym]
          = Numbered(Wanted(queue[i]), 1 + Cardinality(Wants(queue, i - 1, Wanted(queue[i]))))
  <2> TAKE i \in 1..at
  <2>1. CASE i = at
    BY <1>8, <2>1
  <2>2. CASE i # at
    <3>1. i \in 1..at - 1 /\ i \in DOMAIN queue
      BY <2>2, <1>1
    <3> QED
      BY <3>1, <2>2, <1>2 DEF RankInv
  <2> QED
    BY <2>1, <2>2
<1>10. 1..at' - 1 = 1..at
  BY <1>1
<1>11. \E r \in CustomFirst(found') : queue' = [i \in DOMAIN found' |-> found'[r[i]]]
  BY <1>1 DEF RankInv
<1>12. found' \in Seq(Cursor)
  BY <1>1 DEF RankInv
<1> QED
  BY <1>1, <1>7, <1>9, <1>10, <1>11, <1>12 DEF RankInv

LEMMA InitRank == Init => RankInv
<1> SUFFICES ASSUME Init PROVE RankInv
  OBVIOUS
<1>1. phase = "visit" /\ queue = found /\ at = 1 /\ DOMAIN nameCounts = {} /\ found \in Seq(Cursor)
  BY DEF Init, Empty
<1>2. \A g : Users(g) = Cardinality(Wants(queue, at - 1, g))
  BY <1>1, WantsNone DEF Users
<1> QED
  BY <1>1, <1>2 DEF RankInv

(* Until the queue is sorted nothing is counted.                           *)
LEMMA NextRank ==
  ASSUME QueueInv, RankInv, [Next]_vars
  PROVE  RankInv'
<1>1. ASSUME NEW d \in Cursor, Visit(d) PROVE RankInv'
  <2>1. /\ at = 1 /\ at' = 1 /\ nameCounts' = nameCounts /\ phase = "visit" /\ phase' = "visit"
        /\ queue' = found' /\ found' \in Seq(Cursor)
    BY <1>1 DEF Visit, QueueInv, RankInv
  <2>2. \A g \in {Wanted(c) : c \in Cursor} : Users(g)' = Users(g) /\ Users(g) = 0
    BY <2>1, WantsNone DEF Users, RankInv
  <2>3. \A g \in {Wanted(c) : c \in Cursor} : Users(g)' = Cardinality(Wants(queue', at' - 1, g))
    BY <2>1, <2>2, WantsNone
  <2> QED
    BY <2>1, <2>3 DEF RankInv
<1>2. CASE EndVisit
  <2>1. /\ at = 1 /\ at' = 1 /\ nameCounts' = nameCounts /\ phase = "visit" /\ phase' = "name"
        /\ found' = found /\ found \in Seq(Cursor) /\ queue = found
    BY <1>2 DEF EndVisit, QueueInv, RankInv
  <2>2. \E r \in CustomFirst(found') : queue' = [i \in DOMAIN found' |-> found'[r[i]]]
    BY <1>2, <2>1 DEF EndVisit
  <2>3. \A g \in {Wanted(c) : c \in Cursor} : Users(g)' = Users(g) /\ Users(g) = 0
    BY <2>1, WantsNone DEF Users, RankInv
  <2>4. \A g \in {Wanted(c) : c \in Cursor} : Users(g)' = Cardinality(Wants(queue', at' - 1, g))
    BY <2>1, <2>3, WantsNone
  <2> QED
    BY <2>1, <2>2, <2>4 DEF RankInv
<1>3. CASE NameNext
  BY <1>3, NameNextRank
<1>4. ASSUME UNCHANGED <<queue, found, symbolMap, at, nameCounts>>, phase' = "visit" <=> phase = "visit",
             phase' \notin {"visit", "name"} => phase \notin {"visit", "name"} \/ at = Len(queue) + 1
      PROVE  RankInv'
  <2>1. \A g \in {Wanted(c) : c \in Cursor} : Users(g)' = Cardinality(Wants(queue', at' - 1, g))
    BY <1>4 DEF Users, RankInv
  <2> QED
    BY <1>4, <2>1 DEF RankInv
<1>5. CASE EndNames
  <2>1. /\ UNCHANGED <<queue, found, symbolMap, at, nameCounts>> /\ phase = "name" /\ phase' # "visit"
        /\ at = Len(queue) + 1
    BY <1>5 DEF EndNames, nameVars, QueueInv
  <2> QED
    BY <1>4, <2>1
<1>6. CASE \/ Intersect \/ (\E present \in SUBSET LibFile : FindLibs(present))
           \/ (\E f \in libFiles, listed \in BOOLEAN : ListLib(f, listed))
  <2>1. /\ UNCHANGED <<queue, found, symbolMap, at, nameCounts>> /\ phase # "visit" /\ phase' # "visit"
        /\ phase # "name"
    BY <1>6 DEF Intersect, FindLibs, ListLib, nameVars
  <2> QED
    BY <1>4, <2>1
<1>7. CASE UNCHANGED vars
  BY <1>4, <1>7 DEF vars
<1> QED
  BY <1>1, <1>2, <1>3, <1>5, <1>6, <1>7, Steps

(* A position in the sorted queue comes before another exactly when the    *)
(* entry there is the earlier one.                                         *)
LEMMA SortedByRank ==
  ASSUME found \in Seq(Cursor), NEW r \in CustomFirst(found),
         NEW a \in DOMAIN found, NEW b \in DOMAIN found
  PROVE  Earlier(r[a], r[b]) <=> a < b
<1>1. DOMAIN found = 1..Len(found) /\ Len(found) \in Nat
  OBVIOUS
<1>2. r \in [DOMAIN found -> DOMAIN found]
  BY DEF CustomFirst, Orders
<1>3. r[a] \in Nat /\ r[b] \in Nat /\ a \in Nat /\ b \in Nat
  BY <1>1, <1>2
<1>4. \A i, j \in DOMAIN found : i < j => Earlier(r[i], r[j])
  BY DEF CustomFirst, Earlier
<1>5. ~(Earlier(r[a], r[b]) /\ Earlier(r[b], r[a]))
  BY <1>3 DEF Earlier
<1>6. a = b => ~Earlier(r[a], r[b])
  BY <1>3 DEF Earlier
<1> QED
  BY <1>3, <1>4, <1>5, <1>6

(* The suffix of a name is the number of earlier users of it in the order  *)
(* of the source, customised ones first (genGoName, AddSuffix): the names  *)
(* depend on the headers and on llcppg.cfg alone.                          *)
THEOREM SuffixIsRank == Spec => []NamedByRank
<1>1. Init => QueueInv /\ RankInv
  BY InitIInv, InitRank
<1>2. QueueInv /\ RankInv /\ [Next]_vars => (QueueInv /\ RankInv)'
  BY NextQueue, NextRank
<1>3. QueueInv /\ RankInv => NamedByRank
  <2> SUFFICES ASSUME QueueInv, RankInv, phase \notin {"visit", "name"},
                      NEW i \in DOMAIN found, ~Ignore(found[i].sym)
               PROVE  LET earlier == {j \in DOMAIN found : /\ ~Ignore(found[j].sym) /\ Earlier(j, i)
                                                           /\ Wanted(found[j]) = Wanted(found[i])}
                      IN  symbolMap[found[i].sym]
                            = Numbered(Wanted(found[i]), 1 + Cardinality(earlier))
    BY DEF NamedByRank
  <2> DEFINE w == Wanted(found[i])
             earlier == {j \in DOMAIN found : /\ ~Ignore(found[j].sym) /\ Earlier(j, i)
                                              /\ Wanted(found[j]) = w}
  <2>1. PICK r \in CustomFirst(found) : queue = [j \in DOMAIN found |-> found[r[j]]]
    BY DEF RankInv
  <2>2. /\ found \in Seq(Cursor) /\ DOMAIN found = 1..Len(found) /\ Len(found) \in Nat
        /\ at = Len(queue) + 1 /\ queue \in Seq(Cursor)
    BY DEF RankInv, QueueInv
  <2>3. Len(queue) = Len(found) /\ DOMAIN queue = DOMAIN found
    BY <2>1, <2>2
  <2>4. /\ r \in [DOMAIN found -> DOMAIN found]
        /\ \A k \in DOMAIN found : \E j \in DOMAIN found : r[j] = k
    BY DEF CustomFirst, Orders
  <2>5. PICK k \in DOMAIN found : r[k] = i
    BY <2>4
  <2>6. \A j \in DOMAIN found : queue[j] = found[r[j]] /\ (Earlier(r[j], i) <=> j < k)
    BY <2>1, <2>2, <2>5, SortedByRank
  <2> DEFINE W == Wants(queue, k - 1, w)
             f == [j \in W |-> r[j]]
  <2>7. symbolMap[found[i].sym] = Numbered(w, 1 + Cardinality(W))
    <3>1. k \in 1..at - 1 /\ queue[k] = found[i]
      BY <2>2, <2>3, <2>5, <2>6
    <3> QED
      BY <3>1 DEF RankInv
  <2>8. \A j : j \in W <=> j \in DOMAIN found /\ r[j] \in earlier
    <3> TAKE j
    <3>1. j \in W => j \in DOMAIN found /\ j < k
      BY <2>2 DEF Wants
    <3>2. j \in DOMAIN found /\ r[j] \in earlier => j \in 1..k - 1
      BY <2>2, <2>6
    <3> QED
      BY <3>1, <3>2, <2>4, <2>6 DEF Wants
  <2>9. f \in Bijection(W, earlier)
    <3>1. f \in [W -> earlier]
      BY <2>8
    <3>2. \A a, b \in W : f[a] = f[b] => a = b
      <4> SUFFICES ASSUME NEW a \in W, NEW b \in W, r[a] = r[b] PROVE a = b
        OBVIOUS
      <4>1. a \in DOMAIN found /\ b \in DOMAIN found
        BY <2>8
      <4>2. ~(a < b) /\ ~(b < a)
        <5>1. (Earlier(r[a], r[b]) <=> a < b) /\ (Earlier(r[b], r[a]) <=> b < a)
              /\ (Earlier(r[a], r[a]) <=> a < a)
          BY <2>2, <4>1, SortedByRank
        <5> QED
          BY <5>1, <4>1, <2>2
      <4> QED
        BY <4>1, <4>2, <2>2
    <3>3. \A t \in earlier : \E s \in W : f[s] = t
      BY <2>4, <2>8
    <3> HIDE DEF f, W, earlier
    <3> QED
      BY <3>1, <3>2, <3>3 DEF Bijection, Injection, Surjection, IsInjective
  <2>10. Cardinality(earlier) = Cardinality(W)
    <3>1. IsFiniteSet(W)
      <4>1. IsFiniteSet(1..k - 1)
        BY <2>2, FS_Interval
      <4>2. W \in SUBSET (1..k - 1)
        BY DEF Wants
      <4> QED
        BY <4>1, <4>2, FS_Subset
    <3>2. ExistsBijection(W, earlier)
      BY <2>9 DEF ExistsBijection
    <3> HIDE DEF W, earlier
    <3> QED
      BY <3>1, <3>2, FS_Bijection
  <2> QED
    BY <2>7, <2>10
<1> QED
  BY <1>1, <1>2, <1>3, PTL DEF Spec
=============================================================================
