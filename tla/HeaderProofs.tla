---------------------------- MODULE HeaderProofs ----------------------------
(***************************************************************************)
(* What holds of Header for every project: which headers are classified,   *)
(* which of them as interface headers, and which as implementation ones.   *)
(*                                                                         *)
(* Alone, a header is reported when it is entered at depth 1, before clang *)
(* has entered anything, so it is not skipped.  Together, a depth-first    *)
(* traversal: what an entered header includes has been entered or is still *)
(* on the stack, which is empty in the end.  The root that decides about   *)
(* implementation headers is compared with the documented one component by *)
(* component.                                                              *)
(***************************************************************************)
EXTENDS HeaderSafety, SequenceTheorems, WellFoundedInduction, TLAPS

(* The headers some directive on the stack is still to include. *)
Pending(stk) == UNION {Range(stk[k]) : k \in DOMAIN stk}

Reachable == {f \in File : \A S \in SUBSET File :
                (Range(project.includes) \subseteq S /\ Closed(S)) => f \in S}

TypeOK ==
  /\ project \in Projects
  /\ phase \in {"solo", "composed", "done", "panic"}
  /\ left \in Seq(File) /\ stack \in Seq(Seq(File)) /\ entered \subseteq File
  /\ Inters \in Seq(File) /\ others \in Seq(File)

(* Each header of the list has been reported, is the one clang is about to *)
(* enter, or is left.                                                      *)
Alone == phase = "solo" =>
  /\ others = <<>>
  /\ stack = <<>> => Range(project.includes) = Range(Inters) \cup Range(left)
  /\ stack # <<>> =>
       /\ Range(project.includes) = Range(Inters) \cup Range(left) \cup Range(stack[1])
       /\ stack[1] # <<>> => Len(stack) = 1 /\ Len(stack[1]) = 1 /\ entered = {}

Found == phase \in {"composed", "done"} =>
  /\ Range(Inters) = Range(project.includes)
  /\ Range(others) = entered \ Range(Inters)
  /\ entered \subseteq Reachable

Together == phase = "composed" =>
  /\ stack # <<>>
  /\ Range(stack[1]) \subseteq Range(project.includes)
  /\ Pending(stack) \subseteq Reachable
  /\ Range(project.includes) \subseteq entered \cup Pending(stack)
  /\ \A f \in entered : Range(project.incl[f]) \subseteq entered \cup Pending(stack)

AllEntered == phase = "done" =>
  /\ Range(project.includes) \subseteq entered
  /\ Closed(entered)
  /\ FileMap = Types

IInv == TypeOK /\ Alone /\ Found /\ Together /\ AllEntered

-----------------------------------------------------------------------------
(* Ranges of sequences. *)
LEMMA RangeHeadTail ==
  ASSUME NEW S, NEW s \in Seq(S), s # <<>>
  PROVE  /\ Head(s) \in S /\ Tail(s) \in Seq(S) /\ Len(Tail(s)) = Len(s) - 1
         /\ Range(s) = {Head(s)} \cup Range(Tail(s))
<1>1. /\ Head(s) \in S /\ Tail(s) \in Seq(S) /\ Len(Tail(s)) = Len(s) - 1
      /\ \A i \in 1..Len(Tail(s)) : Tail(s)[i] = s[i + 1]
  BY HeadTailProperties
<1>2. Len(s) \in Nat /\ Len(s) > 0 /\ DOMAIN s = 1..Len(s) /\ DOMAIN Tail(s) = 1..(Len(s) - 1)
  BY <1>1, LenProperties, EmptySeq
<1>3. Head(s) = s[1]
  OBVIOUS
<1>4. ASSUME NEW x \in Range(s) PROVE x \in {Head(s)} \cup Range(Tail(s))
  <2>1. PICK i \in 1..Len(s) : x = s[i]
    BY <1>2 DEF Range
  <2>2. CASE i = 1
    BY <2>1, <2>2, <1>3
  <2>3. CASE i # 1
    <3>1. i - 1 \in 1..(Len(s) - 1) /\ (i - 1) + 1 = i
      BY <2>3, <1>2
    <3>2. Tail(s)[i - 1] = x
      BY <3>1, <2>1, <1>1
    <3> QED
      BY <3>1, <3>2, <1>2 DEF Range
  <2> QED
    BY <2>2, <2>3
<1>5. ASSUME NEW x \in Range(Tail(s)) PROVE x \in Range(s)
  <2>1. PICK i \in 1..(Len(s) - 1) : x = Tail(s)[i]
    BY <1>2 DEF Range
  <2>2. i + 1 \in 1..Len(s) /\ x = s[i + 1]
    BY <2>1, <1>1, <1>2
  <2> QED
    BY <2>2, <1>2 DEF Range
<1>6. Head(s) \in Range(s)
  BY <1>2, <1>3 DEF Range
<1> QED
  BY <1>1, <1>4, <1>5, <1>6

LEMMA RangeAppend ==
  ASSUME NEW S, NEW s \in Seq(S), NEW e \in S
  PROVE  Append(s, e) \in Seq(S) /\ Range(Append(s, e)) = Range(s) \cup {e}
<1>1. /\ Append(s, e) \in Seq(S) /\ Len(Append(s, e)) = Len(s) + 1
      /\ \A i \in 1..Len(s) : Append(s, e)[i] = s[i]
      /\ Append(s, e)[Len(s) + 1] = e
  BY AppendProperties
<1>2. Len(s) \in Nat /\ DOMAIN s = 1..Len(s) /\ DOMAIN Append(s, e) = 1..(Len(s) + 1)
  BY <1>1, LenProperties
<1>3. 1..(Len(s) + 1) = 1..Len(s) \cup {Len(s) + 1}
  BY <1>2
<1> QED
  BY <1>1, <1>2, <1>3 DEF Range

LEMMA EmptyRange == Range(<<>>) = {}
BY DEF Range

(* The front of a stack of sequences, and its last element. *)
LEMMA FrontLast ==
  ASSUME NEW S, NEW s \in Seq(S), s # <<>>
  PROVE  /\ Len(s) \in Nat \ {0} /\ DOMAIN s = 1..Len(s)
         /\ Last(s) \in S
         /\ Front(s) \in Seq(S) /\ Len(Front(s)) = Len(s) - 1
         /\ DOMAIN Front(s) = 1..(Len(s) - 1)
         /\ \A i \in 1..(Len(s) - 1) : Front(s)[i] = s[i]
<1>1. Len(s) \in Nat \ {0} /\ DOMAIN s = 1..Len(s) /\ \A i \in 1..Len(s) : s[i] \in S
  BY LenProperties, EmptySeq, ElementOfSeq
<1>2. Last(s) \in S
  BY <1>1 DEF Last
<1>0. Len(s) - 1 \in Nat
  BY <1>1
<1>3. PICK n \in Nat : n = Len(s) - 1
  BY <1>0
<1>4. Front(s) = SubSeq(s, 1, n) /\ 1..n \subseteq 1..Len(s)
  BY <1>1, <1>3 DEF Front
<1>5. /\ SubSeq(s, 1, n) \in Seq(S)
      /\ Len(SubSeq(s, 1, n)) = IF 1 <= n THEN n - 1 + 1 ELSE 0
      /\ \A i \in 1..(n - 1 + 1) : SubSeq(s, 1, n)[i] = s[1 + i - 1]
  BY <1>1, <1>4, SubSeqProperties
<1>6. n - 1 + 1 = n /\ (IF 1 <= n THEN n - 1 + 1 ELSE 0) = n /\ \A i \in 1..n : 1 + i - 1 = i
  BY <1>3
<1>7. \A i \in 1..n : SubSeq(s, 1, n)[i] = s[i]
  BY <1>5, <1>6
<1>8. Len(SubSeq(s, 1, n)) = n /\ DOMAIN SubSeq(s, 1, n) = 1..n
  BY <1>5, <1>6, LenProperties
<1> QED
  BY <1>1, <1>2, <1>3, <1>4, <1>5, <1>7, <1>8

LEMMA PendingElems ==
  ASSUME NEW S, NEW stk \in Seq(Seq(S))
  PROVE  Pending(stk) \subseteq S
<1>1. \A k \in DOMAIN stk : stk[k] \in Seq(S)
  BY LenProperties, ElementOfSeq
<1>2. \A k \in DOMAIN stk : Range(stk[k]) \subseteq S
  BY <1>1, RangeOfSeq
<1> QED
  BY <1>2 DEF Pending

LEMMA Push ==
  ASSUME NEW S, NEW stk \in Seq(Seq(S)), NEW s \in Seq(S)
  PROVE  /\ Append(stk, s) \in Seq(Seq(S)) /\ Len(Append(stk, s)) = Len(stk) + 1
         /\ \A i \in 1..Len(stk) : Append(stk, s)[i] = stk[i]
         /\ Append(stk, s)[Len(stk) + 1] = s
BY AppendProperties

LEMMA PendingAppend ==
  ASSUME NEW S, NEW stk \in Seq(Seq(S)), NEW s \in Seq(S)
  PROVE  Pending(Append(stk, s)) = Pending(stk) \cup Range(s)
<1>1. /\ Append(stk, s) \in Seq(Seq(S)) /\ Len(Append(stk, s)) = Len(stk) + 1
      /\ \A i \in 1..Len(stk) : Append(stk, s)[i] = stk[i]
      /\ Append(stk, s)[Len(stk) + 1] = s
  BY AppendProperties
<1>2. Len(stk) \in Nat /\ DOMAIN stk = 1..Len(stk) /\ DOMAIN Append(stk, s) = 1..(Len(stk) + 1)
  BY <1>1, LenProperties
<1>3. 1..(Len(stk) + 1) = 1..Len(stk) \cup {Len(stk) + 1}
  BY <1>2
<1> QED
  BY <1>1, <1>2, <1>3 DEF Pending

LEMMA PendingFront ==
  ASSUME NEW S, NEW stk \in Seq(Seq(S)), stk # <<>>
  PROVE  Pending(stk) = Pending(Front(stk)) \cup Range(Last(stk))
<1>1. /\ Len(stk) \in Nat \ {0} /\ DOMAIN stk = 1..Len(stk) /\ DOMAIN Front(stk) = 1..(Len(stk) - 1)
      /\ \A i \in 1..(Len(stk) - 1) : Front(stk)[i] = stk[i]
  BY FrontLast
<1>2. 1..Len(stk) = 1..(Len(stk) - 1) \cup {Len(stk)}
  BY <1>1
<1> QED
  BY <1>1, <1>2 DEF Pending, Last

(* What is left when the innermost header's next directive has been taken. *)
LEMMA ConsumedFacts ==
  ASSUME stack \in Seq(Seq(File)), stack # <<>>, Last(stack) # <<>>
  PROVE  /\ NextDirective \in File
         /\ Consumed \in Seq(Seq(File)) /\ Len(Consumed) = Len(stack)
         /\ Pending(stack) = Pending(Consumed) \cup {NextDirective}
         /\ Len(stack) > 1 => Consumed[1] = stack[1]
         /\ Len(stack) = 1 => /\ Consumed[1] = Tail(stack[1])
                              /\ NextDirective = Head(stack[1]) /\ stack[1] # <<>>
                              /\ Pending(Consumed) = Range(Tail(stack[1]))
<1>1. /\ Len(stack) \in Nat \ {0} /\ DOMAIN stack = 1..Len(stack)
      /\ Last(stack) \in Seq(File)
      /\ Front(stack) \in Seq(Seq(File)) /\ Len(Front(stack)) = Len(stack) - 1
      /\ \A i \in 1..(Len(stack) - 1) : Front(stack)[i] = stack[i]
  BY FrontLast
<1>2. /\ Head(Last(stack)) \in File /\ Tail(Last(stack)) \in Seq(File)
      /\ Range(Last(stack)) = {Head(Last(stack))} \cup Range(Tail(Last(stack)))
  BY <1>1, RangeHeadTail
<1>3. Pending(Consumed) = Pending(Front(stack)) \cup Range(Tail(Last(stack)))
  BY <1>1, <1>2, PendingAppend DEF Consumed
<1>4. Pending(stack) = Pending(Front(stack)) \cup Range(Last(stack))
  BY PendingFront
<1>5. /\ Consumed \in Seq(Seq(File)) /\ Len(Consumed) = Len(stack)
      /\ \A i \in 1..Len(Front(stack)) : Consumed[i] = Front(stack)[i]
      /\ Consumed[Len(Front(stack)) + 1] = Tail(Last(stack))
  <2>2. Len(Front(stack)) + 1 = Len(stack)
    BY <1>1
  <2> DEFINE q == Front(stack)
             e == Tail(Last(stack))
  <2>3. Consumed = Append(q, e) /\ q \in Seq(Seq(File)) /\ e \in Seq(File) /\ Len(q) + 1 = Len(stack)
    BY <2>2, <1>1, <1>2 DEF Consumed
  <2> HIDE DEF q, e
  <2>4. /\ Append(q, e) \in Seq(Seq(File)) /\ Len(Append(q, e)) = Len(q) + 1
        /\ \A i \in 1..Len(q) : Append(q, e)[i] = q[i]
        /\ Append(q, e)[Len(q) + 1] = e
    BY <2>3, Push
  <2>5. Consumed \in Seq(Seq(File)) /\ Len(Consumed) = Len(stack)
    BY <2>3, <2>4
  <2>6. \A i \in 1..Len(q) : Consumed[i] = q[i]
    BY <2>3, <2>4
  <2>7. Consumed[Len(q) + 1] = e
    BY <2>3, <2>4
  <2> QED
    BY <2>5, <2>6, <2>7 DEF q, e
<1>6. ASSUME Len(stack) > 1 PROVE Consumed[1] = stack[1]
  <2>1. 1 \in 1..Len(Front(stack)) /\ 1 \in 1..(Len(stack) - 1)
    BY <1>1, <1>6
  <2> QED
    BY <2>1, <1>1, <1>5
<1>7. ASSUME Len(stack) = 1
      PROVE  /\ Consumed[1] = Tail(stack[1]) /\ NextDirective = Head(stack[1]) /\ stack[1] # <<>>
             /\ Pending(Consumed) = Range(Tail(stack[1]))
  <2>1. Last(stack) = stack[1]
    BY <1>7 DEF Last
  <2>2. Front(stack) = <<>>
    BY <1>1, <1>7, EmptySeq
  <2>3. Pending(Front(stack)) = {}
    BY <2>2 DEF Pending
  <2> QED
    BY <2>1, <2>3, <1>1, <1>3, <1>5, <1>7 DEF NextDirective
<1> QED
  BY <1>2, <1>3, <1>4, <1>5, <1>6, <1>7 DEF NextDirective

(* What the assumption says of the project at hand. *)
LEMMA ProjectFacts ==
  ASSUME project \in Projects
  PROVE  /\ \A f \in File : project.incl[f] \in Seq(File) /\ Range(project.incl[f]) \subseteq File
         /\ project.includes \in Seq(File) /\ Range(project.includes) \subseteq File
<1>1. project.incl \in [File -> Seq(File)] /\ project.includes \in Seq(File)
  BY HeaderAssumption
<1> QED
  BY <1>1, RangeOfSeq

LEMMA ReachableFacts ==
  ASSUME project \in Projects
  PROVE  /\ Range(project.includes) \subseteq Reachable /\ Reachable \subseteq File
         /\ \A f \in Reachable : Range(project.incl[f]) \subseteq Reachable
<1>1. Range(project.includes) \subseteq Reachable /\ Reachable \subseteq File
  BY ProjectFacts DEF Reachable
<1>2. ASSUME NEW f \in Reachable, NEW g \in Range(project.incl[f]) PROVE g \in Reachable
  <2>1. f \in File /\ g \in File
    BY <1>1, <1>2, ProjectFacts
  <2>2. ASSUME NEW S \in SUBSET File, Range(project.includes) \subseteq S, Closed(S) PROVE g \in S
    BY <1>2, <2>2 DEF Closed, Reachable
  <2> QED
    BY <2>1, <2>2 DEF Reachable
<1> QED
  BY <1>1, <1>2

-----------------------------------------------------------------------------
LEMMA InitInv == Init => IInv
<1> SUFFICES ASSUME Init PROVE IInv
  OBVIOUS
<1>1. TypeOK
  BY ProjectFacts DEF Init, TypeOK
<1>2. Alone
  BY EmptyRange DEF Init, Alone
<1> QED
  BY <1>1, <1>2 DEF Init, IInv, Found, Together, AllEntered

LEMMA StartSoloInv == IInv /\ StartSolo => IInv'
<1> SUFFICES ASSUME IInv, StartSolo PROVE IInv'
  OBVIOUS
<1> USE DEF IInv
<1>1. /\ Head(left) \in File /\ Tail(left) \in Seq(File)
      /\ Range(left) = {Head(left)} \cup Range(Tail(left))
  BY RangeHeadTail DEF TypeOK, StartSolo
<1>2. TypeOK'
  BY <1>1 DEF TypeOK, StartSolo
<1>3. stack' # <<>> /\ stack'[1] = <<Head(left)>> /\ Len(stack') = 1 /\ Len(stack'[1]) = 1
  BY DEF StartSolo
<1>4. Range(stack'[1]) = {Head(left)}
  BY <1>3 DEF Range
<1>5. Alone'
  BY <1>1, <1>3, <1>4 DEF Alone, StartSolo
<1> QED
  BY <1>2, <1>5 DEF Found, Together, AllEntered, StartSolo

LEMMA StartComposedInv == IInv /\ StartComposed => IInv'
<1> SUFFICES ASSUME IInv, StartComposed PROVE IInv'
  OBVIOUS
<1> USE DEF IInv
<1>1. project.includes \in Seq(File) /\ stack' = <<project.includes>>
  BY ProjectFacts DEF TypeOK, StartComposed
<1>2. TypeOK'
  BY <1>1 DEF TypeOK, StartComposed
<1>3. Range(Inters) = Range(project.includes) /\ others = <<>>
  BY EmptyRange DEF Alone, StartComposed
<1>4. Found'
  BY <1>3, EmptyRange DEF Found, StartComposed
<1>5. Pending(stack') = Range(project.includes) /\ stack'[1] = project.includes /\ stack' # <<>>
  BY <1>1 DEF Pending
<1>6. Range(project.includes) \subseteq Reachable /\ Reachable' = Reachable
  BY ReachableFacts DEF TypeOK, Reachable, Closed, StartComposed
<1>7. Together'
  BY <1>5, <1>6 DEF Together, StartComposed
<1> QED
  BY <1>2, <1>4, <1>7 DEF Alone, AllEntered, StartComposed

(* The facts the steps of a clang run share: the project does not change.  *)
LEMMA SameProject ==
  ASSUME UNCHANGED project
  PROVE  Reachable' = Reachable /\ \A S : Closed(S)' <=> Closed(S)
BY DEF Reachable, Closed

(* A header that is entered once only, and has been. *)
LEMMA SkipInv == IInv /\ Enter /\ Skipped => IInv'
<1> SUFFICES ASSUME IInv, Enter, Skipped PROVE IInv'
  OBVIOUS
<1> USE DEF IInv
<1>1. /\ stack \in Seq(Seq(File)) /\ stack # <<>> /\ Last(stack) # <<>>
      /\ stack' = Consumed
      /\ UNCHANGED <<project, phase, left, entered, Inters, others, FileMap>>
  BY DEF TypeOK, Enter
<1>2. /\ NextDirective \in File
      /\ Consumed \in Seq(Seq(File)) /\ Len(Consumed) = Len(stack)
      /\ Pending(stack) = Pending(Consumed) \cup {NextDirective}
      /\ Len(stack) > 1 => Consumed[1] = stack[1]
      /\ Len(stack) = 1 => /\ Consumed[1] = Tail(stack[1])
                           /\ NextDirective = Head(stack[1]) /\ stack[1] # <<>>
  BY <1>1, ConsumedFacts
<1>3. NextDirective \in entered
  BY DEF Skipped
<1>4. Len(stack) \in Nat \ {0} /\ stack[1] \in Seq(File)
  BY <1>1, LenProperties, EmptySeq, ElementOfSeq
<1>5. Consumed # <<>>
  BY <1>2, <1>4, EmptySeq
<1>6. TypeOK'
  BY <1>1, <1>2 DEF TypeOK
<1>7. Alone'
  <2> SUFFICES ASSUME phase = "solo" PROVE Alone'
    BY <1>1 DEF Alone
  <2>1. Len(stack) # 1
    BY <1>1, <1>2, <1>3 DEF Alone
  <2>2. stack'[1] = stack[1] /\ Len(stack') = Len(stack)
    BY <2>1, <1>1, <1>2, <1>4
  <2> QED
    BY <2>2, <1>1, <1>5 DEF Alone
<1>8. Found' /\ AllEntered'
  <2>1. phase # "done"
    BY DEF Enter
  <2> QED
    BY <2>1, <1>1, SameProject DEF Found, AllEntered
<1>9. Together'
  <2> SUFFICES ASSUME phase = "composed" PROVE Together'
    BY <1>1 DEF Together
  <2>1. Range(Consumed[1]) \subseteq Range(stack[1])
    BY <1>2, <1>4, RangeHeadTail
  <2>2. entered \cup Pending(stack') = entered \cup Pending(stack)
    BY <1>1, <1>2, <1>3
  <2>3. stack' # <<>> /\ Range(stack'[1]) \subseteq Range(project.includes)
    BY <2>1, <1>1, <1>5 DEF Together
  <2>4. Pending(stack') \subseteq Reachable'
    BY <1>1, <1>2, SameProject DEF Together
  <2> QED
    BY <2>2, <2>3, <2>4, <1>1 DEF Together
<1> QED
  BY <1>6, <1>7, <1>8, <1>9

(* A header that is entered: what it includes comes on top of the stack,   *)
(* and it is reported at depth 1 alone, and below depth 1 together.        *)
LEMMA EnterInv == IInv /\ Enter /\ ~Skipped => IInv'
<1> SUFFICES ASSUME IInv, Enter, ~Skipped PROVE IInv'
  OBVIOUS
<1> USE DEF IInv
<1> DEFINE f == NextDirective
           in == project.incl[f]
<1>1. /\ stack \in Seq(Seq(File)) /\ stack # <<>> /\ Last(stack) # <<>>
      /\ stack' = Append(Consumed, in) /\ entered' = entered \cup {f}
      /\ Inters' = ReportInter(f, Len(stack)) /\ others' = ReportOther(f, Len(stack))
      /\ UNCHANGED <<project, phase, left, FileMap>>
      /\ phase \in {"solo", "composed"}
  BY DEF TypeOK, Enter
<1>2. /\ f \in File
      /\ Consumed \in Seq(Seq(File)) /\ Len(Consumed) = Len(stack)
      /\ Pending(stack) = Pending(Consumed) \cup {f}
      /\ Len(stack) > 1 => Consumed[1] = stack[1]
      /\ Len(stack) = 1 => /\ Consumed[1] = Tail(stack[1])
                           /\ f = Head(stack[1]) /\ stack[1] # <<>>
                           /\ Pending(Consumed) = Range(Tail(stack[1]))
  BY <1>1, ConsumedFacts
<1>3. in \in Seq(File)
  BY <1>2, ProjectFacts DEF TypeOK
<1>0. Len(stack) = 1 \/ Len(stack) > 1
  <2>1. Len(stack) \in Nat /\ Len(stack) # 0
    BY <1>1, LenProperties, EmptySeq
  <2> DEFINE n == Len(stack)
  <2>2. n \in Nat /\ n # 0
    BY <2>1
  <2> HIDE DEF n
  <2>3. n = 1 \/ n > 1
    BY <2>2
  <2> QED
    BY <2>3 DEF n
<1>4. Len(stack) \in Nat \ {0} /\ stack[1] \in Seq(File)
  BY <1>1, LenProperties, EmptySeq, ElementOfSeq
<1> HIDE DEF f, in
<1>5. /\ stack' \in Seq(Seq(File)) /\ Len(stack') = Len(stack) + 1
      /\ stack'[1] = Consumed[1]
      /\ Pending(stack') = Pending(Consumed) \cup Range(in)
  <2>0. Consumed \in Seq(Seq(File))
    BY <1>2
  <2>1. /\ Append(Consumed, in) \in Seq(Seq(File)) /\ Len(Append(Consumed, in)) = Len(Consumed) + 1
        /\ \A k \in 1..Len(Consumed) : Append(Consumed, in)[k] = Consumed[k]
    BY <2>0, <1>3, Push
  <2> QED
    BY <2>1, <1>1, <1>2, <1>3, <1>4, PendingAppend
<1>6. stack' # <<>>
  BY <1>4, <1>5, EmptySeq
<1>7. /\ Append(Inters, f) \in Seq(File) /\ Range(Append(Inters, f)) = Range(Inters) \cup {f}
      /\ Append(others, f) \in Seq(File) /\ Range(Append(others, f)) = Range(others) \cup {f}
  BY <1>2, RangeAppend DEF TypeOK
<1>8. TypeOK'
  BY <1>1, <1>2, <1>5, <1>7 DEF TypeOK, ReportInter, ReportOther
<1>9. Alone'
  <2> SUFFICES ASSUME phase = "solo" PROVE Alone'
    BY <1>1 DEF Alone
  <2>1. others' = <<>>
    BY <1>1 DEF Alone, ReportOther
  <2>2. CASE Len(stack) = 1
    <3>1. Len(stack[1]) = 1 /\ Range(stack[1]) = {f} \cup Range(Tail(stack[1])) /\ Tail(stack[1]) = <<>>
      <4>1. Len(stack[1]) = 1
        BY <2>2, <1>1, <1>2 DEF Alone
      <4>2. /\ Tail(stack[1]) \in Seq(File) /\ Len(Tail(stack[1])) = 0
            /\ Range(stack[1]) = {f} \cup Range(Tail(stack[1]))
        BY <4>1, <2>2, <1>2, <1>4, RangeHeadTail
      <4> QED
        BY <4>1, <4>2, EmptySeq
    <3>2. Range(Inters') = Range(Inters) \cup {f}
      BY <2>2, <1>1, <1>7 DEF ReportInter
    <3>3. stack'[1] = <<>>
      BY <3>1, <2>2, <1>2, <1>5
    <3>4. Range(project.includes) = Range(Inters) \cup Range(left) \cup Range(stack[1])
      BY <1>1 DEF Alone
    <3> QED
      BY <3>1, <3>2, <3>3, <3>4, <2>1, <1>1, <1>6, EmptyRange DEF Alone
  <2>3. CASE Len(stack) # 1
    <3>1. Inters' = Inters
      BY <2>3, <1>1 DEF ReportInter
    <3>2. stack[1] = <<>>
      BY <2>3, <1>1 DEF Alone
    <3>3. Len(stack) > 1
      BY <2>3, <1>0
    <3>4. stack'[1] = <<>>
      BY <3>2, <3>3, <1>2, <1>5
    <3> QED
      BY <3>1, <3>2, <3>4, <2>1, <1>1, <1>6 DEF Alone
  <2> QED
    BY <2>2, <2>3
<1>10. phase = "composed" => Found'
  <2> SUFFICES ASSUME phase = "composed" PROVE Found'
    OBVIOUS
  <2>1. Inters' = Inters
    BY <1>1 DEF ReportInter
  <2>2. Len(stack) = 1 => f \in Range(Inters)
    <3> SUFFICES ASSUME Len(stack) = 1 PROVE f \in Range(Inters)
      OBVIOUS
    <3>1. Range(stack[1]) = {f} \cup Range(Tail(stack[1]))
      BY <1>2, <1>4, RangeHeadTail
    <3> QED
      BY <3>1 DEF Together, Found
  <2>3. Range(others') = entered' \ Range(Inters')
    <3>1. CASE f \in Range(Inters)
      BY <3>1, <2>1, <1>1 DEF ReportOther, Found
    <3>2. CASE f \notin Range(Inters)
      <4>0. Len(stack) > 1
        BY <3>2, <2>2, <1>0
      <4>1. others' = Append(others, f)
        BY <4>0, <3>2, <1>1 DEF ReportOther
      <4> QED
        BY <4>1, <3>2, <2>1, <1>1, <1>7 DEF Found
    <3> QED
      BY <3>1, <3>2
  <2>4. f \in Reachable
    BY <1>2 DEF Together
  <2> QED
    BY <2>1, <2>3, <2>4, <1>1, SameProject DEF Found
<1>11. Together'
  <2> SUFFICES ASSUME phase = "composed" PROVE Together'
    BY <1>1 DEF Together
  <2>1. Range(Consumed[1]) \subseteq Range(stack[1])
    BY <1>2, <1>4, RangeHeadTail
  <2>2. entered' \cup Pending(stack') = entered \cup Pending(stack) \cup Range(in)
    BY <1>1, <1>2, <1>5
  <2>3. Range(in) \subseteq Reachable
    BY <1>2, ReachableFacts DEF Together, TypeOK, in
  <2>4. Pending(stack') \subseteq Reachable'
    BY <2>3, <1>1, <1>2, <1>5, SameProject DEF Together
  <2>5. stack' # <<>> /\ Range(stack'[1]) \subseteq Range(project.includes)
    BY <2>1, <1>5, <1>6 DEF Together
  <2>6. \A g \in entered' : Range(project.incl[g]) \subseteq entered' \cup Pending(stack')
    BY <2>2, <1>1 DEF Together, in
  <2> QED
    BY <2>2, <2>4, <2>5, <2>6, <1>1 DEF Together
<1> QED
  BY <1>1, <1>8, <1>9, <1>10, <1>11 DEF Found, AllEntered

LEMMA LeaveInv == IInv /\ Leave => IInv'
<1> SUFFICES ASSUME IInv, Leave PROVE IInv'
  OBVIOUS
<1> USE DEF IInv
<1>1. /\ stack \in Seq(Seq(File)) /\ stack # <<>> /\ Last(stack) = <<>> /\ stack' = Front(stack)
      /\ phase = "solo" \/ (phase = "composed" /\ Len(stack) > 1)
      /\ UNCHANGED <<project, phase, left, entered, Inters, others, FileMap>>
  BY DEF TypeOK, Leave
<1>2. /\ Len(stack) \in Nat \ {0}
      /\ stack' \in Seq(Seq(File)) /\ Len(stack') = Len(stack) - 1
      /\ \A i \in 1..(Len(stack) - 1) : stack'[i] = stack[i]
  BY <1>1, FrontLast
<1>3. Pending(stack') = Pending(stack)
  BY <1>1, PendingFront, EmptyRange
<1>4. Len(stack) = 1 => stack' = <<>> /\ stack[1] = <<>>
  BY <1>1, <1>2, EmptySeq DEF Last
<1>5. Len(stack) > 1 => stack' # <<>> /\ stack'[1] = stack[1]
  <2> SUFFICES ASSUME Len(stack) > 1 PROVE stack' # <<>> /\ stack'[1] = stack[1]
    OBVIOUS
  <2>1. 1 \in 1..(Len(stack) - 1) /\ Len(stack') # 0
    BY <1>2
  <2> QED
    BY <2>1, <1>2, EmptySeq
<1>6. Len(stack) = 1 \/ Len(stack) > 1
  BY <1>2
<1>7. TypeOK'
  BY <1>1, <1>2 DEF TypeOK
<1>8. Alone'
  <2> SUFFICES ASSUME phase = "solo" PROVE Alone'
    BY <1>1 DEF Alone
  <2>1. CASE Len(stack) = 1
    BY <2>1, <1>1, <1>4, EmptyRange DEF Alone
  <2>2. CASE Len(stack) > 1
    <3>0. Len(stack) # 1
      BY <2>2, <1>2
    <3>1. stack[1] = <<>>
      BY <3>0, <1>1 DEF Alone
    <3> QED
      BY <3>1, <2>2, <1>1, <1>5 DEF Alone
  <2> QED
    BY <2>1, <2>2, <1>6
<1>9. Found'
  BY <1>1, SameProject DEF Found
<1>10. Together'
  <2> SUFFICES ASSUME phase = "composed" PROVE Together'
    BY <1>1 DEF Together
  <2>1. stack' # <<>> /\ stack'[1] = stack[1]
    BY <1>1, <1>5
  <2> QED
    BY <2>1, <1>1, <1>3, SameProject DEF Together
<1>11. AllEntered'
  BY <1>1 DEF AllEntered
<1> QED
  BY <1>7, <1>8, <1>9, <1>10, <1>11

LEMMA ClassifyInv == IInv /\ Classify => IInv'
<1> SUFFICES ASSUME IInv, Classify PROVE IInv'
  OBVIOUS
<1> USE DEF IInv
<1>1. /\ phase = "composed" /\ phase' = "done" /\ stack' = <<>> /\ FileMap' = Types
      /\ UNCHANGED <<project, left, entered, Inters, others>>
  BY DEF Classify
<1>2. Pending(stack) = {}
  <2>1. stack = <<<<>>>>
    BY DEF Classify
  <2> QED
    BY <2>1, EmptyRange DEF Pending
<1>3. TypeOK'
  BY <1>1 DEF TypeOK
<1>4. Alone' /\ Together'
  BY <1>1 DEF Alone, Together
<1>5. Found'
  BY <1>1, SameProject DEF Found
<1>6. Range(project.includes) \subseteq entered /\ Closed(entered)
  BY <1>1, <1>2 DEF Together, Closed
<1>7. Types' = Types
  BY <1>1 DEF Types, InRoot, commonParentDir, Path, Dir
<1>8. AllEntered'
  BY <1>1, <1>6, <1>7, SameProject DEF AllEntered
<1> QED
  BY <1>3, <1>4, <1>5, <1>8

(* From the first header alone to the map, what has been found is among    *)
(* what the include list leads to, and nothing on the way is forgotten.    *)
THEOREM Invariance == Spec => []IInv
<1>1. IInv /\ [Next]_vars => IInv'
  <2> SUFFICES ASSUME IInv, [Next]_vars PROVE IInv'
    OBVIOUS
  <2>1. CASE StartSolo
    BY <2>1, StartSoloInv
  <2>2. CASE StartComposed
    BY <2>2, StartComposedInv
  <2>3. CASE Enter
    BY <2>3, SkipInv, EnterInv
  <2>4. CASE Leave
    BY <2>4, LeaveInv
  <2>5. CASE ClangFails
    BY <2>5 DEF IInv, ClangFails, TypeOK, Alone, Found, Together, AllEntered
  <2>6. CASE Classify
    BY <2>6, ClassifyInv
  <2>7. CASE UNCHANGED vars
    <3>1. UNCHANGED <<project, phase, left, stack, entered, Inters, others, FileMap>>
      BY <2>7 DEF vars
    <3>2. Types' = Types
      BY <3>1 DEF Types, InRoot, commonParentDir, Path, Dir
    <3> QED
      BY <3>1, <3>2, SameProject DEF IInv, TypeOK, Alone, Found, Together, AllEntered
  <2> QED
    BY <2>1, <2>2, <2>3, <2>4, <2>5, <2>6, <2>7 DEF Next, Terminated
<1> QED
  BY InitInv, <1>1, PTL DEF Spec

(* The map when parsing can begin: a header has an entry exactly if it is  *)
(* entered, and is an interface header exactly if it is in the list.       *)
LEMMA MapFacts ==
  ASSUME IInv, phase = "done"
  PROVE  /\ DOMAIN FileMap = entered
         /\ Range(project.includes) \subseteq entered
         /\ \A f \in entered : FileMap[f] = "inter" <=> f \in Range(project.includes)
         /\ \A f \in entered \ Range(project.includes) :
              FileMap[f] = "impl" <=> ~project.mix /\ InRoot(f)
<1>1. /\ Range(Inters) = Range(project.includes)
      /\ Range(others) = entered \ Range(Inters)
      /\ Range(project.includes) \subseteq entered
      /\ FileMap = Types
  BY DEF IInv, Found, AllEntered
<1> DEFINE impls == {f \in Range(others) : ~project.mix /\ InRoot(f)}
           thirds == Range(others) \ impls
<1>2. Types = [f \in Range(Inters) \cup Range(others) |->
                 IF f \in thirds THEN "third" ELSE IF f \in impls THEN "impl" ELSE "inter"]
  BY DEF Types
<1>3. \A f \in Range(Inters) : f \notin thirds /\ f \notin impls
  BY <1>1
<1>4. \A f \in Range(others) : f \in thirds \/ f \in impls
  OBVIOUS
<1> HIDE DEF thirds
<1>5. \A f \in Range(others) : f \in impls <=> ~project.mix /\ InRoot(f)
  OBVIOUS
<1>6. \A f \in impls : f \notin thirds
  BY DEF thirds
<1> HIDE DEF impls
<1>7. entered = Range(Inters) \cup Range(others)
  BY <1>1
<1> QED
  BY <1>1, <1>2, <1>3, <1>4, <1>5, <1>6, <1>7

(* A header is an interface header exactly if it is in the include list,   *)
(* whatever includes it first and whatever clang skips.                    *)
THEOREM IncludeListRules == Spec => []InterListed
<1>1. IInv => InterListed
  <2> SUFFICES ASSUME IInv, phase = "done"
               PROVE  {f \in DOMAIN FileMap : FileMap[f] = "inter"} = Range(project.includes)
    BY DEF InterListed
  <2> QED
    BY MapFacts
<1> QED
  BY <1>1, Invariance, PTL

(* Exactly the headers the include list leads to through any include       *)
(* graph, cycles included, have an entry in the map.                       *)
THEOREM ClassifiesAll == Spec => []AllClassified
<1>1. IInv => AllClassified
  <2> SUFFICES ASSUME IInv, phase = "done" PROVE DOMAIN FileMap = Reachable
    BY DEF AllClassified, Reachable
  <2>1. entered \subseteq Reachable
    BY DEF IInv, Found
  <2>2. entered \in SUBSET File /\ Range(project.includes) \subseteq entered /\ Closed(entered)
    BY DEF IInv, TypeOK, AllEntered
  <2>3. Reachable \subseteq entered
    BY <2>2 DEF Reachable
  <2> QED
    BY <2>1, <2>3, MapFacts
<1> QED
  BY <1>1, Invariance, PTL

-----------------------------------------------------------------------------
(* Paths, component by component. *)
LEMMA PrefixIff ==
  ASSUME NEW S, NEW s \in Seq(S), NEW t \in Seq(S)
  PROVE  IsPrefix(s, t) <=> Len(s) <= Len(t) /\ \A k \in 1..Len(s) : s[k] = t[k]
<1>1. /\ Len(s) \in Nat /\ Len(t) \in Nat
      /\ \A k \in 1..Len(s) : s[k] \in S
      /\ \A k \in 1..Len(t) : t[k] \in S
  BY LenProperties, ElementOfSeq
<1>2. SubSeq(s, 1, Len(s)) = s
  BY SubSeqFull
<1> SUFFICES ASSUME Len(s) <= Len(t)
             PROVE  s = SubSeq(t, 1, Len(s)) <=> \A k \in 1..Len(s) : s[k] = t[k]
  BY <1>2 DEF IsPrefix
<1>3. \A k \in 1..Len(s) : k \in 1..Len(t)
  BY <1>1
<1>4. /\ SubSeq(t, 1, Len(s)) \in Seq(S)
      /\ Len(SubSeq(t, 1, Len(s))) = IF 1 <= Len(s) THEN Len(s) - 1 + 1 ELSE 0
      /\ \A k \in 1..(Len(s) - 1 + 1) : SubSeq(t, 1, Len(s))[k] = t[1 + k - 1]
  BY <1>1, <1>3, SubSeqProperties
<1>5. Len(SubSeq(t, 1, Len(s))) = Len(s) /\ \A k \in 1..Len(s) : SubSeq(t, 1, Len(s))[k] = t[k]
  BY <1>1, <1>4
<1> QED
  BY <1>4, <1>5, SeqEqual

LEMMA Upto ==
  ASSUME NEW S, NEW s \in Seq(S), NEW n \in 0..Len(s)
  PROVE  /\ SubSeq(s, 1, n) \in Seq(S) /\ Len(SubSeq(s, 1, n)) = n
         /\ \A k \in 1..n : SubSeq(s, 1, n)[k] = s[k]
<1>1. /\ Len(s) \in Nat /\ n \in Nat /\ n <= Len(s)
      /\ \A k \in 1..n : k \in 1..Len(s)
  BY LenProperties
<1>2. \A k \in 1..n : s[k] \in S
  BY <1>1, ElementOfSeq
<1>3. /\ SubSeq(s, 1, n) \in Seq(S)
      /\ Len(SubSeq(s, 1, n)) = IF 1 <= n THEN n - 1 + 1 ELSE 0
      /\ \A k \in 1..(n - 1 + 1) : SubSeq(s, 1, n)[k] = s[1 + k - 1]
  BY <1>1, <1>2, SubSeqProperties
<1> QED
  BY <1>1, <1>3

LEMMA PrefixUpto ==
  ASSUME NEW S, NEW s \in Seq(S), NEW t \in Seq(S), NEW n \in 0..Len(s)
  PROVE  IsPrefix(SubSeq(s, 1, n), t) <=> n <= Len(t) /\ \A k \in 1..n : s[k] = t[k]
<1> DEFINE c == SubSeq(s, 1, n)
<1>1. c \in Seq(S) /\ Len(c) = n /\ \A k \in 1..n : c[k] = s[k]
  BY Upto
<1> HIDE DEF c
<1>2. IsPrefix(c, t) <=> Len(c) <= Len(t) /\ \A k \in 1..Len(c) : c[k] = t[k]
  BY <1>1, PrefixIff
<1>3. IsPrefix(c, t) <=> n <= Len(t) /\ \A k \in 1..n : s[k] = t[k]
  BY <1>1, <1>2
<1> QED
  BY <1>3 DEF c

(* All paths are over one set of components. *)
Component == Range(Cwd) \cup UNION {Range(project.path[f]) : f \in File}

LEMMA PathFacts ==
  ASSUME project \in Projects
  PROVE  /\ Cwd \in Seq(Component) /\ Len(Cwd) \in Nat \ {0}
         /\ \A f \in File : Path(f) \in Seq(Component) /\ Path(f) # <<>>
         /\ \A f \in File : /\ Len(Path(f)) \in Nat \ {0}
                            /\ Dir(f) \in Seq(Component) /\ Len(Dir(f)) = Len(Path(f)) - 1
                            /\ \A k \in 1..Len(Dir(f)) : Dir(f)[k] = Path(f)[k]
<1>1. Cwd \in Seq(Component) /\ Len(Cwd) \in Nat \ {0}
  <2>1. Cwd \in Seq(Range(Cwd)) /\ Cwd # <<>> /\ Range(Cwd) \subseteq Component
    BY HeaderAssumption DEF Component
  <2> QED
    BY <2>1, SeqMonotonic, EmptySeq
<1>2. ASSUME NEW f \in File
      PROVE  Path(f) \in Seq(Component) /\ Path(f) # <<>>
  <2>1. project.path[f] \in Seq(Range(project.path[f])) /\ project.path[f] # <<>>
    BY HeaderAssumption
  <2>2. Range(project.path[f]) \subseteq Component
    BY DEF Component
  <2> QED
    BY <2>1, <2>2, SeqMonotonic DEF Path
<1>3. ASSUME NEW f \in File
      PROVE  /\ Len(Path(f)) \in Nat \ {0}
             /\ Dir(f) \in Seq(Component) /\ Len(Dir(f)) = Len(Path(f)) - 1
             /\ \A k \in 1..Len(Dir(f)) : Dir(f)[k] = Path(f)[k]
  BY <1>2, FrontLast DEF Dir
<1> QED
  BY <1>1, <1>2, <1>3

(* What Abs gives: the path, or the working directory and the path. *)
LEMMA AbsFacts ==
  ASSUME project \in Projects, NEW p \in Seq(Component)
  PROVE  /\ Abs(p) \in Seq(Component) /\ Len(Abs(p)) \in Nat \ {0}
         /\ ~(p # <<>> /\ IsAbs(p)) =>
               /\ Len(Abs(p)) = Len(Cwd) + Len(p)
               /\ \A k \in 1..Len(Cwd) : Abs(p)[k] = Cwd[k]
               /\ \A k \in 1..Len(p) : Abs(p)[Len(Cwd) + k] = p[k]
<1>1. Cwd \in Seq(Component) /\ Len(Cwd) \in Nat \ {0} /\ Len(p) \in Nat
  BY PathFacts, LenProperties
<1>2. /\ Cwd \o p \in Seq(Component) /\ Len(Cwd \o p) = Len(Cwd) + Len(p)
      /\ \A k \in 1..(Len(Cwd) + Len(p)) :
           (Cwd \o p)[k] = IF k <= Len(Cwd) THEN Cwd[k] ELSE p[k - Len(Cwd)]
  BY <1>1, ConcatProperties
<1>3. CASE p # <<>> /\ IsAbs(p)
  <2>1. Abs(p) = p
    BY <1>3 DEF Abs
  <2> QED
    BY <2>1, <1>3, EmptySeq
<1>4. CASE ~(p # <<>> /\ IsAbs(p))
  <2>1. Abs(p) = Cwd \o p
    BY <1>4 DEF Abs
  <2>2. \A k \in 1..Len(Cwd) : Abs(p)[k] = Cwd[k]
    BY <2>1, <1>1, <1>2
  <2>3. ASSUME NEW k \in 1..Len(p) PROVE Abs(p)[Len(Cwd) + k] = p[k]
    <3>1. /\ Len(Cwd) + k \in 1..(Len(Cwd) + Len(p)) /\ ~(Len(Cwd) + k <= Len(Cwd))
          /\ (Len(Cwd) + k) - Len(Cwd) = k
      BY <1>1
    <3> QED
      BY <3>1, <2>1, <1>2
  <2>4. Abs(p) \in Seq(Component) /\ Len(Abs(p)) = Len(Cwd) + Len(p) /\ Len(Cwd) + Len(p) \in Nat \ {0}
    BY <2>1, <1>1, <1>2
  <2> QED
    BY <2>2, <2>3, <2>4, <1>4
<1> QED
  BY <1>3, <1>4

(* The directory of a header, made absolute, is its absolute path without  *)
(* the last component.                                                     *)
LEMMA DirOfAbs ==
  ASSUME project \in Projects, CleanPaths, NEW f \in File
  PROVE  /\ Len(Abs(Dir(f))) = Len(Abs(Path(f))) - 1
         /\ \A k \in 1..Len(Abs(Dir(f))) : Abs(Dir(f))[k] = Abs(Path(f))[k]
<1>1. /\ Path(f) \in Seq(Component) /\ Path(f) # <<>>
      /\ Len(Path(f)) \in Nat \ {0}
      /\ Dir(f) \in Seq(Component) /\ Len(Dir(f)) = Len(Path(f)) - 1
      /\ \A k \in 1..Len(Dir(f)) : Dir(f)[k] = Path(f)[k]
  BY PathFacts
<1>2. Cwd \in Seq(Component) /\ Len(Cwd) \in Nat \ {0} /\ Cwd[1] = Sep
  <2>1. Head(Cwd) = Cwd[1]
    OBVIOUS
  <2> QED
    BY <2>1, PathFacts, HeaderAssumption
<1>3. Dir(f) # <<>> => Head(Dir(f)) = Head(Path(f))
  <2> SUFFICES ASSUME Dir(f) # <<>> PROVE Dir(f)[1] = Path(f)[1]
    OBVIOUS
  <2>1. 1 \in 1..Len(Dir(f))
    BY <1>1, EmptySeq
  <2> QED
    BY <2>1, <1>1
<1>4. CASE IsAbs(Path(f))
  <2>1. Abs(Path(f)) = Path(f)
    BY <1>1, <1>4 DEF Abs
  <2>2. Dir(f) # <<>>
    <3> SUFFICES ASSUME Dir(f) = <<>> PROVE FALSE
      OBVIOUS
    <3>1. Len(Path(f)) = 1 /\ Path(f)[1] = Sep
      <4>1. Len(Dir(f)) = 0
        OBVIOUS
      <4>2. Len(Path(f)) = 1
        BY <4>1, <1>1
      <4> QED
        BY <4>2, <1>4 DEF IsAbs
    <3>2. /\ Abs(Dir(f)) \in Seq(Component)
          /\ Len(Abs(Dir(f))) = Len(Cwd) + Len(Dir(f))
          /\ \A k \in 1..Len(Cwd) : Abs(Dir(f))[k] = Cwd[k]
      BY <1>1, AbsFacts
    <3>3. Len(Abs(Dir(f))) = Len(Cwd) /\ Abs(Dir(f))[1] = Sep
      <4>1. Len(Dir(f)) = 0 /\ 1 \in 1..Len(Cwd)
        BY <1>2
      <4> QED
        BY <4>1, <3>2, <1>2
    <3>4. IsPrefix(Path(f), Abs(Dir(f)))
      <4>1. Len(Path(f)) <= Len(Abs(Dir(f))) /\ \A k \in 1..Len(Path(f)) : Path(f)[k] = Abs(Dir(f))[k]
        BY <3>1, <3>3, <1>2
      <4> QED
        BY <4>1, <3>2, <1>1, PrefixIff
    <3> QED
      BY <3>4, <2>1 DEF CleanPaths, Path, Dir
  <2>3. Abs(Dir(f)) = Dir(f)
    BY <2>2, <1>3, <1>4 DEF Abs, IsAbs
  <2> QED
    BY <2>1, <2>3, <1>1
<1>5. CASE ~IsAbs(Path(f))
  <2>1. ~(Dir(f) # <<>> /\ IsAbs(Dir(f)))
    BY <1>3, <1>5 DEF IsAbs
  <2>2. /\ Len(Abs(Path(f))) = Len(Cwd) + Len(Path(f))
        /\ \A k \in 1..Len(Cwd) : Abs(Path(f))[k] = Cwd[k]
        /\ \A k \in 1..Len(Path(f)) : Abs(Path(f))[Len(Cwd) + k] = Path(f)[k]
    BY <1>1, <1>5, AbsFacts
  <2>3. /\ Len(Abs(Dir(f))) = Len(Cwd) + Len(Dir(f))
        /\ \A k \in 1..Len(Cwd) : Abs(Dir(f))[k] = Cwd[k]
        /\ \A k \in 1..Len(Dir(f)) : Abs(Dir(f))[Len(Cwd) + k] = Dir(f)[k]
    BY <1>1, <2>1, AbsFacts
  <2>4. ASSUME NEW k \in 1..Len(Abs(Dir(f))) PROVE Abs(Dir(f))[k] = Abs(Path(f))[k]
    <3>1. CASE k <= Len(Cwd)
      <4>1. k \in 1..Len(Cwd)
        BY <3>1, <1>2
      <4> QED
        BY <4>1, <2>2, <2>3
    <3>2. CASE ~(k <= Len(Cwd))
      <4>1. PICK j \in 1..Len(Dir(f)) : k = Len(Cwd) + j
        <5>1. k - Len(Cwd) \in 1..Len(Dir(f)) /\ k = Len(Cwd) + (k - Len(Cwd))
          BY <3>2, <2>3, <1>1, <1>2
        <5> QED
          BY <5>1
      <4>2. j \in 1..Len(Path(f))
        BY <1>1
      <4> QED
        BY <4>1, <4>2, <2>2, <2>3, <1>1
    <3> QED
      BY <3>1, <3>2
  <2> QED
    BY <2>2, <2>3, <2>4, <1>1, <1>2
<1> QED
  BY <1>4, <1>5

LEMMA Least ==
  ASSUME NEW T \in SUBSET Nat, T # {}
  PROVE  \E x \in T : \A y \in T : x <= y
<1>1. PICK x \in T : \A y \in T : ~(<<y, x>> \in OpToRel(<, Nat))
  BY WFMin, NatLessThanWellFounded
<1>2. \A y \in T : ~(y < x)
  BY <1>1 DEF OpToRel
<1> QED
  BY <1>2

(* There is a longest common beginning. *)
LEMMA CommonFacts ==
  ASSUME NEW S, NEW dirs \in Seq(Seq(S)), dirs # <<>>
  PROVE  \E n \in 0..Len(dirs[1]) :
           /\ Common(dirs) = SubSeq(dirs[1], 1, n)
           /\ \A d \in Range(dirs) : IsPrefix(SubSeq(dirs[1], 1, n), d)
           /\ n < Len(dirs[1]) => \E d \in Range(dirs) : ~IsPrefix(SubSeq(dirs[1], 1, n + 1), d)
<1>1. dirs[1] \in Seq(S) /\ Len(dirs[1]) \in Nat
  BY EmptySeq, ElementOfSeq, LenProperties
<1> DEFINE L == Len(dirs[1])
           Begin(n) == \A d \in Range(dirs) : IsPrefix(SubSeq(dirs[1], 1, n), d)
           T == {k \in 0..L : Begin(L - k)}
<1>2. L \in T
  <2>1. \A d : SubSeq(d, 1, 0) = <<>>
    BY SubSeqEmpty
  <2>2. \A d \in Range(dirs) : Len(d) \in Nat
    BY RangeOfSeq, LenProperties
  <2>3. Begin(0)
    BY <2>1, <2>2 DEF IsPrefix
  <2> HIDE DEF Begin
  <2>4. L - L = 0 /\ L \in 0..L
    BY <1>1
  <2> QED
    BY <2>3, <2>4
<1> HIDE DEF Begin
<1>3. PICK k \in T : \A j \in T : k <= j
  <2>1. T \in SUBSET Nat /\ T # {}
    BY <1>1, <1>2
  <2> HIDE DEF T
  <2> QED
    BY <2>1, Least
<1> DEFINE n == L - k
<1>4. n \in 0..L /\ Begin(n)
  <2>1. k \in 0..L /\ Begin(L - k)
    BY <1>3
  <2> QED
    BY <2>1, <1>1
<1>5. n < L => ~Begin(n + 1)
  <2> SUFFICES ASSUME n < L, Begin(n + 1) PROVE FALSE
    OBVIOUS
  <2>0. k \in 0..L
    BY <1>3
  <2>1. k - 1 \in 0..L /\ L - (k - 1) = n + 1 /\ ~(k <= k - 1)
    BY <1>1, <2>0
  <2>2. k - 1 \in T
    BY <2>1
  <2> QED
    BY <2>1, <2>2, <1>3
<1>6. \E m \in 0..L : /\ Begin(m)
                      /\ m < L => \E d \in Range(dirs) : ~IsPrefix(SubSeq(dirs[1], 1, m + 1), d)
  BY <1>4, <1>5 DEF Begin
<1> DEFINE P(m) == /\ \A d \in Range(dirs) : IsPrefix(SubSeq(dirs[1], 1, m), d)
                   /\ m < Len(dirs[1]) =>
                        \E d \in Range(dirs) : ~IsPrefix(SubSeq(dirs[1], 1, m + 1), d)
           c == CHOOSE m \in 0..Len(dirs[1]) : P(m)
<1>7. \E m \in 0..Len(dirs[1]) : P(m)
  BY <1>6 DEF Begin
<1>8. Common(dirs) = SubSeq(dirs[1], 1, c)
  BY DEF Common
<1> HIDE DEF P
<1>9. c \in 0..Len(dirs[1]) /\ P(c)
  BY <1>7
<1> QED
  BY <1>8, <1>9 DEF P

(* The interface headers have one directory or relative paths: then        *)
(* filepath.Join leaves the common beginning as it is.                     *)
LEMMA ParentFacts ==
  ASSUME project \in Projects, CleanPaths, Inters \in Seq(File), Inters # <<>>,
         Range(Inters) = Range(project.includes), OneDir \/ Relative
  PROVE  LET D == Dir(Inters[1]) IN
         /\ Inters[1] \in Range(project.includes)
         /\ \E n \in 0..Len(D) :
              /\ commonParentDir(Inters) = SubSeq(D, 1, n)
              /\ \A g \in Range(project.includes) : IsPrefix(SubSeq(D, 1, n), Dir(g))
              /\ n < Len(D) => \E g \in Range(project.includes) : ~IsPrefix(SubSeq(D, 1, n + 1), Dir(g))
         /\ OneDir => commonParentDir(Inters) = D
<1> DEFINE dirs == [i \in DOMAIN Inters |-> Dir(Inters[i])]
           D == Dir(Inters[1])
<1>1. /\ Len(Inters) \in Nat \ {0} /\ DOMAIN Inters = 1..Len(Inters)
      /\ \A i \in 1..Len(Inters) : Inters[i] \in File
  BY LenProperties, EmptySeq, ElementOfSeq
<1>2. \A i \in 1..Len(Inters) : Dir(Inters[i]) \in Seq(Component)
  BY <1>1, PathFacts
<1>3. dirs \in Seq(Seq(Component)) /\ dirs # <<>> /\ dirs[1] = D
  <2>1. dirs \in [1..Len(Inters) -> Seq(Component)]
    BY <1>1, <1>2
  <2>2. dirs \in Seq(Seq(Component))
    BY <2>1, <1>1, SeqDef
  <2>3. 1 \in DOMAIN Inters
    BY <1>1
  <2> QED
    BY <2>2, <2>3
<1>4. \A d : d \in Range(dirs) <=> \E g \in Range(project.includes) : d = Dir(g)
  <2>1. \A d : d \in Range(dirs) <=> \E g \in Range(Inters) : d = Dir(g)
    BY DEF Range
  <2> QED
    BY <2>1
<1>5. Inters[1] \in Range(project.includes) /\ Inters[1] \in File
  <2>1. 1 \in DOMAIN Inters
    BY <1>1
  <2>2. Inters[1] \in Range(Inters)
    BY <2>1 DEF Range
  <2> QED
    BY <2>1, <2>2, <1>1
<1>6. commonParentDir(Inters) =
        IF Common(dirs) = D THEN D ELSE Join(Common(dirs))
  BY <1>3 DEF commonParentDir
<1> HIDE DEF dirs
<1>7. PICK n \in 0..Len(D) :
        /\ Common(dirs) = SubSeq(D, 1, n)
        /\ \A d \in Range(dirs) : IsPrefix(SubSeq(D, 1, n), d)
        /\ n < Len(D) => \E d \in Range(dirs) : ~IsPrefix(SubSeq(D, 1, n + 1), d)
  BY <1>3, CommonFacts
<1>8. /\ D \in Seq(Component) /\ Len(D) \in Nat
      /\ SubSeq(D, 1, n) \in Seq(Component) /\ Len(SubSeq(D, 1, n)) = n
      /\ \A k \in 1..n : SubSeq(D, 1, n)[k] = D[k]
  BY <1>5, PathFacts, Upto, LenProperties
<1>9. commonParentDir(Inters) = SubSeq(D, 1, n) /\ (OneDir => commonParentDir(Inters) = D)
  <2>1. CASE OneDir
    <3>1. \A g \in Range(project.includes) : Dir(g) = D
      BY <2>1, <1>5 DEF OneDir
    <3>2. ~(n < Len(D))
      <4> SUFFICES ASSUME n < Len(D) PROVE FALSE
        OBVIOUS
      <4>1. ~IsPrefix(SubSeq(D, 1, n + 1), D)
        BY <3>1, <1>4, <1>7
      <4>2. n + 1 \in 0..Len(D)
        BY <1>8
      <4>3. /\ SubSeq(D, 1, n + 1) \in Seq(Component) /\ Len(SubSeq(D, 1, n + 1)) = n + 1
            /\ \A k \in 1..(n + 1) : SubSeq(D, 1, n + 1)[k] = D[k]
        BY <4>2, <1>8, Upto
      <4>4. Len(SubSeq(D, 1, n + 1)) <= Len(D)
        BY <4>2, <4>3, <1>8
      <4> QED
        BY <4>1, <4>3, <4>4, <1>8, PrefixIff
    <3>3. n = Len(D)
      BY <3>2, <1>8
    <3>4. SubSeq(D, 1, n) = D
      BY <3>3, <1>8, SubSeqFull
    <3> QED
      BY <3>4, <1>6, <1>7
  <2>2. CASE Relative
    <3>1. \A k \in 1..n : SubSeq(D, 1, n)[k] # Sep
      <4> TAKE k \in 1..n
      <4>1. /\ D[k] = Path(Inters[1])[k] /\ k \in 1..Len(D)
            /\ Len(D) = Len(Path(Inters[1])) - 1 /\ Len(Path(Inters[1])) \in Nat
        <5>1. k \in 1..Len(D)
          BY <1>8
        <5> QED
          BY <5>1, <1>5, PathFacts
      <4>2. CASE k = 1
        <5>1. Path(Inters[1])[1] # Sep
          BY <2>2, <1>5 DEF Relative, IsAbs
        <5> QED
          BY <5>1, <4>1, <4>2, <1>8
      <4>3. CASE k # 1
        <5>1. k \in 2..Len(project.path[Inters[1]])
          BY <4>1, <4>3 DEF Path
        <5>2. project.path[Inters[1]][k] # Sep
          BY <5>1, <1>5 DEF CleanPaths
        <5> QED
          BY <5>2, <4>1, <1>8 DEF Path
      <4> QED
        BY <4>2, <4>3
    <3>2. Sep \notin Range(SubSeq(D, 1, n))
      <4>1. DOMAIN SubSeq(D, 1, n) = 1..n
        BY <1>8, LenProperties
      <4> QED
        BY <3>1, <4>1 DEF Range
    <3>3. Join(Common(dirs)) = Common(dirs)
      BY <3>2, <1>7 DEF Join
    <3> QED
      BY <3>3, <2>1, <1>6, <1>7
  <2> QED
    BY <2>1, <2>2
<1> QED
  BY <1>4, <1>5, <1>7, <1>9

LEMMA RelativeDir ==
  ASSUME project \in Projects, NEW g \in File, ~IsAbs(Path(g)), NEW n \in 0..Len(Dir(g))
  PROVE  LET c == SubSeq(Dir(g), 1, n) IN
         /\ c \in Seq(Component)
         /\ Abs(c) \in Seq(Component) /\ Len(Abs(c)) = Len(Cwd) + n
         /\ \A k \in 1..Len(Cwd) : Abs(c)[k] = Cwd[k]
         /\ \A k \in 1..n : Abs(c)[Len(Cwd) + k] = Dir(g)[k]
<1> DEFINE c == SubSeq(Dir(g), 1, n)
<1>1. /\ Dir(g) \in Seq(Component) /\ Len(Dir(g)) \in Nat
      /\ \A k \in 1..Len(Dir(g)) : Dir(g)[k] = Path(g)[k]
  BY PathFacts, LenProperties
<1>2. c \in Seq(Component) /\ Len(c) = n /\ \A k \in 1..n : c[k] = Dir(g)[k]
  BY <1>1, Upto
<1> HIDE DEF c
<1>3. ~(c # <<>> /\ IsAbs(c))
  <2> SUFFICES ASSUME c # <<>> PROVE ~IsAbs(c)
    OBVIOUS
  <2>1. 1 \in 1..n /\ 1 \in 1..Len(Dir(g))
    BY <1>1, <1>2, EmptySeq
  <2>2. c[1] = Path(g)[1]
    BY <2>1, <1>1, <1>2
  <2> QED
    BY <2>2 DEF IsAbs
<1>4. /\ Abs(c) \in Seq(Component) /\ Len(Abs(c)) = Len(Cwd) + Len(c)
      /\ \A k \in 1..Len(Cwd) : Abs(c)[k] = Cwd[k]
      /\ \A k \in 1..Len(c) : Abs(c)[Len(Cwd) + k] = c[k]
  BY <1>2, <1>3, AbsFacts
<1>5. /\ c \in Seq(Component)
      /\ Abs(c) \in Seq(Component) /\ Len(Abs(c)) = Len(Cwd) + n
      /\ \A k \in 1..Len(Cwd) : Abs(c)[k] = Cwd[k]
      /\ \A k \in 1..n : Abs(c)[Len(Cwd) + k] = Dir(g)[k]
  BY <1>2, <1>4
<1> QED
  BY <1>5 DEF c

(* The root InRoot compares with is the longest common beginning of the    *)
(* absolute directories of the interface headers.                          *)
LEMMA RootFacts ==
  ASSUME project \in Projects, CleanPaths, Inters \in Seq(File), Inters # <<>>,
         Range(Inters) = Range(project.includes), OneDir \/ Relative
  PROVE  LET root == Abs(commonParentDir(Inters)) IN
         /\ root \in Seq(Component) /\ Len(root) \in Nat \ {0}
         /\ \A g \in Range(project.includes) : IsPrefix(root, Abs(Dir(g)))
         /\ \A h \in Range(project.includes) : \A m \in 0..Len(Abs(Dir(h))) :
              (\A g \in Range(project.includes) : IsPrefix(SubSeq(Abs(Dir(h)), 1, m), Abs(Dir(g))))
                => m <= Len(root)
<1> DEFINE D == Dir(Inters[1])
           root == Abs(commonParentDir(Inters))
<1>1. PICK n \in 0..Len(D) :
        /\ commonParentDir(Inters) = SubSeq(D, 1, n)
        /\ \A g \in Range(project.includes) : IsPrefix(SubSeq(D, 1, n), Dir(g))
        /\ n < Len(D) => \E g \in Range(project.includes) : ~IsPrefix(SubSeq(D, 1, n + 1), Dir(g))
  BY ParentFacts
<1>2. Inters[1] \in Range(project.includes) /\ (OneDir => commonParentDir(Inters) = D)
  BY ParentFacts
<1>3. Range(project.includes) \subseteq File
  BY ProjectFacts
<1>4. \A g \in Range(project.includes) : Dir(g) \in Seq(Component) /\ Len(Dir(g)) \in Nat
  BY <1>3, PathFacts, LenProperties
<1>5. D \in Seq(Component) /\ Len(D) \in Nat /\ n \in Nat
  BY <1>2, <1>4
<1>6. \A g \in Range(project.includes) : Abs(Dir(g)) \in Seq(Component) /\ Len(Abs(Dir(g))) \in Nat \ {0}
  BY <1>4, AbsFacts
<1>7. CASE OneDir
  <2>1. \A g \in Range(project.includes) : Dir(g) = D
    BY <1>2, <1>7 DEF OneDir
  <2>2. root = Abs(D)
    BY <1>2, <1>7
  <2>3. root \in Seq(Component) /\ Len(root) \in Nat \ {0}
    BY <2>2, <1>2, <1>6
  <2>4. IsPrefix(root, root)
    <3> HIDE DEF root
    <3> QED
      BY <2>3, PrefixIff
  <2>5. \A g \in Range(project.includes) : Abs(Dir(g)) = root
    BY <2>1, <2>2
  <2>6. \A g \in Range(project.includes) : \A m \in 0..Len(Abs(Dir(g))) : m <= Len(root)
    <3> HIDE DEF root
    <3> QED
      BY <2>3, <2>5
  <2> QED
    BY <2>3, <2>4, <2>5, <2>6
<1>8. CASE Relative
  <2>1. \A g \in Range(project.includes) : g \in File /\ ~IsAbs(Path(g))
    BY <1>3, <1>8 DEF Relative
  <2>2. Len(Cwd) \in Nat \ {0}
    BY PathFacts
  <2>3. /\ SubSeq(D, 1, n) \in Seq(Component)
        /\ root \in Seq(Component) /\ Len(root) = Len(Cwd) + n
        /\ \A k \in 1..Len(Cwd) : root[k] = Cwd[k]
        /\ \A k \in 1..n : root[Len(Cwd) + k] = D[k]
    BY <2>1, <1>1, <1>2, RelativeDir
  <2>4. ASSUME NEW g \in Range(project.includes)
        PROVE  /\ Len(Abs(Dir(g))) = Len(Cwd) + Len(Dir(g))
               /\ \A k \in 1..Len(Cwd) : Abs(Dir(g))[k] = Cwd[k]
               /\ \A k \in 1..Len(Dir(g)) : Abs(Dir(g))[Len(Cwd) + k] = Dir(g)[k]
    <3>1. Len(Dir(g)) \in 0..Len(Dir(g)) /\ SubSeq(Dir(g), 1, Len(Dir(g))) = Dir(g)
      BY <1>4, SubSeqFull
    <3>2. LET c == SubSeq(Dir(g), 1, Len(Dir(g))) IN
          /\ Len(Abs(c)) = Len(Cwd) + Len(Dir(g))
          /\ \A k \in 1..Len(Cwd) : Abs(c)[k] = Cwd[k]
          /\ \A k \in 1..Len(Dir(g)) : Abs(c)[Len(Cwd) + k] = Dir(g)[k]
      <4>1. Len(Dir(g)) \in 0..Len(Dir(g)) /\ g \in File /\ ~IsAbs(Path(g))
        BY <3>1, <2>1
      <4> QED
        BY <4>1, RelativeDir
    <3> QED
      BY <3>1, <3>2
  <2> HIDE DEF root, D
  <2>6. ASSUME NEW g \in Range(project.includes) PROVE IsPrefix(root, Abs(Dir(g)))
    <3>1. n <= Len(Dir(g)) /\ \A k \in 1..n : D[k] = Dir(g)[k]
      <4>1. IsPrefix(SubSeq(D, 1, n), Dir(g)) /\ Dir(g) \in Seq(Component) /\ n \in 0..Len(D)
        BY <1>1, <1>4
      <4> QED
        BY <4>1, <1>5, PrefixUpto
    <3>2. Len(root) <= Len(Abs(Dir(g)))
      BY <3>1, <2>2, <2>3, <2>4, <1>4, <1>5
    <3>3. ASSUME NEW k \in 1..Len(root) PROVE root[k] = Abs(Dir(g))[k]
      <4>1. CASE k <= Len(Cwd)
        <5>1. k \in 1..Len(Cwd)
          BY <4>1, <2>2
        <5> QED
          BY <5>1, <2>3, <2>4
      <4>2. CASE ~(k <= Len(Cwd))
        <5>1. k - Len(Cwd) \in 1..n /\ k = Len(Cwd) + (k - Len(Cwd))
          BY <4>2, <2>2, <2>3, <1>5
        <5>2. PICK j \in 1..n : k = Len(Cwd) + j
          BY <5>1
        <5>3. j \in 1..Len(Dir(g))
          BY <3>1, <1>4, <1>5
        <5> QED
          BY <5>2, <5>3, <3>1, <2>3, <2>4
      <4> QED
        BY <4>1, <4>2
    <3> QED
      BY <3>2, <3>3, <2>3, <1>6, PrefixIff
  <2>7. ASSUME NEW h \in Range(project.includes), NEW m \in 0..Len(Abs(Dir(h))),
               \A g \in Range(project.includes) : IsPrefix(SubSeq(Abs(Dir(h)), 1, m), Abs(Dir(g))),
               ~(m <= Len(root))
        PROVE  FALSE
    <3>1. /\ SubSeq(Abs(Dir(h)), 1, m) \in Seq(Component) /\ Len(SubSeq(Abs(Dir(h)), 1, m)) = m
          /\ \A k \in 1..m : SubSeq(Abs(Dir(h)), 1, m)[k] = Abs(Dir(h))[k]
      BY <1>6, Upto
    <3>2. m \in Nat /\ Len(Cwd) + (n + 1) <= m
      BY <2>2, <2>3, <2>7, <1>5, <1>6
    <3>3. ASSUME NEW g \in Range(project.includes)
          PROVE  n + 1 <= Len(Dir(g)) /\ \A k \in 1..(n + 1) : Dir(g)[k] = Abs(Dir(h))[Len(Cwd) + k]
      <4>1. m <= Len(Abs(Dir(g))) /\ \A k \in 1..m : Abs(Dir(h))[k] = Abs(Dir(g))[k]
        <5> DEFINE d == Abs(Dir(h))
                   e == Abs(Dir(g))
        <5>1. d \in Seq(Component) /\ e \in Seq(Component) /\ m \in 0..Len(d) /\ IsPrefix(SubSeq(d, 1, m), e)
          BY <2>7, <1>6
        <5> HIDE DEF d, e
        <5>2. m <= Len(e) /\ \A k \in 1..m : d[k] = e[k]
          BY <5>1, PrefixUpto
        <5> QED
          BY <5>2 DEF d, e
      <4>2. n + 1 <= Len(Dir(g))
        BY <4>1, <3>2, <2>2, <2>4, <1>4, <1>5
      <4>3. \A k \in 1..(n + 1) : Len(Cwd) + k \in 1..m /\ k \in 1..Len(Dir(g))
        BY <4>2, <3>2, <2>2, <1>4, <1>5
      <4> QED
        BY <4>1, <4>2, <4>3, <2>4
    <3>4. n + 1 \in 0..Len(D) /\ n < Len(D) /\ \A k \in 1..(n + 1) : D[k] = Abs(Dir(h))[Len(Cwd) + k]
      BY <3>3, <1>2, <1>5 DEF D
    <3>5. /\ SubSeq(D, 1, n + 1) \in Seq(Component) /\ Len(SubSeq(D, 1, n + 1)) = n + 1
          /\ \A k \in 1..(n + 1) : SubSeq(D, 1, n + 1)[k] = D[k]
      BY <3>4, <1>5, Upto
    <3>6. PICK g \in Range(project.includes) : ~IsPrefix(SubSeq(D, 1, n + 1), Dir(g))
      BY <3>4, <1>1
    <3>7. \A k \in 1..(n + 1) : SubSeq(D, 1, n + 1)[k] = Dir(g)[k]
      BY <3>3, <3>4, <3>5
    <3> QED
      BY <3>3, <3>5, <3>6, <3>7, <1>4, PrefixIff
  <2>8. Len(root) \in Nat \ {0}
    BY <2>2, <2>3, <1>5
  <2> QED
    BY <2>3, <2>6, <2>7, <2>8 DEF root
<1> QED
  BY <1>7, <1>8

(* A header is in the root as InRoot sees it exactly if it is below the    *)
(* directory the interface headers have in common.                         *)
LEMMA RootIsCommon ==
  ASSUME project \in Projects, CleanPaths, Inters \in Seq(File), Inters # <<>>,
         Range(Inters) = Range(project.includes), OneDir \/ Relative,
         NEW f \in File, NoLookalike(f)
  PROVE  InRoot(f) <=> InSameRoot(f)
<1> DEFINE root == Abs(commonParentDir(Inters))
           p == Abs(Path(f))
           q == Abs(Dir(f))
<1>1. /\ root \in Seq(Component) /\ Len(root) \in Nat \ {0}
      /\ \A g \in Range(project.includes) : IsPrefix(root, Abs(Dir(g)))
      /\ \A h \in Range(project.includes) : \A m \in 0..Len(Abs(Dir(h))) :
           (\A g \in Range(project.includes) : IsPrefix(SubSeq(Abs(Dir(h)), 1, m), Abs(Dir(g))))
             => m <= Len(root)
  BY RootFacts
<1>2. Range(project.includes) \subseteq File
  BY ProjectFacts
<1>3. \A g \in File : /\ Abs(Dir(g)) \in Seq(Component) /\ Len(Abs(Dir(g))) \in Nat \ {0}
                      /\ Abs(Path(g)) \in Seq(Component) /\ Len(Abs(Path(g))) \in Nat \ {0}
  BY PathFacts, AbsFacts
<1>4. PICK g \in Range(project.includes) : TRUE
  BY ParentFacts
<1>5. Len(q) = Len(p) - 1 /\ \A k \in 1..Len(q) : q[k] = p[k]
  BY DirOfAbs
<1>6. ~IsPrefix(p, Abs(Dir(g)))
  BY <1>2, <1>4 DEF CleanPaths, Path, Dir
<1>7. InterDirs = {Abs(Dir(h)) : h \in Range(project.includes)}
  BY DEF InterDirs
<1>8. HasPrefix(p, root) => IsPrefix(root, p)
  <2> SUFFICES ASSUME Len(p) >= Len(root), <<Last(root), p[Len(root)]>> \in Begins PROVE FALSE
    BY DEF HasPrefix
  <2>1. Len(root) <= Len(Abs(Dir(g))) /\ \A k \in 1..Len(root) : root[k] = Abs(Dir(g))[k]
    <3> HIDE DEF root
    <3> QED
      BY <1>1, <1>2, <1>3, <1>4, PrefixIff
  <2>2. Len(root) \in 1..Len(root) /\ Len(root) \in 1..Len(Abs(Dir(g))) /\ Len(root) \in 1..Len(p)
    <3> HIDE DEF root, p
    <3>1. Len(p) \in Nat
      BY <1>3 DEF p
    <3> QED
      BY <2>1, <3>1, <1>1, <1>2, <1>3, <1>4
  <2>3. Len(root) \in DOMAIN p /\ Len(root) \in DOMAIN Abs(Dir(g))
    BY <2>2, <1>2, <1>3, <1>4, LenProperties
  <2>4. <<Abs(Dir(g))[Len(root)], p[Len(root)]>> \in Begins
    BY <2>1, <2>2 DEF Last
  <2> QED
    BY <2>3, <2>4, <1>4, <1>7 DEF NoLookalike
<1>9. IsPrefix(root, p) <=> IsPrefix(root, q)
  <2>1. p \in Seq(Component) /\ q \in Seq(Component) /\ Len(p) \in Nat /\ Len(q) \in Nat
    BY <1>3
  <2>2. ~(Len(root) = Len(p) /\ \A k \in 1..Len(root) : root[k] = p[k])
    <3> SUFFICES ASSUME Len(root) = Len(p), \A k \in 1..Len(root) : root[k] = p[k] PROVE FALSE
      OBVIOUS
    <3>1. root = p
      <4> HIDE DEF root, p
      <4> QED
        BY <2>1, <1>1, SeqEqual
    <3> QED
      BY <3>1, <1>1, <1>4, <1>6
  <2> HIDE DEF root, p, q
  <2>3. IsPrefix(root, p) => Len(root) <= Len(p) /\ \A k \in 1..Len(root) : root[k] = p[k]
    BY <2>1, <1>1, PrefixIff
  <2>4. IsPrefix(root, q) => Len(root) <= Len(q) /\ \A k \in 1..Len(root) : root[k] = q[k]
    BY <2>1, <1>1, PrefixIff
  <2>5. ASSUME IsPrefix(root, p) PROVE IsPrefix(root, q)
    <3>1. Len(root) <= Len(q)
      BY <2>1, <2>2, <2>3, <2>5, <1>1, <1>5
    <3>2. \A k \in 1..Len(root) : root[k] = q[k]
      BY <3>1, <2>1, <2>3, <2>5, <1>1, <1>5
    <3> QED
      BY <3>1, <3>2, <2>1, <1>1, PrefixIff
  <2>6. ASSUME IsPrefix(root, q) PROVE IsPrefix(root, p)
    <3>0. Len(root) \in Nat /\ Len(root) <= Len(q) /\ \A k \in 1..Len(root) : root[k] = q[k] /\ k \in 1..Len(q)
      BY <2>1, <2>4, <2>6, <1>1
    <3>1. Len(root) <= Len(p) /\ \A k \in 1..Len(root) : root[k] = p[k]
      BY <3>0, <2>1, <1>5
    <3> QED
      BY <3>1, <2>1, <1>1, PrefixIff
  <2> QED
    BY <2>5, <2>6
<1>10. InSameRoot(f) <=> IsPrefix(root, q)
  <2>1. ASSUME InSameRoot(f) PROVE IsPrefix(root, q)
    <3>1. Len(root) <= Len(Abs(Dir(g))) /\ \A k \in 1..Len(root) : root[k] = Abs(Dir(g))[k]
      <4> HIDE DEF root
      <4> QED
        BY <1>1, <1>2, <1>3, <1>4, PrefixIff
    <3>2. Len(root) \in 0..Len(Abs(Dir(g)))
      <4> HIDE DEF root
      <4> QED
        BY <3>1, <1>1, <1>2, <1>3, <1>4
    <3>3. SubSeq(Abs(Dir(g)), 1, Len(root)) = root
      <4> DEFINE t == SubSeq(Abs(Dir(g)), 1, Len(root))
      <4>1. /\ t \in Seq(Component) /\ Len(t) = Len(root)
            /\ \A k \in 1..Len(root) : t[k] = Abs(Dir(g))[k]
        BY <3>2, <1>2, <1>3, <1>4, Upto
      <4> HIDE DEF t, root
      <4>2. t = root
        BY <4>1, <3>1, <1>1, SeqEqual
      <4> QED
        BY <4>2 DEF t
    <3>4. \A e \in InterDirs : IsPrefix(root, e)
      BY <1>1, <1>7
    <3>5. Abs(Dir(g)) \in InterDirs
      BY <1>4, <1>7
    <3> QED
      BY <3>2, <3>3, <3>4, <3>5, <2>1 DEF InSameRoot
  <2>2. ASSUME IsPrefix(root, q) PROVE InSameRoot(f)
    <3> SUFFICES ASSUME NEW h \in Range(project.includes), NEW m \in 0..Len(Abs(Dir(h))),
                        \A e \in InterDirs : IsPrefix(SubSeq(Abs(Dir(h)), 1, m), e)
                 PROVE  IsPrefix(SubSeq(Abs(Dir(h)), 1, m), q)
      BY <1>7 DEF InSameRoot
    <3> DEFINE d == Abs(Dir(h))
               t == SubSeq(d, 1, m)
    <3>1. d \in Seq(Component) /\ Len(d) \in Nat /\ q \in Seq(Component) /\ Len(q) \in Nat
      BY <1>2, <1>3
    <3>2. t \in Seq(Component) /\ Len(t) = m /\ \A k \in 1..m : t[k] = d[k]
      BY <3>1, Upto
    <3>3. m <= Len(root)
      BY <1>1, <1>7
    <3>4. IsPrefix(root, d)
      BY <1>1
    <3> HIDE DEF root, q, d, t
    <3>5. \A k \in 1..Len(root) : root[k] = d[k]
      BY <3>1, <3>4, <1>1, PrefixIff
    <3>6. Len(root) <= Len(q) /\ \A k \in 1..Len(root) : root[k] = q[k]
      BY <3>1, <2>2, <1>1, PrefixIff
    <3>7. m \in Nat /\ \A k \in 1..m : k \in 1..Len(root)
      BY <3>1, <3>3, <1>1 DEF d
    <3>8. Len(t) <= Len(q)
      BY <3>1, <3>2, <3>3, <3>6, <3>7, <1>1
    <3>9. \A k \in 1..Len(t) : t[k] = q[k]
      BY <3>2, <3>5, <3>6, <3>7
    <3>10. IsPrefix(t, q)
      BY <3>1, <3>2, <3>8, <3>9, PrefixIff
    <3> QED
      BY <3>10 DEF t, d, q
  <2> QED
    BY <2>1, <2>2
<1>11. InRoot(f) <=> HasPrefix(p, root)
  BY DEF InRoot
<1>12. IsPrefix(root, p) => HasPrefix(p, root)
  BY DEF HasPrefix
<1> QED
  BY <1>8, <1>9, <1>10, <1>11, <1>12

(* An interface header of one directory, or of a relative path, makes      *)
(* exactly the other headers below the common directory implementation     *)
(* headers, and with mix none.                                             *)
THEOREM LocalImpls ==
  ASSUME CleanPaths
  PROVE  Spec => []ImplsAreLocal
<1>1. IInv => ImplsAreLocal
  <2> SUFFICES ASSUME IInv, phase = "done", OneDir \/ Relative, NEW f \in Others, NoLookalike(f)
               PROVE  FileMap[f] = "impl" <=> ~project.mix /\ InSameRoot(f)
    BY DEF ImplsAreLocal
  <2>1. f \in entered /\ f \notin Range(project.includes)
    BY MapFacts DEF Others
  <2>2. FileMap[f] = "impl" <=> ~project.mix /\ InRoot(f)
    BY <2>1, MapFacts
  <2>3. /\ project \in Projects /\ Inters \in Seq(File) /\ f \in File
        /\ Range(Inters) = Range(project.includes)
    BY <2>1 DEF IInv, TypeOK, Found
  <2>4. Inters # <<>>
    <3> SUFFICES ASSUME Inters = <<>> PROVE FALSE
      OBVIOUS
    <3>1. Range(project.includes) = {}
      BY <2>3, EmptyRange
    <3>2. Closed({}) /\ {} \in SUBSET File
      BY DEF Closed
    <3>3. Reachable = {}
      BY <3>1, <3>2 DEF Reachable
    <3> QED
      BY <3>3, <2>1 DEF IInv, Found
  <2> QED
    BY <2>2, <2>3, <2>4, RootIsCommon
<1> QED
  BY <1>1, Invariance, PTL
=============================================================================
