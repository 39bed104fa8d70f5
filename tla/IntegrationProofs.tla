--------------------------- MODULE IntegrationProofs ---------------------------
(***************************************************************************)
(* The integration of a client and what Doctor says of it, proved for any  *)
(* adapters, files, lines, entries and invocations: what the user wrote is *)
(* kept, the configuration is true, a repair heals, and Doctor raises an   *)
(* alarm exactly where one is due.                                         *)
(***************************************************************************)
EXTENDS IntegrationProperties, FiniteSetTheorems, SequenceTheorems, InductionLemmas

----------------------------------------------------------------------------
(* The managed block of a file *)

LEMMA Joined ==
    ASSUME NEW S, NEW s \in Seq(S), NEW t \in Seq(S)
    PROVE  /\ s \o t \in Seq(S) /\ Len(s \o t) = Len(s) + Len(t)
           /\ Len(s) \in Nat /\ Len(t) \in Nat
           /\ \A i \in 1 .. Len(s) : (s \o t)[i] = s[i]
           /\ \A i \in 1 .. Len(t) : (s \o t)[Len(s) + i] = t[i]
  OBVIOUS

Plain(t) == t \in Seq(Lines) /\ Unmarked(t)

LEMMA MarkersDiffer == StartMarker # EndMarker /\ StartMarker \in Lines /\ EndMarker \in Lines
  BY DEF StartMarker, EndMarker, Lines

LEMMA GreatestOfOne ==
    ASSUME NEW n \in Int
    PROVE  Max({n}) = n
  <1>1. \A x \in {n} : \A y \in {n} : x >= y
    OBVIOUS
  <1>2. Max({n}) \in {n}
    <2>1. \E x \in {n} : \A y \in {n} : x >= y
      BY <1>1
    <2> QED BY <2>1, Zenon DEF Max
  <1> QED BY <1>2

LEMMA UnmarkedIs ==
    ASSUME NEW t \in Seq(Lines)
    PROVE  Unmarked(t) <=> \A i \in 1 .. Len(t) : t[i] # StartMarker /\ t[i] # EndMarker
  <1>1. DOMAIN t = 1 .. Len(t)
    OBVIOUS
  <1> QED BY <1>1 DEF Unmarked, Markers

LEMMA EmptyIsPlain == Plain(<<>>)
  <1>1. <<>> \in Seq(Lines) /\ DOMAIN <<>> = {}
    OBVIOUS
  <1> QED BY <1>1 DEF Plain, Unmarked, Markers

LEMMA PartsArePlain ==
    ASSUME NEW b, NEW a, Plain(b), Plain(a)
    PROVE  Plain(b \o a)
  <1>1. b \in Seq(Lines) /\ a \in Seq(Lines)
    BY DEF Plain
  <1>2. /\ \A i \in 1 .. Len(b) : b[i] # StartMarker /\ b[i] # EndMarker
        /\ \A i \in 1 .. Len(a) : a[i] # StartMarker /\ a[i] # EndMarker
    BY <1>1, UnmarkedIs DEF Plain
  <1> DEFINE t == b \o a
  <1>3. /\ t \in Seq(Lines) /\ Len(t) = Len(b) + Len(a)
        /\ Len(b) \in Nat /\ Len(a) \in Nat
        /\ \A i \in 1 .. Len(b) : t[i] = b[i]
        /\ \A i \in 1 .. Len(t) : i > Len(b) => t[i] = a[i - Len(b)]
    BY <1>1
  <1> HIDE DEF t
  <1>4. ASSUME NEW i \in 1 .. Len(t)
        PROVE  t[i] # StartMarker /\ t[i] # EndMarker
    <2>1. CASE i <= Len(b)
      <3>1. i \in 1 .. Len(b)
        BY <1>3, <2>1
      <3> QED BY <1>2, <1>3, <3>1
    <2>2. CASE i > Len(b)
      <3>1. i - Len(b) \in 1 .. Len(a)
        BY <1>3, <2>2
      <3> QED BY <1>2, <1>3, <2>2, <3>1
    <2> QED BY <1>3, <2>1, <2>2
  <1>5. Plain(t)
    BY <1>3, <1>4, UnmarkedIs DEF Plain
  <1> QED BY <1>5 DEF t

LEMMA PartIsPlain ==
    ASSUME NEW t \in Seq(Lines), NEW m \in Nat, NEW n \in Nat, m > 0, n <= Len(t),
           \A i \in m .. n : t[i] # StartMarker /\ t[i] # EndMarker
    PROVE  Plain(SubSeq(t, m, n))
  <1> DEFINE part == SubSeq(t, m, n)
  <1>1. /\ part \in Seq(Lines) /\ Len(part) \in Nat
        /\ \A i \in 1 .. Len(part) : part[i] = t[m + i - 1] /\ m + i - 1 \in m .. n
    OBVIOUS
  <1> HIDE DEF part
  <1>2. \A i \in 1 .. Len(part) : part[i] # StartMarker /\ part[i] # EndMarker
    BY <1>1
  <1>3. Plain(part)
    BY <1>1, <1>2, UnmarkedIs DEF Plain
  <1> QED BY <1>3 DEF part

(* Where the block of a file is.                                           *)
Span(t, s, e) ==
    /\ s \in 1 .. Len(t) /\ e \in 1 .. Len(t) /\ s < e
    /\ Markers(t, StartMarker) = {s} /\ Markers(t, EndMarker) = {e}

LEMMA SpanParts ==
    ASSUME NEW t \in Seq(Lines), NEW s \in Nat, NEW e \in Nat, Span(t, s, e)
    PROVE  /\ WellMarked(t) /\ ~Unmarked(t)
           /\ Max(Markers(t, StartMarker)) = s /\ Max(Markers(t, EndMarker)) = e
           /\ BeforeBlock(t) = SubSeq(t, 1, s - 1)
           /\ AfterBlock(t) = SubSeq(t, e + 1, Len(t))
           /\ t[s] = StartMarker /\ t[e] = EndMarker
           /\ \A i \in 1 .. Len(t) : i # s => t[i] # StartMarker
           /\ \A i \in 1 .. Len(t) : i # e => t[i] # EndMarker
  <1>1. DOMAIN t = 1 .. Len(t)
    OBVIOUS
  <1>2. Max({s}) = s /\ Max({e}) = e
    BY GreatestOfOne
  <1>3. Markers(t, StartMarker) = {s} /\ Markers(t, EndMarker) = {e}
    BY DEF Span
  <1>4. BeforeBlock(t) = SubSeq(t, 1, s - 1) /\ AfterBlock(t) = SubSeq(t, e + 1, Len(t))
    BY <1>2, <1>3 DEF BeforeBlock, AfterBlock
  <1>5. WellMarked(t) /\ ~Unmarked(t)
    BY <1>1, <1>3 DEF Span, WellMarked, Unmarked
  <1>6. \A i \in 1 .. Len(t) : (t[i] = StartMarker <=> i = s) /\ (t[i] = EndMarker <=> i = e)
    BY <1>1, <1>3 DEF Markers
  <1> QED BY <1>2, <1>3, <1>4, <1>5, <1>6 DEF Span

LEMMA WellMarkedHasSpan ==
    ASSUME NEW t \in Seq(Lines), WellMarked(t)
    PROVE  \E s, e \in Nat : Span(t, s, e)
  <1>1. DOMAIN t = 1 .. Len(t)
    OBVIOUS
  <1> QED BY <1>1 DEF WellMarked, Span

(* A file that can be managed, by what is outside of the block.            *)
LEMMA Framed ==
    ASSUME NEW t \in Seq(Lines), Manageable(t)
    PROVE  \E b, a : /\ Plain(b) /\ Plain(a)
                     /\ Render(t) = b \o Block \o a
                     /\ RemoveBlock(t) = b \o a
  <1>1. CASE Unmarked(t)
    <2>1. Plain(t) /\ Plain(<<>>)
      BY <1>1, EmptyIsPlain DEF Plain
    <2>2. Block \in Seq(Lines)
      BY MarkersDiffer DEF Block
    <2>3. Render(t) = t \o Block \o <<>>
      <3>1. Render(t) = t \o Block
        BY <1>1 DEF Render
      <3>2. t \o Block \in Seq(Lines)
        BY <2>2
      <3>3. (t \o Block) \o <<>> = t \o Block
        BY <3>2
      <3> QED BY <3>1, <3>3
    <2>4. RemoveBlock(t) = t \o <<>>
      <3>1. t \o <<>> = t
        OBVIOUS
      <3> QED BY <1>1, <3>1 DEF RemoveBlock
    <2> QED BY <2>1, <2>3, <2>4
  <1>2. CASE WellMarked(t)
    <2>1. PICK s, e \in Nat : Span(t, s, e)
      BY <1>2, WellMarkedHasSpan
    <2> DEFINE b == BeforeBlock(t)
               a == AfterBlock(t)
    <2>2. /\ b = SubSeq(t, 1, s - 1) /\ a = SubSeq(t, e + 1, Len(t)) /\ ~Unmarked(t)
          /\ \A i \in 1 .. Len(t) : i # s => t[i] # StartMarker
          /\ \A i \in 1 .. Len(t) : i # e => t[i] # EndMarker
      BY <2>1, SpanParts
    <2>3. s \in 1 .. Len(t) /\ e \in 1 .. Len(t) /\ s < e /\ Len(t) \in Nat
      BY <2>1 DEF Span
    <2>4. Plain(b)
      <3>1. \A i \in 1 .. s - 1 : i \in 1 .. Len(t) /\ i # s /\ i # e
        BY <2>3
      <3>2. \A i \in 1 .. s - 1 : t[i] # StartMarker /\ t[i] # EndMarker
        BY <2>2, <3>1
      <3>3. 1 \in Nat /\ s - 1 \in Nat /\ s - 1 <= Len(t) /\ 1 > 0
        BY <2>3
      <3>4. Plain(SubSeq(t, 1, s - 1))
        BY <3>2, <3>3, PartIsPlain
      <3> QED BY <2>2, <3>4
    <2>5. Plain(a)
      <3>1. \A i \in e + 1 .. Len(t) : i \in 1 .. Len(t) /\ i # s /\ i # e
        BY <2>3
      <3>2. \A i \in e + 1 .. Len(t) : t[i] # StartMarker /\ t[i] # EndMarker
        BY <2>2, <3>1
      <3>3. e + 1 \in Nat /\ e + 1 > 0 /\ Len(t) <= Len(t)
        BY <2>3
      <3>4. Plain(SubSeq(t, e + 1, Len(t)))
        BY <2>3, <3>2, <3>3, PartIsPlain
      <3> QED BY <2>2, <3>4
    <2>6. Render(t) = b \o Block \o a /\ RemoveBlock(t) = b \o a
      BY <2>2 DEF Render, RemoveBlock
    <2> HIDE DEF b, a
    <2> QED BY <2>4, <2>5, <2>6
  <1> QED BY <1>1, <1>2 DEF Manageable

LEMMA BlockIsRead ==
    ASSUME NEW b, NEW a, Plain(b), Plain(a)
    PROVE  LET t == b \o Block \o a
           IN  /\ t \in Seq(Lines)
               /\ Span(t, Len(b) + 1, Len(b) + 2)
               /\ BeforeBlock(t) = b /\ AfterBlock(t) = a
  <1> DEFINE t == b \o Block \o a
             s == Len(b) + 1
             e == Len(b) + 2
  <1>1. b \in Seq(Lines) /\ a \in Seq(Lines) /\ Len(b) \in Nat /\ Len(a) \in Nat
    BY DEF Plain
  <1>2. /\ \A i \in 1 .. Len(b) : b[i] # StartMarker /\ b[i] # EndMarker
        /\ \A i \in 1 .. Len(a) : a[i] # StartMarker /\ a[i] # EndMarker
    BY <1>1, UnmarkedIs DEF Plain
  <1>3. Block \in Seq(Lines) /\ Len(Block) = 2 /\ Block[1] = StartMarker /\ Block[2] = EndMarker
    BY MarkersDiffer DEF Block
  <1> DEFINE head == b \o Block
  <1>4. /\ head \in Seq(Lines) /\ Len(head) = e
        /\ \A i \in 1 .. Len(b) : head[i] = b[i]
        /\ head[s] = StartMarker /\ head[e] = EndMarker
    <2>1. head \in Seq(Lines) /\ Len(head) = e
      <3>1. b \in Seq(Lines) /\ Block \in Seq(Lines)
        BY <1>1, <1>3
      <3>2. head \in Seq(Lines) /\ Len(head) = Len(b) + Len(Block)
        BY <3>1, Joined
      <3> HIDE DEF head
      <3> QED BY <1>1, <1>3, <3>2
    <2>2. \A i \in 1 .. Len(b) : head[i] = b[i]
      BY <1>1, <1>3
    <2>3. head[s] = Block[1] /\ head[e] = Block[2]
      <3>1. b \in Seq(Lines) /\ Block \in Seq(Lines)
        BY <1>1, <1>3
      <3>2. \A i \in 1 .. Len(Block) : head[Len(b) + i] = Block[i]
        BY <3>1, Joined
      <3> HIDE DEF head
      <3>3. 1 \in 1 .. Len(Block) /\ 2 \in 1 .. Len(Block)
        BY <1>3
      <3> QED BY <1>3, <3>2, <3>3
    <2> QED BY <1>3, <2>1, <2>2, <2>3
  <1> HIDE DEF head
  <1>5. /\ head \o a \in Seq(Lines) /\ Len(head \o a) = e + Len(a)
        /\ \A i \in 1 .. e : (head \o a)[i] = head[i]
        /\ \A i \in 1 .. Len(a) : (head \o a)[e + i] = a[i]
    <2>1. head \in Seq(Lines) /\ a \in Seq(Lines)
      BY <1>1, <1>4
    <2>2. /\ head \o a \in Seq(Lines) /\ Len(head \o a) = Len(head) + Len(a)
          /\ \A i \in 1 .. Len(head) : (head \o a)[i] = head[i]
          /\ \A i \in 1 .. Len(a) : (head \o a)[Len(head) + i] = a[i]
      BY <2>1, Joined
    <2> QED BY <1>4, <2>2
  <1>6. t = head \o a
    BY DEF head
  <1> HIDE DEF t
  <1>7. /\ t \in Seq(Lines) /\ Len(t) = e + Len(a) /\ DOMAIN t = 1 .. Len(t)
        /\ \A i \in 1 .. Len(b) : t[i] = b[i]
        /\ t[s] = StartMarker /\ t[e] = EndMarker
        /\ \A i \in 1 .. Len(a) : t[e + i] = a[i]
    <2>1. /\ \A i \in 1 .. Len(b) : i \in 1 .. e
          /\ s \in 1 .. e /\ e \in 1 .. e
      BY <1>1
    <2>2. DOMAIN t = 1 .. Len(t)
      BY <1>5, <1>6
    <2> QED BY <1>4, <1>5, <1>6, <2>1, <2>2
  <1>8. \A i \in 1 .. Len(t) : (t[i] = StartMarker <=> i = s) /\ (t[i] = EndMarker <=> i = e)
    <2>1. ASSUME NEW i \in 1 .. Len(t)
          PROVE  (t[i] = StartMarker <=> i = s) /\ (t[i] = EndMarker <=> i = e)
      <3>1. CASE i \in 1 .. Len(b)
        <4>1. i # s /\ i # e
          BY <1>1, <3>1
        <4> QED BY <1>2, <1>7, <3>1, <4>1
      <3>2. CASE i = s
        <4>1. s # e
          BY <1>1
        <4> QED BY <1>7, <3>2, <4>1, MarkersDiffer
      <3>3. CASE i = e
        <4>1. s # e
          BY <1>1
        <4> QED BY <1>7, <3>3, <4>1, MarkersDiffer
      <3>4. CASE i > e
        <4>1. i - e \in 1 .. Len(a) /\ i = e + (i - e) /\ i # s /\ i # e
          BY <1>1, <1>7, <3>4
        <4>2. t[i] = a[i - e]
          BY <1>7, <4>1
        <4> QED BY <1>2, <4>1, <4>2
      <3> QED BY <1>1, <1>7, <3>1, <3>2, <3>3, <3>4
    <2> QED BY <2>1
  <1>9. s \in 1 .. Len(t) /\ e \in 1 .. Len(t) /\ s < e /\ s \in Nat /\ e \in Nat
    BY <1>1, <1>7
  <1>10. Span(t, s, e)
    <2> HIDE DEF s, e
    <2>1. Markers(t, StartMarker) = {s} /\ Markers(t, EndMarker) = {e}
      BY <1>7, <1>8, <1>9 DEF Markers
    <2> QED BY <1>9, <2>1 DEF Span
  <1>11. BeforeBlock(t) = SubSeq(t, 1, s - 1) /\ AfterBlock(t) = SubSeq(t, e + 1, Len(t))
    <2> HIDE DEF s, e
    <2> QED BY <1>7, <1>9, <1>10, SpanParts
  <1>12. SubSeq(t, 1, s - 1) = b
    <2> DEFINE p == SubSeq(t, 1, s - 1)
    <2>1. /\ p \in Seq(Lines) /\ Len(p) = Len(b)
          /\ \A i \in 1 .. Len(b) : p[i] = t[i]
      BY <1>1, <1>7
    <2> HIDE DEF p
    <2>2. b \in Seq(Lines) /\ \A i \in 1 .. Len(b) : t[i] = b[i]
      BY <1>1, <1>7
    <2>3. \A i \in 1 .. Len(p) : p[i] = b[i]
      BY <2>1, <2>2
    <2>4. p = b
      BY <2>1, <2>2, <2>3, SeqEqual
    <2> QED BY <2>4 DEF p
  <1>13. SubSeq(t, e + 1, Len(t)) = a
    <2> DEFINE p == SubSeq(t, e + 1, Len(t))
    <2>1. /\ p \in Seq(Lines) /\ Len(p) = Len(a)
          /\ \A i \in 1 .. Len(a) : p[i] = t[e + i]
      BY <1>1, <1>7
    <2> HIDE DEF p
    <2>2. a \in Seq(Lines) /\ \A i \in 1 .. Len(a) : t[e + i] = a[i]
      BY <1>1, <1>7
    <2>3. \A i \in 1 .. Len(p) : p[i] = a[i]
      BY <2>1, <2>2
    <2>4. p = a
      BY <2>1, <2>2, <2>3, SeqEqual
    <2> QED BY <2>4 DEF p
  <1> QED BY <1>7, <1>10, <1>11, <1>12, <1>13 DEF t

(* What render and remove make of a file that can be managed.              *)
LEMMA RenderedIs ==
    ASSUME NEW t \in Seq(Lines), Manageable(t)
    PROVE  /\ Render(t) \in Seq(Lines)
           /\ WellMarked(Render(t)) /\ ~Unmarked(Render(t)) /\ Current(Render(t))
           /\ RemoveBlock(Render(t)) = RemoveBlock(t)
  <1>1. PICK b, a : /\ Plain(b) /\ Plain(a)
                    /\ Render(t) = b \o Block \o a
                    /\ RemoveBlock(t) = b \o a
    BY Framed
  <1> DEFINE r == b \o Block \o a
             s == Len(b) + 1
             e == Len(b) + 2
  <1>2. r \in Seq(Lines) /\ Span(r, s, e) /\ BeforeBlock(r) = b /\ AfterBlock(r) = a
    BY <1>1, BlockIsRead
  <1>3. s \in Nat /\ e \in Nat /\ e = s + 1
    BY <1>1 DEF Plain
  <1> HIDE DEF r, s, e
  <1>4. WellMarked(r) /\ ~Unmarked(r) /\ Max(Markers(r, StartMarker)) = s /\ Max(Markers(r, EndMarker)) = e
    BY <1>2, <1>3, SpanParts
  <1>5. Current(r)
    BY <1>3, <1>4 DEF Current
  <1>6. RemoveBlock(r) = b \o a
    BY <1>2, <1>4 DEF RemoveBlock
  <1>7. r = Render(t)
    BY <1>1 DEF r
  <1> QED BY <1>1, <1>2, <1>4, <1>5, <1>6, <1>7

LEMMA RemovedIs ==
    ASSUME NEW t \in Seq(Lines), Manageable(t)
    PROVE  Plain(RemoveBlock(t))
  <1>1. PICK b, a : Plain(b) /\ Plain(a) /\ RemoveBlock(t) = b \o a
    BY Framed
  <1> QED BY <1>1, PartsArePlain

LEMMA NeverBoth ==
    ASSUME NEW t, Unmarked(t)
    PROVE  ~WellMarked(t)
  BY DEF Unmarked, WellMarked

(* Rendering changes nothing where the block is current.                   *)
LEMMA CurrentIsRendered ==
    ASSUME NEW t \in Seq(Lines), Manageable(t)
    PROVE  Render(t) = t <=> Current(t)
  <1>1. ASSUME Current(t)
        PROVE  Render(t) = t
    <2>1. WellMarked(t)
      BY <1>1 DEF Current
    <2>2. PICK s, e \in Nat : Span(t, s, e)
      BY <2>1, WellMarkedHasSpan
    <2>3. /\ BeforeBlock(t) = SubSeq(t, 1, s - 1) /\ AfterBlock(t) = SubSeq(t, e + 1, Len(t))
          /\ ~Unmarked(t) /\ t[s] = StartMarker /\ t[e] = EndMarker
          /\ Max(Markers(t, StartMarker)) = s /\ Max(Markers(t, EndMarker)) = e
      BY <2>2, SpanParts
    <2>4. s \in 1 .. Len(t) /\ e \in 1 .. Len(t) /\ e = s + 1 /\ Len(t) \in Nat
      BY <1>1, <2>2, <2>3 DEF Span, Current
    <2> DEFINE b == SubSeq(t, 1, s - 1)
               a == SubSeq(t, e + 1, Len(t))
               r == b \o Block \o a
    <2>5. Render(t) = r
      BY <2>3 DEF Render
    <2>6. /\ b \in Seq(Lines) /\ Len(b) = s - 1 /\ \A i \in 1 .. s - 1 : b[i] = t[i]
      BY <2>4
    <2>7. /\ a \in Seq(Lines) /\ Len(a) = Len(t) - e /\ Len(a) \in Nat
          /\ \A i \in 1 .. Len(t) - e : a[i] = t[e + i]
      BY <2>4
    <2>8. Block \in Seq(Lines) /\ Len(Block) = 2 /\ Block[1] = StartMarker /\ Block[2] = EndMarker
      BY MarkersDiffer DEF Block
    <2> HIDE DEF b, a
    <2> DEFINE head == b \o Block
    <2>9. /\ head \in Seq(Lines) /\ Len(head) = e
          /\ \A i \in 1 .. s - 1 : head[i] = b[i]
          /\ head[s] = Block[1] /\ head[e] = Block[2]
      <3>0. b \in Seq(Lines) /\ Block \in Seq(Lines)
        BY <2>6, <2>8
      <3>1. /\ head \in Seq(Lines) /\ Len(head) = Len(b) + Len(Block)
            /\ \A i \in 1 .. Len(b) : head[i] = b[i]
            /\ \A i \in 1 .. Len(Block) : head[Len(b) + i] = Block[i]
        BY <3>0, Joined
      <3> HIDE DEF head
      <3>2. head[Len(b) + 1] = Block[1] /\ head[Len(b) + 2] = Block[2]
        BY <2>8, <3>1
      <3> QED BY <2>4, <2>6, <2>8, <3>1, <3>2
    <2> HIDE DEF head
    <2>10. \A i \in 1 .. e : head[i] = t[i]
      <3>1. \A i \in 1 .. e : i \in 1 .. s - 1 \/ i = s \/ i = e
        BY <2>4
      <3> QED BY <2>3, <2>6, <2>8, <2>9, <3>1
    <2>11. /\ head \o a \in Seq(Lines) /\ Len(head \o a) = e + Len(a)
           /\ \A i \in 1 .. e : (head \o a)[i] = head[i]
           /\ \A i \in 1 .. Len(a) : (head \o a)[e + i] = a[i]
      <3>0. head \in Seq(Lines) /\ a \in Seq(Lines)
        BY <2>7, <2>9
      <3>1. /\ head \o a \in Seq(Lines) /\ Len(head \o a) = Len(head) + Len(a)
            /\ \A i \in 1 .. Len(head) : (head \o a)[i] = head[i]
            /\ \A i \in 1 .. Len(a) : (head \o a)[Len(head) + i] = a[i]
        BY <3>0, Joined
      <3> QED BY <2>9, <3>1
    <2>12. r = head \o a
      BY DEF head
    <2> HIDE DEF r
    <2>13. Len(r) = Len(t) /\ r \in Seq(Lines)
      <3>1. r \in Seq(Lines) /\ Len(r) = e + Len(a)
        BY <2>11, <2>12
      <3>2. e + Len(a) = Len(t)
        BY <2>4, <2>7
      <3> QED BY <3>1, <3>2
    <2>14. ASSUME NEW i \in 1 .. Len(t)
           PROVE  r[i] = t[i]
      <3>1. CASE i <= e
        <4>1. i \in 1 .. e
          BY <2>4, <3>1
        <4> QED BY <2>10, <2>11, <2>12, <4>1
      <3>2. CASE i > e
        <4>1. i - e \in 1 .. Len(t) - e /\ e + (i - e) = i
          BY <2>4, <3>2
        <4>2. r[e + (i - e)] = a[i - e]
          BY <2>7, <2>11, <2>12, <4>1
        <4> QED BY <2>7, <4>1, <4>2
      <3> QED BY <2>4, <3>1, <3>2
    <2>15. r = t
      BY <2>13, <2>14
    <2> QED BY <2>5, <2>15
  <1>2. ASSUME Render(t) = t
        PROVE  Current(t)
    BY <1>2, RenderedIs
  <1> QED BY <1>1, <1>2

----------------------------------------------------------------------------
(* The entries of the settings *)

Own == {entry \in SettingsEntry : ~IsManagedHook(entry)}

LEMMA OwnSequences ==
    ASSUME NEW s \in Seq(Own)
    PROVE  s \in Seq(SettingsEntry) /\ \A i \in 1 .. Len(s) : ~IsManagedHook(s[i])
  <1>1. Own \subseteq SettingsEntry /\ \A entry \in Own : ~IsManagedHook(entry)
    BY DEF Own
  <1> HIDE DEF Own
  <1>2. \A i \in 1 .. Len(s) : s[i] \in Own
    OBVIOUS
  <1>3. s \in Seq(SettingsEntry)
    <2> DEFINE S == SettingsEntry
    <2>1. Own \subseteq S
      BY <1>1
    <2> HIDE DEF S
    <2>2. s \in Seq(S)
      BY <2>1
    <2> QED BY <2>2 DEF S
  <1> QED BY <1>1, <1>2, <1>3

IsKept(h, entries) ==
    h = [n \in 0 .. Len(entries) |->
            IF n = 0 THEN <<>>
            ELSE IF IsManagedHook(entries[n]) THEN h[n - 1]
            ELSE Append(h[n - 1], entries[n])]

(* The entries without the hook, as a running selection.                   *)
LEMMA KeptRuns ==
    ASSUME NEW entries \in Seq(SettingsEntry)
    PROVE  \E h \in [0 .. Len(entries) -> Seq(Own)] :
               /\ h[0] = <<>>
               /\ \A n \in 1 .. Len(entries) :
                      h[n] = IF IsManagedHook(entries[n]) THEN h[n - 1]
                             ELSE Append(h[n - 1], entries[n])
               /\ WithoutHook(entries) = h[Len(entries)]
  <1> DEFINE N == Len(entries)
             S == Seq(Own)
             base == <<>>
             grown(n, s) == IF IsManagedHook(entries[n]) THEN s ELSE Append(s, entries[n])
             step == [n \in 1 .. N |-> [s \in S |-> grown(n, s)]]
  <1>1. N \in Nat /\ \A n \in 1 .. N : entries[n] \in SettingsEntry
    <2> DEFINE E == SettingsEntry
    <2>1. entries \in Seq(E)
      OBVIOUS
    <2> HIDE DEF E
    <2>2. N \in Nat /\ \A n \in 1 .. N : entries[n] \in E
      BY <2>1
    <2> QED BY <2>2 DEF E
  <1>2. ASSUME NEW n \in 1 .. N, NEW s \in S
        PROVE  grown(n, s) \in S
    <2>1. CASE IsManagedHook(entries[n])
      <3> HIDE DEF S
      <3> QED BY <2>1
    <2>2. CASE ~IsManagedHook(entries[n])
      <3>1. entries[n] \in Own
        BY <1>1, <2>2 DEF Own
      <3>2. Append(s, entries[n]) \in S
        BY <3>1
      <3> QED BY <2>2, <3>2
    <2> QED BY <2>1, <2>2
  <1>3. base \in S
    OBVIOUS
  <1> HIDE DEF S, base, grown
  <1>4. step \in [1 .. N -> [S -> S]]
    BY <1>2
  <1>5. PICK h \in [0 .. N -> S] : h[0] = base /\ \A n \in 1 .. N : h[n] = step[n][h[n - 1]]
    <2>1. base \in S /\ step \in [1 .. N -> [S -> S]] /\ N \in Nat
      BY <1>1, <1>3, <1>4
    <2> HIDE DEF step, N
    <2>2. \E h \in [0 .. N -> S] : h[0] = base /\ \A n \in 1 .. N : h[n] = step[n][h[n - 1]]
      BY <2>1, Recursion
    <2> QED BY <2>2
  <1>6. ASSUME NEW n \in 0 .. N
        PROVE  h[n] = IF n = 0 THEN base ELSE grown(n, h[n - 1])
    <2>1. CASE n = 0
      BY <1>5, <2>1
    <2>2. CASE n # 0
      <3>1. n \in 1 .. N /\ n - 1 \in 0 .. N
        BY <1>1, <2>2
      <3>2. h[n] = step[n][h[n - 1]] /\ h[n - 1] \in S
        BY <1>5, <3>1
      <3>3. step[n][h[n - 1]] = grown(n, h[n - 1])
        BY <3>1, <3>2
      <3> HIDE DEF step
      <3> QED BY <2>2, <3>2, <3>3
    <2> QED BY <2>1, <2>2
  <1>7. IsKept(h, entries)
    <2>1. h = [n \in 0 .. N |-> IF n = 0 THEN base ELSE grown(n, h[n - 1])]
      <3> HIDE DEF N, step
      <3> QED BY <1>5, <1>6
    <2> QED BY <2>1, Zenon DEF IsKept, N, base, grown
  <1>8. PICK kept : IsKept(kept, entries) /\ WithoutHook(entries) = kept[N]
    <2>1. IsKept(CHOOSE g : IsKept(g, entries), entries)
      BY <1>7, Zenon
    <2>2. WithoutHook(entries) = (CHOOSE g : IsKept(g, entries))[N]
      BY Zenon DEF WithoutHook, IsKept
    <2> QED BY <2>1, <2>2
  <1>9. \A n \in 0 .. N : kept[n] = IF n = 0 THEN base ELSE grown(n, kept[n - 1])
    BY <1>8, Zenon DEF IsKept, grown, base
  <1>10. \A n \in 1 .. N : n \in 0 .. N /\ n # 0 /\ kept[n] = grown(n, kept[n - 1])
    <2>1. \A n \in 1 .. N : n \in 0 .. N /\ n # 0
      BY <1>1
    <2> HIDE DEF N
    <2> QED BY <1>9, <2>1
  <1>11. 0 \in 0 .. N /\ kept[0] = base
    <2>1. 0 \in 0 .. N
      BY <1>1
    <2> QED BY <1>9, <2>1
  <1> DEFINE T == {n \in 0 .. N : kept[n] \in S}
  <1>12. \A n \in 0 .. N : n \in T
    <2>1. 0 \in T
      BY <1>3, <1>11
    <2>2. ASSUME NEW n \in 1 .. N, n - 1 \in T
          PROVE  n \in T
      <3>1. n \in 0 .. N /\ kept[n] = grown(n, kept[n - 1])
        BY <1>10
      <3>2. kept[n] \in S
        BY <1>2, <2>2, <3>1
      <3> QED BY <3>1, <3>2
    <2> HIDE DEF T, N
    <2> QED BY <1>1, <2>1, <2>2, Counting
  <1>13. kept \in [0 .. N -> S]
    <2>1. \A n \in 0 .. N : kept[n] \in S
      BY <1>12
    <2>2. kept = [n \in 0 .. N |-> kept[n]]
      BY <1>8, Zenon DEF IsKept, N
    <2> HIDE DEF N, T
    <2> QED BY <2>1, <2>2
  <1> HIDE DEF T, N
  <1> QED BY <1>8, <1>10, <1>11, <1>13 DEF grown, base, S, N

LEMMA WithoutHookIsOwn ==
    ASSUME NEW entries \in Seq(SettingsEntry)
    PROVE  WithoutHook(entries) \in Seq(Own)
  <1> DEFINE S == Seq(Own)
             N == Len(entries)
  <1>1. PICK h \in [0 .. N -> S] : WithoutHook(entries) = h[N]
    BY KeptRuns
  <1>2. N \in 0 .. N
    OBVIOUS
  <1> HIDE DEF N, S
  <1>3. WithoutHook(entries) \in S
    BY <1>1, <1>2
  <1> QED BY <1>3 DEF S

(* Without a hook nothing is left out.                                     *)
LEMMA OwnIsKept ==
    ASSUME NEW entries \in Seq(Own)
    PROVE  WithoutHook(entries) = entries
  <1> DEFINE N == Len(entries)
             part(n) == SubSeq(entries, 1, n)
  <1>1. entries \in Seq(SettingsEntry) /\ \A n \in 1 .. N : ~IsManagedHook(entries[n])
    BY OwnSequences
  <1>2. PICK h \in [0 .. N -> Seq(Own)] :
            /\ h[0] = <<>>
            /\ \A n \in 1 .. N : h[n] = IF IsManagedHook(entries[n]) THEN h[n - 1]
                                        ELSE Append(h[n - 1], entries[n])
            /\ WithoutHook(entries) = h[N]
    BY <1>1, KeptRuns
  <1>3. N \in Nat /\ part(0) = <<>> /\ part(N) = entries
    OBVIOUS
  <1>4. \A n \in 1 .. N : part(n) = Append(part(n - 1), entries[n])
    OBVIOUS
  <1>5. \A n \in 1 .. N : h[n] = Append(h[n - 1], entries[n])
    BY <1>1, <1>2
  <1> DEFINE T == {n \in 0 .. N : h[n] = part(n)}
  <1> HIDE DEF part
  <1>6. \A n \in 0 .. N : n \in T
    <2>1. 0 \in T
      BY <1>2, <1>3
    <2>2. ASSUME NEW n \in 1 .. N, n - 1 \in T
          PROVE  n \in T
      <3>1. n \in 0 .. N
        BY <1>3
      <3>2. h[n - 1] = part(n - 1)
        BY <2>2
      <3> QED BY <1>4, <1>5, <3>1, <3>2
    <2> HIDE DEF T, N
    <2> QED BY <1>3, <2>1, <2>2, Counting
  <1>7. N \in T
    <2>1. N \in 0 .. N
      BY <1>3
    <2> HIDE DEF T, N
    <2> QED BY <1>6, <2>1
  <1> QED BY <1>2, <1>3, <1>7

(* An entry with the hook at the end is left out.                          *)
LEMMA LastIsDropped ==
    ASSUME NEW entries \in Seq(SettingsEntry), NEW entry \in SettingsEntry, IsManagedHook(entry)
    PROVE  WithoutHook(Append(entries, entry)) = WithoutHook(entries)
  <1> DEFINE N == Len(entries)
             more == Append(entries, entry)
             M == Len(more)
  <1>1. /\ more \in Seq(SettingsEntry) /\ N \in Nat /\ M = N + 1 /\ more[M] = entry
        /\ \A n \in 1 .. N : more[n] = entries[n]
    <2> DEFINE E == SettingsEntry
    <2>1. entries \in Seq(E) /\ entry \in E
      OBVIOUS
    <2> HIDE DEF E
    <2>2. /\ more \in Seq(E) /\ N \in Nat /\ M = N + 1 /\ more[N + 1] = entry
          /\ \A n \in 1 .. N : more[n] = entries[n]
      BY <2>1
    <2> QED BY <2>2 DEF E
  <1> HIDE DEF N, more, M
  <1>2. PICK h \in [0 .. N -> Seq(Own)] :
            /\ h[0] = <<>>
            /\ \A n \in 1 .. N : h[n] = IF IsManagedHook(entries[n]) THEN h[n - 1]
                                        ELSE Append(h[n - 1], entries[n])
            /\ WithoutHook(entries) = h[N]
    BY KeptRuns DEF N
  <1>3. PICK g \in [0 .. M -> Seq(Own)] :
            /\ g[0] = <<>>
            /\ \A n \in 1 .. M : g[n] = IF IsManagedHook(more[n]) THEN g[n - 1]
                                        ELSE Append(g[n - 1], more[n])
            /\ WithoutHook(more) = g[M]
    BY <1>1, KeptRuns DEF M
  <1> DEFINE T == {n \in 0 .. N : g[n] = h[n]}
  <1>4. \A n \in 0 .. N : n \in T
    <2>1. 0 \in T
      BY <1>1, <1>2, <1>3
    <2>2. ASSUME NEW n \in 1 .. N, n - 1 \in T
          PROVE  n \in T
      <3>1. n \in 0 .. N /\ n \in 1 .. M
        BY <1>1
      <3>2. more[n] = entries[n] /\ g[n - 1] = h[n - 1]
        BY <1>1, <2>2
      <3> QED BY <1>2, <1>3, <3>1, <3>2
    <2> HIDE DEF T
    <2> QED BY <1>1, <2>1, <2>2, Counting
  <1>5. N \in 0 .. N /\ M \in 1 .. M /\ M - 1 = N
    BY <1>1
  <1>6. g[M] = g[N]
    BY <1>1, <1>3, <1>5
  <1>7. g[N] = h[N]
    BY <1>4, <1>5
  <1> QED BY <1>2, <1>3, <1>6, <1>7 DEF more

LEMMA InstalledEntries ==
    ASSUME NEW content, Text(content) \in Seq(SettingsEntry)
    PROVE  /\ InstallSettings(content) \in Seq(SettingsEntry)
           /\ WithoutHook(InstallSettings(content)) = WithoutHook(Text(content))
  <1> DEFINE kept == WithoutHook(Text(content))
  <1>1. kept \in Seq(Own)
    BY WithoutHookIsOwn
  <1>2. kept \in Seq(SettingsEntry) /\ WithoutHook(kept) = kept
    BY <1>1, OwnSequences, OwnIsKept
  <1>3. {Hook} \in SettingsEntry /\ IsManagedHook({Hook})
    BY DEF SettingsEntry, IsManagedHook
  <1> HIDE DEF kept
  <1>4. Append(kept, {Hook}) \in Seq(SettingsEntry)
    <2> DEFINE E == SettingsEntry
               last == {Hook}
    <2>1. kept \in Seq(E) /\ last \in E
      BY <1>2, <1>3
    <2> HIDE DEF E, last
    <2>2. Append(kept, last) \in Seq(E)
      BY <2>1
    <2> QED BY <2>2 DEF E, last
  <1>5. WithoutHook(Append(kept, {Hook})) = kept
    BY <1>2, <1>3, LastIsDropped
  <1> QED BY <1>4, <1>5 DEF InstallSettings, kept

----------------------------------------------------------------------------
(* How often the hook is in the settings *)

LEMMA InstalledIsOne ==
    ASSUME NEW content, Text(content) \in Seq(SettingsEntry)
    PROVE  SettingsInstalled(content) <=> \E k : HookEntries(content) = {k}
  <1>1. DOMAIN Text(content) = 1 .. Len(Text(content)) /\ Len(Text(content)) \in Nat
    OBVIOUS
  <1>2. IsFiniteSet(1 .. Len(Text(content)))
    BY <1>1, FS_Interval
  <1>3. HookEntries(content) \subseteq 1 .. Len(Text(content))
    BY <1>1 DEF HookEntries
  <1>4. IsFiniteSet(HookEntries(content))
    BY <1>2, <1>3, FS_Subset
  <1> QED BY <1>4, FS_Singleton DEF SettingsInstalled

LEMMA OwnHasNone ==
    ASSUME NEW content, Text(content) \in Seq(Own)
    PROVE  HookEntries(content) = {} /\ ~SettingsInstalled(content)
  <1>1. /\ Text(content) \in Seq(SettingsEntry)
        /\ \A i \in 1 .. Len(Text(content)) : ~IsManagedHook(Text(content)[i])
    BY OwnSequences
  <1>2. DOMAIN Text(content) = 1 .. Len(Text(content))
    OBVIOUS
  <1>3. HookEntries(content) = {}
    BY <1>1, <1>2 DEF HookEntries
  <1>4. ~SettingsInstalled(content)
    BY <1>1, <1>3, InstalledIsOne
  <1> QED BY <1>3, <1>4

LEMMA InstallingInstalls ==
    ASSUME IntegrationAssumption, NEW content, Text(content) \in Seq(SettingsEntry)
    PROVE  /\ InstallSettings(content) # Absent
           /\ SettingsInstalled(InstallSettings(content))
           /\ Cardinality(HookEntries(InstallSettings(content))) = 1
  <1> DEFINE kept == WithoutHook(Text(content))
             k == Len(kept) + 1
             new == InstallSettings(content)
  <1>1. kept \in Seq(Own)
    BY WithoutHookIsOwn
  <1>2. Len(kept) \in Nat /\ \A i \in 1 .. Len(kept) : ~IsManagedHook(kept[i])
    <2>1. \A i \in 1 .. Len(kept) : ~IsManagedHook(kept[i])
      BY <1>1, OwnSequences
    <2> QED BY <1>1, <2>1
  <1>3. new \in Seq(SettingsEntry)
    BY InstalledEntries
  <1>4. new # Absent /\ Text(new) = new
    BY <1>3 DEF IntegrationAssumption, Text
  <1>5. IsManagedHook({Hook})
    BY DEF IsManagedHook
  <1>6. /\ DOMAIN new = 1 .. k /\ new[k] = {Hook}
        /\ \A i \in 1 .. Len(kept) : new[i] = kept[i]
    <2> DEFINE last == {Hook}
    <2>1. new = Append(kept, last)
      BY DEF InstallSettings
    <2> HIDE DEF kept, new, last
    <2>2. /\ DOMAIN Append(kept, last) = 1 .. k /\ Append(kept, last)[k] = last
          /\ \A i \in 1 .. Len(kept) : Append(kept, last)[i] = kept[i]
      BY <1>1
    <2> QED BY <2>1, <2>2 DEF last
  <1> HIDE DEF new, kept
  <1>7. \A i \in 1 .. k : IsManagedHook(new[i]) <=> i = k
    <2>1. \A i \in 1 .. k : i = k \/ i \in 1 .. Len(kept)
      BY <1>2
    <2>2. \A i \in 1 .. Len(kept) : i # k
      BY <1>2
    <2> QED BY <1>2, <1>5, <1>6, <2>1, <2>2
  <1>8. k \in 1 .. k
    BY <1>2
  <1>9. HookEntries(new) = {k}
    <2> HIDE DEF k
    <2> QED BY <1>4, <1>6, <1>7, <1>8 DEF HookEntries
  <1>10. SettingsInstalled(new) /\ Cardinality(HookEntries(new)) = 1
    BY <1>9, FS_Singleton DEF SettingsInstalled
  <1> QED BY <1>4, <1>10 DEF new

----------------------------------------------------------------------------
(* What an edit of the user leaves of a file *)

LEMMA RemovedAt ==
    ASSUME NEW S, NEW s \in Seq(S), NEW i \in 1 .. Len(s)
    PROVE  /\ RemoveAt(s, i) \in Seq(S)
           /\ Len(RemoveAt(s, i)) = Len(s) - 1 /\ Len(s) \in Nat
           /\ \A j \in 1 .. Len(s) - 1 :
                  RemoveAt(s, i)[j] = IF j < i THEN s[j] ELSE s[j + 1]
  <1> DEFINE b == SubSeq(s, 1, i - 1)
             a == SubSeq(s, i + 1, Len(s))
             r == b \o a
  <1>1. Len(s) \in Nat
    OBVIOUS
  <1>2. b \in Seq(S) /\ Len(b) = i - 1 /\ \A j \in 1 .. i - 1 : b[j] = s[j]
    BY <1>1
  <1>3. /\ a \in Seq(S) /\ Len(a) = Len(s) - i
        /\ \A j \in 1 .. Len(s) - i : a[j] = s[i + j]
    BY <1>1
  <1>4. RemoveAt(s, i) = r
    BY DEF RemoveAt
  <1> HIDE DEF a, b
  <1>5. /\ r \in Seq(S) /\ Len(r) = Len(b) + Len(a)
        /\ \A j \in 1 .. Len(b) : r[j] = b[j]
        /\ \A j \in 1 .. Len(a) : r[Len(b) + j] = a[j]
    <2>1. b \in Seq(S) /\ a \in Seq(S)
      BY <1>2, <1>3
    <2> QED BY <2>1, Joined
  <1> HIDE DEF r
  <1>6. Len(r) = Len(s) - 1
    BY <1>1, <1>2, <1>3, <1>5
  <1>7. ASSUME NEW j \in 1 .. Len(s) - 1
        PROVE  r[j] = IF j < i THEN s[j] ELSE s[j + 1]
    <2>1. CASE j < i
      <3>1. j \in 1 .. i - 1
        BY <1>1, <2>1
      <3>2. r[j] = b[j]
        BY <1>2, <1>5, <3>1
      <3> QED BY <1>2, <2>1, <3>1, <3>2
    <2>2. CASE ~(j < i)
      <3>1. j - (i - 1) \in 1 .. Len(s) - i /\ (i - 1) + (j - (i - 1)) = j
            /\ i + (j - (i - 1)) = j + 1
        BY <1>1, <2>2
      <3>2. r[(i - 1) + (j - (i - 1))] = a[j - (i - 1)]
        BY <1>2, <1>3, <1>5, <3>1
      <3>3. a[j - (i - 1)] = s[i + (j - (i - 1))]
        BY <1>3, <3>1
      <3> QED BY <2>2, <3>1, <3>2, <3>3
    <2> QED BY <2>1, <2>2
  <1> QED BY <1>1, <1>4, <1>5, <1>6, <1>7

LEMMA InsertedAt ==
    ASSUME NEW S, NEW s \in Seq(S), NEW x \in S, NEW i \in 1 .. Len(s) + 1
    PROVE  /\ InsertAt(s, i, x) \in Seq(S)
           /\ Len(InsertAt(s, i, x)) = Len(s) + 1 /\ Len(s) \in Nat
           /\ InsertAt(s, i, x)[i] = x
           /\ \A j \in 1 .. Len(s) :
                  InsertAt(s, i, x)[IF j < i THEN j ELSE j + 1] = s[j]
  <1> DEFINE b == SubSeq(s, 1, i - 1)
             c == <<x>>
             a == SubSeq(s, i, Len(s))
             h == b \o c
             r == h \o a
  <1>1. Len(s) \in Nat
    OBVIOUS
  <1>2. b \in Seq(S) /\ Len(b) = i - 1 /\ \A j \in 1 .. i - 1 : b[j] = s[j]
    BY <1>1
  <1>3. /\ a \in Seq(S) /\ Len(a) = Len(s) - i + 1
        /\ \A j \in 1 .. Len(s) - i + 1 : a[j] = s[i + j - 1]
    BY <1>1
  <1>4. c \in Seq(S) /\ Len(c) = 1 /\ c[1] = x
    OBVIOUS
  <1>5. InsertAt(s, i, x) = r
    BY DEF InsertAt
  <1> HIDE DEF a, b, c
  <1>6. /\ h \in Seq(S) /\ Len(h) = Len(b) + Len(c)
        /\ \A j \in 1 .. Len(b) : h[j] = b[j]
        /\ \A j \in 1 .. Len(c) : h[Len(b) + j] = c[j]
    <2>1. b \in Seq(S) /\ c \in Seq(S)
      BY <1>2, <1>4
    <2> QED BY <2>1, Joined
  <1> HIDE DEF h
  <1>7. /\ r \in Seq(S) /\ Len(r) = Len(h) + Len(a)
        /\ \A j \in 1 .. Len(h) : r[j] = h[j]
        /\ \A j \in 1 .. Len(a) : r[Len(h) + j] = a[j]
    <2>1. h \in Seq(S) /\ a \in Seq(S)
      BY <1>3, <1>6
    <2> QED BY <2>1, Joined
  <1> HIDE DEF r
  <1>8. Len(h) = i /\ h[i] = x /\ i \in 1 .. i
    <2>1. Len(h) = i /\ 1 \in 1 .. Len(c) /\ Len(b) + 1 = i
      BY <1>2, <1>4, <1>6
    <2> QED BY <1>4, <1>6, <2>1
  <1>9. Len(r) = Len(s) + 1 /\ r[i] = x
    BY <1>1, <1>3, <1>7, <1>8
  <1>10. ASSUME NEW j \in 1 .. Len(s)
         PROVE  r[IF j < i THEN j ELSE j + 1] = s[j]
    <2>1. CASE j < i
      <3>1. j \in 1 .. i - 1 /\ j \in 1 .. i
        BY <1>1, <2>1
      <3> QED BY <1>2, <1>6, <1>7, <1>8, <2>1, <3>1
    <2>2. CASE ~(j < i)
      <3>1. j - i + 1 \in 1 .. Len(s) - i + 1 /\ i + (j - i + 1) = j + 1
            /\ i + (j - i + 1) - 1 = j
        BY <1>1, <2>2
      <3>2. r[i + (j - i + 1)] = a[j - i + 1]
        BY <1>3, <1>7, <1>8, <3>1
      <3>3. a[j - i + 1] = s[i + (j - i + 1) - 1]
        BY <1>3, <3>1
      <3> QED BY <2>2, <3>1, <3>2, <3>3
    <2> QED BY <2>1, <2>2
  <1> QED BY <1>1, <1>5, <1>7, <1>9, <1>10

(* A line of the user's more or less neither makes nor takes a marker.     *)
LEMMA LineIsWritten ==
    ASSUME IntegrationAssumption,
           NEW t \in Seq(Lines), NEW i \in 1 .. Len(t) + 1, NEW line \in UserLines
    PROVE  InsertAt(t, i, line) \in Seq(Lines)
           /\ (Unmarked(InsertAt(t, i, line)) <=> Unmarked(t))
  <1> DEFINE r == InsertAt(t, i, line)
  <1>1. line \in Lines /\ line # StartMarker /\ line # EndMarker
    BY DEF IntegrationAssumption, Lines
  <1>2. /\ r \in Seq(Lines) /\ Len(r) = Len(t) + 1 /\ Len(t) \in Nat /\ r[i] = line
        /\ \A j \in 1 .. Len(t) : r[IF j < i THEN j ELSE j + 1] = t[j]
    BY <1>1, InsertedAt
  <1> HIDE DEF r
  <1>3. ASSUME Unmarked(r), NEW j \in 1 .. Len(t)
        PROVE  t[j] # StartMarker /\ t[j] # EndMarker
    <2>1. (IF j < i THEN j ELSE j + 1) \in 1 .. Len(r)
      BY <1>2
    <2> QED BY <1>2, <1>3, <2>1, UnmarkedIs
  <1>4. ASSUME Unmarked(t), NEW j \in 1 .. Len(r)
        PROVE  r[j] # StartMarker /\ r[j] # EndMarker
    <2>1. CASE j < i
      <3>1. j \in 1 .. Len(t)
        BY <1>2, <2>1
      <3> QED BY <1>2, <1>4, <2>1, <3>1, UnmarkedIs
    <2>2. CASE j = i
      BY <1>1, <1>2, <2>2
    <2>3. CASE j > i
      <3>1. j - 1 \in 1 .. Len(t) /\ ~(j - 1 < i) /\ (j - 1) + 1 = j
        BY <1>2, <2>3
      <3>2. r[j] = t[j - 1]
        BY <1>2, <3>1
      <3> QED BY <1>4, <3>1, <3>2, UnmarkedIs
    <2> QED BY <1>2, <2>1, <2>2, <2>3
  <1>5. Unmarked(r) <=> Unmarked(t)
    BY <1>2, <1>3, <1>4, UnmarkedIs
  <1> QED BY <1>2, <1>5 DEF r

LEMMA LineIsDropped ==
    ASSUME IntegrationAssumption, NEW t \in Seq(Lines), NEW i \in 1 .. Len(t)
    PROVE  RemoveAt(t, i) \in Seq(Lines)
           /\ (t[i] \in UserLines => (Unmarked(RemoveAt(t, i)) <=> Unmarked(t)))
  <1> DEFINE r == RemoveAt(t, i)
  <1>1. /\ r \in Seq(Lines) /\ Len(r) = Len(t) - 1 /\ Len(t) \in Nat
        /\ \A j \in 1 .. Len(t) - 1 : r[j] = IF j < i THEN t[j] ELSE t[j + 1]
    BY RemovedAt
  <1> HIDE DEF r
  <1>2. SUFFICES ASSUME t[i] \in UserLines
                 PROVE  Unmarked(r) <=> Unmarked(t)
    BY <1>1 DEF r
  <1>3. t[i] # StartMarker /\ t[i] # EndMarker
    BY <1>2 DEF IntegrationAssumption
  <1>4. ASSUME Unmarked(r), NEW j \in 1 .. Len(t)
        PROVE  t[j] # StartMarker /\ t[j] # EndMarker
    <2>1. CASE j < i
      <3>1. j \in 1 .. Len(t) - 1 /\ j \in 1 .. Len(r)
        BY <1>1, <2>1
      <3> QED BY <1>1, <1>4, <2>1, <3>1, UnmarkedIs
    <2>2. CASE j = i
      BY <1>3, <2>2
    <2>3. CASE j > i
      <3>1. j - 1 \in 1 .. Len(t) - 1 /\ j - 1 \in 1 .. Len(r) /\ ~(j - 1 < i)
            /\ (j - 1) + 1 = j
        BY <1>1, <2>3
      <3>2. r[j - 1] = t[j]
        BY <1>1, <3>1
      <3> QED BY <1>1, <1>4, <3>1, <3>2, UnmarkedIs
    <2> QED BY <2>1, <2>2, <2>3
  <1>5. ASSUME Unmarked(t), NEW j \in 1 .. Len(r)
        PROVE  r[j] # StartMarker /\ r[j] # EndMarker
    <2>1. j \in 1 .. Len(t) - 1 /\ j \in 1 .. Len(t) /\ j + 1 \in 1 .. Len(t)
      BY <1>1
    <2> QED BY <1>1, <1>5, <2>1, UnmarkedIs
  <1> QED BY <1>1, <1>4, <1>5, UnmarkedIs

LEMMA EntrySequence ==
    ASSUME NEW s \in Seq(SettingsEntry), NEW e \in SettingsEntry
    PROVE  /\ Append(s, e) \in Seq(SettingsEntry) /\ Len(s) \in Nat
           /\ DOMAIN s = 1 .. Len(s) /\ DOMAIN Append(s, e) = 1 .. Len(s) + 1
           /\ Append(s, e)[Len(s) + 1] = e
           /\ \A j \in 1 .. Len(s) : s[j] \in SettingsEntry /\ Append(s, e)[j] = s[j]
  <1> DEFINE E == SettingsEntry
  <1>1. s \in Seq(E) /\ e \in E
    OBVIOUS
  <1> HIDE DEF E
  <1>2. /\ Append(s, e) \in Seq(E) /\ Len(s) \in Nat
        /\ DOMAIN s = 1 .. Len(s) /\ DOMAIN Append(s, e) = 1 .. Len(s) + 1
        /\ Append(s, e)[Len(s) + 1] = e
        /\ \A j \in 1 .. Len(s) : s[j] \in E /\ Append(s, e)[j] = s[j]
    BY <1>1
  <1> QED BY <1>2 DEF E

LEMMA OfText ==
    ASSUME IntegrationAssumption, NEW s \in Seq(SettingsEntry)
    PROVE  s # Absent /\ Text(s) = s
  BY DEF IntegrationAssumption, Text

(* The settings with an entry, or a command, of the user's more.           *)
LEMMA EntryIsAdded ==
    ASSUME IntegrationAssumption, NEW content, Text(content) \in Seq(SettingsEntry),
           NEW command \in UserCommands
    PROVE  /\ Append(Text(content), {command}) \in Seq(SettingsEntry)
           /\ SettingsInstalled(Append(Text(content), {command}))
                  <=> SettingsInstalled(content)
  <1> DEFINE s == Text(content)
             e == {command}
             r == Append(s, e)
  <1>1. e \in SettingsEntry /\ ~IsManagedHook(e)
    BY DEF IntegrationAssumption, SettingsEntry, IsManagedHook
  <1> HIDE DEF e
  <1>2. /\ r \in Seq(SettingsEntry) /\ Len(s) \in Nat
        /\ DOMAIN s = 1 .. Len(s) /\ DOMAIN r = 1 .. Len(s) + 1
        /\ r[Len(s) + 1] = e
        /\ \A j \in 1 .. Len(s) : r[j] = s[j]
    BY <1>1, EntrySequence
  <1>3. r # Absent /\ Text(r) = r
    BY <1>2, OfText
  <1> HIDE DEF r
  <1>4. HookEntries(r) = HookEntries(content)
    <2>1. HookEntries(r) = {j \in 1 .. Len(s) + 1 : IsManagedHook(r[j])}
      BY <1>2, <1>3 DEF HookEntries
    <2>2. HookEntries(content) = {j \in 1 .. Len(s) : IsManagedHook(s[j])}
      BY <1>2 DEF HookEntries
    <2> HIDE DEF s
    <2> QED BY <1>1, <1>2, <2>1, <2>2
  <1>5. SettingsInstalled(r) <=> SettingsInstalled(content)
    BY <1>4 DEF SettingsInstalled
  <1> QED BY <1>2, <1>5 DEF r, e

LEMMA PartIsAdded ==
    ASSUME IntegrationAssumption, NEW s \in Seq(SettingsEntry), NEW i \in 1 .. Len(s),
           NEW part \in UserCommands \cup {Altered}
    PROVE  /\ [s EXCEPT ![i] = @ \cup {part}] \in Seq(SettingsEntry)
           /\ SettingsInstalled([s EXCEPT ![i] = @ \cup {part}]) <=> SettingsInstalled(s)
  <1> DEFINE E == SettingsEntry
             e == s[i] \cup {part}
             r == [s EXCEPT ![i] = e]
  <1>1. Len(s) \in Nat /\ DOMAIN s = 1 .. Len(s) /\ \A j \in 1 .. Len(s) : s[j] \in E
    BY {Hook} \in SettingsEntry, EntrySequence DEF SettingsEntry
  <1>2. e \in E /\ (IsManagedHook(e) <=> IsManagedHook(s[i]))
    <2>1. s[i] \in E
      BY <1>1
    <2>2. part # Hook
      BY DEF IntegrationAssumption, Altered, Hook
    <2> QED BY <2>1, <2>2 DEF SettingsEntry, IsManagedHook
  <1> HIDE DEF e
  <1>3. /\ r \in Seq(SettingsEntry) /\ DOMAIN r = 1 .. Len(s)
        /\ r[i] = e /\ \A j \in 1 .. Len(s) : j # i => r[j] = s[j]
    <2>1. s \in Seq(E)
      OBVIOUS
    <2> HIDE DEF E
    <2>2. r \in Seq(E)
      BY <1>2, <2>1
    <2>3. DOMAIN r = 1 .. Len(s)
      BY <1>1
    <2>4. r[i] = e /\ \A j \in 1 .. Len(s) : j # i => r[j] = s[j]
      BY <1>1
    <2> QED BY <2>2, <2>3, <2>4 DEF E
  <1>4. r = [s EXCEPT ![i] = @ \cup {part}]
    BY DEF e
  <1> HIDE DEF r
  <1>5. Text(r) = r /\ Text(s) = s
    BY <1>3, OfText
  <1>6. HookEntries(r) = HookEntries(s)
    <2>1. HookEntries(r) = {j \in 1 .. Len(s) : IsManagedHook(r[j])}
      BY <1>3, <1>5 DEF HookEntries
    <2>2. HookEntries(s) = {j \in 1 .. Len(s) : IsManagedHook(s[j])}
      BY <1>1, <1>5 DEF HookEntries
    <2>3. \A j \in 1 .. Len(s) : IsManagedHook(r[j]) <=> IsManagedHook(s[j])
      BY <1>2, <1>3
    <2> QED BY <2>1, <2>2, <2>3
  <1> QED BY <1>3, <1>4, <1>6 DEF SettingsInstalled

(* An entry of the user's less, and the hook is where it was, or one       *)
(* earlier.                                                                *)
LEMMA EntryIsDropped ==
    ASSUME IntegrationAssumption, NEW s \in Seq(SettingsEntry), NEW i \in 1 .. Len(s)
    PROVE  /\ RemoveAt(s, i) \in Seq(SettingsEntry)
           /\ ~IsManagedHook(s[i])
                  => (SettingsInstalled(RemoveAt(s, i)) <=> SettingsInstalled(s))
  <1> DEFINE E == SettingsEntry
             r == RemoveAt(s, i)
             N == Len(s)
  <1>1. /\ r \in Seq(SettingsEntry) /\ Len(r) = N - 1 /\ N \in Nat
        /\ \A j \in 1 .. N - 1 : r[j] = IF j < i THEN s[j] ELSE s[j + 1]
    <2>1. s \in Seq(E) /\ i \in 1 .. Len(s)
      OBVIOUS
    <2> HIDE DEF E
    <2>2. /\ r \in Seq(E) /\ Len(r) = N - 1 /\ N \in Nat
          /\ \A j \in 1 .. N - 1 : r[j] = IF j < i THEN s[j] ELSE s[j + 1]
      BY <2>1, RemovedAt
    <2> QED BY <2>2 DEF E
  <1> HIDE DEF r
  <1>2. SUFFICES ASSUME ~IsManagedHook(s[i])
                 PROVE  SettingsInstalled(r) <=> SettingsInstalled(s)
    BY <1>1 DEF r
  <1>3. Text(r) = r /\ Text(s) = s
    BY <1>1, OfText
  <1>4. DOMAIN r = 1 .. N - 1 /\ DOMAIN s = 1 .. N
    BY <1>1
  <1> HIDE DEF N
  <1>5. /\ \A j : j \in HookEntries(r) <=> j \in 1 .. N - 1 /\ IsManagedHook(r[j])
        /\ \A j : j \in HookEntries(s) <=> j \in 1 .. N /\ IsManagedHook(s[j])
    BY <1>3, <1>4 DEF HookEntries
  <1>6. ASSUME NEW k, HookEntries(s) = {k}
        PROVE  \E m : HookEntries(r) = {m}
    <2> DEFINE m == IF k < i THEN k ELSE k - 1
    <2>1. k \in 1 .. N /\ IsManagedHook(s[k]) /\ k # i
      BY <1>2, <1>5, <1>6
    <2>2. m \in 1 .. N - 1 /\ (m < i <=> k < i) /\ (~(m < i) => m + 1 = k)
      BY <1>1, <2>1, i \in 1 .. N DEF N
    <2>3. m \in HookEntries(r)
      BY <1>1, <1>5, <2>1, <2>2
    <2>4. ASSUME NEW j \in HookEntries(r)
          PROVE  j = m
      <3>1. j \in 1 .. N - 1 /\ IsManagedHook(r[j])
        BY <1>5
      <3>2. CASE j < i
        <4>1. j \in 1 .. N /\ r[j] = s[j]
          BY <1>1, <3>1, <3>2
        <4> QED BY <1>5, <1>6, <3>1, <3>2, <4>1
      <3>3. CASE ~(j < i)
        <4>1. j + 1 \in 1 .. N /\ r[j] = s[j + 1]
          BY <1>1, <3>1, <3>3
        <4>2. j + 1 = k
          BY <1>5, <1>6, <3>1, <4>1
        <4> QED BY <1>1, <2>1, <3>1, <3>3, <4>2, i \in Int
      <3> QED BY <3>2, <3>3
    <2> HIDE DEF m
    <2> QED BY <2>3, <2>4
  <1>7. ASSUME NEW m, HookEntries(r) = {m}
        PROVE  \E k : HookEntries(s) = {k}
    <2> DEFINE k == IF m < i THEN m ELSE m + 1
    <2>1. m \in 1 .. N - 1 /\ IsManagedHook(r[m])
      BY <1>5, <1>7
    <2>2. k \in 1 .. N /\ r[m] = s[k]
      BY <1>1, <2>1, i \in 1 .. N DEF N
    <2>3. k \in HookEntries(s)
      BY <1>5, <2>1, <2>2
    <2>4. ASSUME NEW j \in HookEntries(s)
          PROVE  j = k
      <3>1. j \in 1 .. N /\ IsManagedHook(s[j]) /\ j # i
        BY <1>2, <1>5
      <3>2. CASE j < i
        <4>1. j \in 1 .. N - 1 /\ r[j] = s[j]
          BY <1>1, <3>1, <3>2, i \in 1 .. N DEF N
        <4> QED BY <1>5, <1>7, <3>1, <3>2, <4>1
      <3>3. CASE j > i
        <4>1. j - 1 \in 1 .. N - 1 /\ ~(j - 1 < i) /\ (j - 1) + 1 = j
          BY <1>1, <3>1, <3>3, i \in 1 .. N DEF N
        <4>2. r[j - 1] = s[j]
          BY <1>1, <4>1
        <4>3. j - 1 = m
          BY <1>5, <1>7, <3>1, <4>1, <4>2
        <4> QED BY <2>1, <4>1, <4>3
      <3> QED BY <3>1, <3>2, <3>3, i \in Int
    <2> HIDE DEF k
    <2> QED BY <2>3, <2>4
  <1>8. SettingsInstalled(r) <=> \E m : HookEntries(r) = {m}
    BY <1>1, <1>3, InstalledIsOne
  <1>9. SettingsInstalled(s) <=> \E k : HookEntries(s) = {k}
    BY <1>3, InstalledIsOne
  <1> QED BY <1>6, <1>7, <1>8, <1>9

----------------------------------------------------------------------------
(* The files *)

LEMMA FileNames ==
    ASSUME IntegrationAssumption
    PROVE  /\ Projected \subseteq Files
           /\ Settings \in Files /\ ConfigFile \in Files /\ CapabilitiesFile \in Files
           /\ Settings # ConfigFile /\ Settings # CapabilitiesFile /\ ConfigFile # CapabilitiesFile
           /\ Settings \notin Projected /\ ConfigFile \notin Projected
           /\ CapabilitiesFile \notin Projected
           /\ \A file \in Files : \/ file \in Projected
                                  \/ file \in {Settings, ConfigFile, CapabilitiesFile}
  <1>1. Settings # ConfigFile /\ Settings # CapabilitiesFile /\ ConfigFile # CapabilitiesFile
    BY DEF Settings, ConfigFile, CapabilitiesFile
  <1> QED BY <1>1 DEF IntegrationAssumption, Files

LEMMA OfAdapter ==
    ASSUME IntegrationAssumption, NEW a \in Adapters
    PROVE  /\ ProjectionOf(a) \subseteq Projected
           /\ a = Generic => ProjectionOf(a) = {}
           /\ a # Generic => ProjectionOf(a) = {Projection[a]}
           /\ \A b \in Adapters : a # b => ProjectionOf(a) \cap ProjectionOf(b) = {}
  <1>1. /\ a = Generic => ProjectionOf(a) = {}
        /\ a # Generic => ProjectionOf(a) = {Projection[a]}
    BY DEF IntegrationAssumption, ProjectionOf
  <1>2. ProjectionOf(a) \subseteq Projected
    BY DEF Projected, ProjectionOf
  <1>3. ASSUME NEW b \in Adapters, a # b
        PROVE  ProjectionOf(a) \cap ProjectionOf(b) = {}
    <2>1. CASE a = Generic \/ b = Generic
      BY <2>1 DEF IntegrationAssumption, ProjectionOf
    <2>2. CASE a # Generic /\ b # Generic
      <3>1. Projection[a] # Projection[b]
        BY <1>3, <2>2 DEF IntegrationAssumption
      <3> QED BY <3>1 DEF ProjectionOf
    <2> QED BY <2>1, <2>2
  <1> QED BY <1>1, <1>2, <1>3

(* What a file can hold.                                                   *)
Fits(file, content) ==
    /\ file \in Projected => content \in Seq(Lines)
    /\ file = Settings => content \in Seq(SettingsEntry)
    /\ file = ConfigFile => /\ content \in Configuration
                            /\ content.managed = ProjectionOf(content.adapter)
    /\ file = CapabilitiesFile => content \in {Observed, Declared}

LEMMA WhatFitsIsThere ==
    ASSUME IntegrationAssumption, NEW file \in Files, NEW content, Fits(file, content)
    PROVE  content # Absent
  <1>1. CASE file \in Projected
    BY <1>1 DEF Fits, IntegrationAssumption
  <1>2. CASE file = Settings
    BY <1>2 DEF Fits, IntegrationAssumption
  <1>3. CASE file = ConfigFile
    BY <1>3 DEF Fits, IntegrationAssumption
  <1>4. CASE file = CapabilitiesFile
    BY <1>4 DEF Fits, IntegrationAssumption
  <1> QED BY <1>1, <1>2, <1>3, <1>4, FileNames

FilesFit(f) ==
    /\ f = [file \in Files |-> f[file]]
    /\ \A file \in Files : f[file] = Absent \/ Fits(file, f[file])

LEMMA ConfigurationFits ==
    ASSUME IntegrationAssumption, NEW a \in Adapters
    PROVE  Fits(ConfigFile, [adapter |-> a, managed |-> ProjectionOf(a)])
  <1>1. ProjectionOf(a) \in SUBSET Projected
    BY OfAdapter
  <1>2. [adapter |-> a, managed |-> ProjectionOf(a)] \in Configuration
    BY <1>1 DEF Configuration
  <1> QED BY <1>2, FileNames DEF Fits

LEMMA Configured ==
    ASSUME IntegrationAssumption, NEW f, FilesFit(f), f[ConfigFile] # Absent
    PROVE  /\ f[ConfigFile].adapter \in Adapters
           /\ f[ConfigFile].managed = ProjectionOf(f[ConfigFile].adapter)
           /\ f[ConfigFile].managed \subseteq Projected
  <1>1. Fits(ConfigFile, f[ConfigFile])
    BY FileNames DEF FilesFit
  <1> QED BY <1>1 DEF Fits, Configuration

LEMMA TextFits ==
    ASSUME IntegrationAssumption, NEW f, FilesFit(f)
    PROVE  /\ \A path \in Projected : Text(f[path]) \in Seq(Lines)
           /\ Text(f[Settings]) \in Seq(SettingsEntry)
  <1>1. ASSUME NEW path \in Projected
        PROVE  Text(f[path]) \in Seq(Lines)
    <2>1. f[path] = Absent \/ f[path] \in Seq(Lines)
      BY FileNames DEF FilesFit, Fits
    <2>2. <<>> \in Seq(Lines)
      OBVIOUS
    <2> QED BY <2>1, <2>2 DEF Text
  <1>2. f[Settings] = Absent \/ f[Settings] \in Seq(SettingsEntry)
    BY FileNames DEF FilesFit, Fits
  <1>3. <<>> \in Seq(SettingsEntry)
    OBVIOUS
  <1> QED BY <1>1, <1>2, <1>3 DEF Text

(* What a plan proposes.                                                   *)
Proposed(after) ==
    DOMAIN after \subseteq Files /\ \A file \in DOMAIN after : Fits(file, after[file])

LEMMA WhatIsAppliedFits ==
    ASSUME NEW after, NEW f, Proposed(after), FilesFit(f)
    PROVE  FilesFit(Over(after, f))
  BY DEF Proposed, FilesFit, Over

----------------------------------------------------------------------------
(* The plans, by the files whose block they render or remove *)

HasBlock(content) == ~Unmarked(Text(content))

Preserves(after, f) ==
    /\ \A path \in DOMAIN after \cap Projected : Outside(after[path]) = Outside(f[path])
    /\ Settings \in DOMAIN after => OwnEntries(after[Settings]) = OwnEntries(f[Settings])

PlannedFrom(after, rendered, removed, f) ==
    /\ DOMAIN after \subseteq rendered \cup removed \cup {Settings, ConfigFile, CapabilitiesFile}
    /\ rendered \subseteq Projected /\ removed \subseteq Projected
    /\ \A path \in rendered : /\ Manageable(Text(f[path]))
                              /\ after[path] = Render(Text(f[path]))
    /\ \A path \in removed : /\ f[path] # Absent /\ Manageable(Text(f[path]))
                             /\ after[path] = RemoveBlock(f[path])
    /\ Settings \in DOMAIN after =>
           \/ after[Settings] = InstallSettings(f[Settings])
           \/ f[Settings] # Absent /\ after[Settings] = UninstallSettings(f[Settings])
    /\ ConfigFile \in DOMAIN after => Fits(ConfigFile, after[ConfigFile])
    /\ CapabilitiesFile \in DOMAIN after => after[CapabilitiesFile] = Observed

LEMMA OutsideOfManageable ==
    ASSUME IntegrationAssumption, NEW content, Text(content) \in Seq(Lines),
           Manageable(Text(content))
    PROVE  Outside(content) = RemoveBlock(Text(content))
  <1>1. CASE WellMarked(Text(content))
    <2>1. content # Absent
      <3>1. SUFFICES ASSUME content = Absent
                     PROVE  FALSE
        OBVIOUS
      <3>2. Text(content) = <<>>
        BY <3>1 DEF Text
      <3>3. Unmarked(Text(content))
        BY <3>2, EmptyIsPlain DEF Plain
      <3> QED BY <1>1, <3>3, NeverBoth
    <2>2. Text(content) = content
      BY <2>1 DEF Text
    <2> QED BY <1>1, <2>2 DEF Outside
  <1>2. CASE ~WellMarked(Text(content))
    <2>1. Unmarked(Text(content))
      BY <1>2 DEF Manageable
    <2> QED BY <1>2, <2>1 DEF Outside, RemoveBlock
  <1> QED BY <1>1, <1>2

LEMMA OfLines ==
    ASSUME IntegrationAssumption, NEW t \in Seq(Lines)
    PROVE  t # Absent /\ Text(t) = t
  BY DEF IntegrationAssumption, Text

LEMMA RenderedFile ==
    ASSUME IntegrationAssumption, NEW content, Text(content) \in Seq(Lines),
           Manageable(Text(content)), NEW new, new = Render(Text(content))
    PROVE  /\ new \in Seq(Lines) /\ Current(new) /\ HasBlock(new)
           /\ Outside(new) = Outside(content)
  <1> DEFINE t == Text(content)
  <1>1. /\ new \in Seq(Lines) /\ WellMarked(new) /\ ~Unmarked(new) /\ Current(new)
        /\ RemoveBlock(new) = RemoveBlock(t)
    BY RenderedIs
  <1>2. Text(new) = new
    BY <1>1, OfLines
  <1>3. Outside(new) = RemoveBlock(new)
    BY <1>1, <1>2 DEF Outside
  <1>4. Outside(content) = RemoveBlock(t)
    BY OutsideOfManageable
  <1> QED BY <1>1, <1>2, <1>3, <1>4 DEF HasBlock

LEMMA RemovedFile ==
    ASSUME IntegrationAssumption, NEW content, Text(content) \in Seq(Lines),
           Manageable(Text(content)), content # Absent, NEW new, new = RemoveBlock(content)
    PROVE  /\ new \in Seq(Lines) /\ ~HasBlock(new)
           /\ Outside(new) = Outside(content)
  <1>1. Text(content) = content
    BY DEF Text
  <1>2. Plain(new)
    BY <1>1, RemovedIs
  <1>3. new \in Seq(Lines) /\ Unmarked(new) /\ Text(new) = new
    BY <1>2, OfLines DEF Plain
  <1>4. Outside(new) = new
    BY <1>3, NeverBoth DEF Outside
  <1>5. Outside(content) = new
    BY <1>1, OutsideOfManageable
  <1> QED BY <1>3, <1>4, <1>5 DEF HasBlock

LEMMA SettingsFile ==
    ASSUME IntegrationAssumption, NEW content, Text(content) \in Seq(SettingsEntry)
    PROVE  /\ InstallSettings(content) \in Seq(SettingsEntry)
           /\ SettingsInstalled(InstallSettings(content))
           /\ OwnEntries(InstallSettings(content)) = OwnEntries(content)
           /\ content # Absent =>
                  /\ UninstallSettings(content) \in Seq(SettingsEntry)
                  /\ ~SettingsInstalled(UninstallSettings(content))
                  /\ OwnEntries(UninstallSettings(content)) = OwnEntries(content)
  <1>1. /\ InstallSettings(content) \in Seq(SettingsEntry)
        /\ WithoutHook(InstallSettings(content)) = WithoutHook(Text(content))
    BY InstalledEntries
  <1>2. Text(InstallSettings(content)) = InstallSettings(content)
    BY <1>1, OfText
  <1>3. OwnEntries(InstallSettings(content)) = OwnEntries(content)
    BY <1>1, <1>2 DEF OwnEntries
  <1>4. ASSUME content # Absent
        PROVE  /\ UninstallSettings(content) \in Seq(SettingsEntry)
               /\ ~SettingsInstalled(UninstallSettings(content))
               /\ OwnEntries(UninstallSettings(content)) = OwnEntries(content)
    <2> DEFINE new == UninstallSettings(content)
    <2>1. Text(content) = content /\ new = WithoutHook(content)
      BY <1>4 DEF Text, UninstallSettings
    <2>2. new \in Seq(Own)
      BY <2>1, WithoutHookIsOwn
    <2>3. new \in Seq(SettingsEntry) /\ WithoutHook(new) = new
      BY <2>2, OwnSequences, OwnIsKept
    <2>4. Text(new) = new
      BY <2>3, OfText
    <2>5. ~SettingsInstalled(new)
      BY <2>2, <2>4, OwnHasNone
    <2> QED BY <2>1, <2>3, <2>4, <2>5 DEF OwnEntries
  <1> QED BY <1>1, <1>3, <1>4, InstallingInstalls

(* What every plan has in common.                                          *)
LEMMA PlansFit ==
    ASSUME IntegrationAssumption, NEW f, FilesFit(f), NEW after, NEW rendered, NEW removed,
           PlannedFrom(after, rendered, removed, f)
    PROVE  /\ Proposed(after) /\ Preserves(after, f)
           /\ \A path \in rendered : Current(after[path]) /\ HasBlock(after[path])
           /\ \A path \in removed : ~HasBlock(after[path])
  <1>1. ASSUME NEW path \in rendered
        PROVE  /\ after[path] \in Seq(Lines)
               /\ Current(after[path]) /\ HasBlock(after[path])
               /\ Outside(after[path]) = Outside(f[path])
    <2>1. path \in Projected /\ Text(f[path]) \in Seq(Lines)
      BY TextFits DEF PlannedFrom
    <2>2. Manageable(Text(f[path])) /\ after[path] = Render(Text(f[path]))
      BY DEF PlannedFrom
    <2> QED BY <2>1, <2>2, RenderedFile
  <1>2. ASSUME NEW path \in removed
        PROVE  /\ after[path] \in Seq(Lines) /\ ~HasBlock(after[path])
               /\ Outside(after[path]) = Outside(f[path])
    <2>1. path \in Projected /\ Text(f[path]) \in Seq(Lines)
      BY TextFits DEF PlannedFrom
    <2>2. Manageable(Text(f[path])) /\ f[path] # Absent /\ after[path] = RemoveBlock(f[path])
      BY DEF PlannedFrom
    <2> QED BY <2>1, <2>2, RemovedFile
  <1>3. ASSUME Settings \in DOMAIN after
        PROVE  after[Settings] \in Seq(SettingsEntry)
               /\ OwnEntries(after[Settings]) = OwnEntries(f[Settings])
    <2>1. Text(f[Settings]) \in Seq(SettingsEntry)
      BY TextFits
    <2> QED BY <1>3, <2>1, SettingsFile DEF PlannedFrom
  <1>4. ASSUME NEW file \in DOMAIN after
        PROVE  file \in Files /\ Fits(file, after[file])
    <2>1. \/ file \in rendered \/ file \in removed
          \/ file \in {Settings, ConfigFile, CapabilitiesFile}
      BY DEF PlannedFrom
    <2>2. CASE file \in rendered \/ file \in removed
      <3>1. file \in Projected /\ after[file] \in Seq(Lines)
        BY <1>1, <1>2, <2>2 DEF PlannedFrom
      <3> QED BY <3>1, FileNames DEF Fits
    <2>3. CASE file = Settings
      BY <1>3, <2>3, FileNames DEF Fits
    <2>4. CASE file = ConfigFile
      BY <2>4, FileNames DEF PlannedFrom
    <2>5. CASE file = CapabilitiesFile
      BY <2>5, FileNames DEF PlannedFrom, Fits
    <2> QED BY <2>1, <2>2, <2>3, <2>4, <2>5
  <1>5. Preserves(after, f)
    <2>1. ASSUME NEW path \in DOMAIN after \cap Projected
          PROVE  path \in rendered \/ path \in removed
      BY FileNames DEF PlannedFrom
    <2> QED BY <1>1, <1>2, <1>3, <2>1 DEF Preserves
  <1> QED BY <1>1, <1>2, <1>4, <1>5 DEF Proposed

(* The configuration says which files have the block, and whether the      *)
(* hook is there: ConfigurationIsTrue, of any files.                       *)
IsTrue(f) ==
    /\ \A path \in Projected :
           HasBlock(f[path]) <=> f[ConfigFile] # Absent /\ path \in f[ConfigFile].managed
    /\ SettingsInstalled(f[Settings]) <=>
           f[ConfigFile] # Absent /\ f[ConfigFile].adapter = Claude

(* A plan that sets the client a up, whatever there was before.            *)
SetsUp(after, a) ==
    /\ ProjectionOf(a) \cup {ConfigFile} \subseteq DOMAIN after
    /\ after[ConfigFile] = [adapter |-> a, managed |-> ProjectionOf(a)]
    /\ \A path \in ProjectionOf(a) : Current(after[path])
    /\ a = Claude => Settings \in DOMAIN after /\ SettingsInstalled(after[Settings])

LEMMA Untouched ==
    ASSUME IntegrationAssumption
    PROVE  ~HasBlock(Absent) /\ ~SettingsInstalled(Absent)
  <1>1. Text(Absent) = <<>>
    BY DEF Text
  <1>2. ~HasBlock(Absent)
    BY <1>1, EmptyIsPlain DEF HasBlock, Plain
  <1>3. <<>> \in Seq(Own)
    OBVIOUS
  <1>4. ~SettingsInstalled(Absent)
    BY <1>1, <1>3, OwnHasNone
  <1> QED BY <1>2, <1>4

LEMMA InitializedIs ==
    ASSUME IntegrationAssumption, NEW a \in Adapters
    PROVE  LET after == Initialized(a)
           IN  /\ DOMAIN after = ProjectionOf(a) \cup (IF a = Claude THEN {Settings} ELSE {})
                                     \cup {ConfigFile, CapabilitiesFile}
               /\ after[ConfigFile] = [adapter |-> a, managed |-> ProjectionOf(a)]
               /\ after[CapabilitiesFile] = Observed
               /\ a = Claude => after[Settings] = InstallSettings(project[Settings])
               /\ \A path \in ProjectionOf(a) : after[path] = Render(Text(project[path]))
  <1> DEFINE after == Initialized(a)
             D == ProjectionOf(a) \cup (IF a = Claude THEN {Settings} ELSE {})
                      \cup {ConfigFile, CapabilitiesFile}
             value(file) == CASE file = ConfigFile -> [adapter |-> a, managed |-> ProjectionOf(a)]
                              [] file = CapabilitiesFile -> Observed
                              [] file = Settings -> InstallSettings(project[file])
                              [] OTHER -> Render(Text(project[file]))
  <1>1. after = [file \in D |-> value(file)]
    BY Zenon DEF Initialized
  <1>2. value(ConfigFile) = [adapter |-> a, managed |-> ProjectionOf(a)]
    BY FileNames
  <1>3. value(CapabilitiesFile) = Observed
    BY FileNames
  <1>4. value(Settings) = InstallSettings(project[Settings])
    BY FileNames
  <1>5. ASSUME NEW path \in ProjectionOf(a)
        PROVE  value(path) = Render(Text(project[path]))
    <2>1. path # ConfigFile /\ path # CapabilitiesFile /\ path # Settings
      BY FileNames, OfAdapter
    <2> QED BY <2>1
  <1> HIDE DEF value, after
  <1>6. /\ DOMAIN after = D
        /\ after[ConfigFile] = value(ConfigFile) /\ after[CapabilitiesFile] = value(CapabilitiesFile)
        /\ a = Claude => after[Settings] = value(Settings)
        /\ \A path \in ProjectionOf(a) : after[path] = value(path)
    BY <1>1
  <1> QED BY <1>2, <1>3, <1>4, <1>5, <1>6 DEF after

LEMMA InitializedFits ==
    ASSUME IntegrationAssumption, FilesFit(project), NEW a \in Adapters,
           \A path \in ProjectionOf(a) : Manageable(Text(project[path]))
    PROVE  LET after == Initialized(a)
           IN  /\ PlannedFrom(after, ProjectionOf(a), {}, project)
               /\ SetsUp(after, a) /\ CapabilitiesFile \in DOMAIN after
  <1> DEFINE after == Initialized(a)
  <1>1. /\ DOMAIN after = ProjectionOf(a) \cup (IF a = Claude THEN {Settings} ELSE {})
                              \cup {ConfigFile, CapabilitiesFile}
        /\ after[ConfigFile] = [adapter |-> a, managed |-> ProjectionOf(a)]
        /\ after[CapabilitiesFile] = Observed
        /\ a = Claude => after[Settings] = InstallSettings(project[Settings])
        /\ \A path \in ProjectionOf(a) : after[path] = Render(Text(project[path]))
    BY InitializedIs
  <1> HIDE DEF after
  <1>2. ProjectionOf(a) \subseteq Projected
    BY OfAdapter
  <1>3. Settings \in DOMAIN after => a = Claude
    BY <1>1, <1>2, FileNames
  <1>4. PlannedFrom(after, ProjectionOf(a), {}, project)
    <2>1. ConfigFile \in DOMAIN after => Fits(ConfigFile, after[ConfigFile])
      BY <1>1, ConfigurationFits
    <2> QED BY <1>1, <1>2, <1>3, <2>1 DEF PlannedFrom
  <1>5. \A path \in ProjectionOf(a) : Current(after[path])
    BY <1>4, PlansFit
  <1>6. a = Claude => Settings \in DOMAIN after /\ SettingsInstalled(after[Settings])
    <2>1. Text(project[Settings]) \in Seq(SettingsEntry)
      BY TextFits
    <2> QED BY <1>1, <2>1, SettingsFile
  <1> QED BY <1>1, <1>4, <1>5, <1>6 DEF SetsUp, after

LEMMA InitializedIsTrue ==
    ASSUME IntegrationAssumption, FilesFit(project), NEW a \in Adapters,
           \A path \in ProjectionOf(a) : Manageable(Text(project[path])),
           IsTrue(project), project[ConfigFile] = Absent
    PROVE  IsTrue(Over(Initialized(a), project))
  <1> DEFINE after == Initialized(a)
             new == Over(after, project)
  <1>1. /\ PlannedFrom(after, ProjectionOf(a), {}, project)
        /\ SetsUp(after, a)
    BY InitializedFits
  <1>2. /\ DOMAIN after = ProjectionOf(a) \cup (IF a = Claude THEN {Settings} ELSE {})
                              \cup {ConfigFile, CapabilitiesFile}
    BY InitializedIs
  <1>3. \A path \in ProjectionOf(a) : HasBlock(after[path])
    BY <1>1, PlansFit
  <1> HIDE DEF after
  <1>4. \A file \in Files :
            new[file] = IF file \in DOMAIN after THEN after[file] ELSE project[file]
    BY DEF Over
  <1> HIDE DEF new
  <1>5. /\ new[ConfigFile] # Absent
        /\ new[ConfigFile].managed = ProjectionOf(a) /\ new[ConfigFile].adapter = a
    <2>1. new[ConfigFile] = [adapter |-> a, managed |-> ProjectionOf(a)]
      BY <1>1, <1>2, <1>4, FileNames DEF SetsUp
    <2>2. new[ConfigFile] # Absent
      BY <2>1, ConfigurationFits, WhatFitsIsThere, FileNames
    <2> QED BY <2>1, <2>2
  <1>6. ASSUME NEW path \in Projected
        PROVE  HasBlock(new[path]) <=> path \in ProjectionOf(a)
    <2>1. CASE path \in ProjectionOf(a)
      BY <1>2, <1>3, <1>4, <2>1, FileNames
    <2>2. CASE path \notin ProjectionOf(a)
      <3>1. path \notin DOMAIN after
        BY <1>2, <2>2, FileNames
      <3>2. ~HasBlock(project[path])
        BY DEF IsTrue
      <3> QED BY <1>4, <2>2, <3>1, <3>2, FileNames
    <2> QED BY <2>1, <2>2
  <1>7. SettingsInstalled(new[Settings]) <=> a = Claude
    <2>1. CASE a = Claude
      BY <1>1, <1>4, <2>1, FileNames DEF SetsUp
    <2>2. CASE a # Claude
      <3>1. Settings \notin DOMAIN after
        BY <1>2, <2>2, FileNames, OfAdapter
      <3>2. ~SettingsInstalled(project[Settings])
        BY DEF IsTrue
      <3> QED BY <1>4, <2>2, <3>1, <3>2, FileNames
    <2> QED BY <2>1, <2>2
  <1>8. IsTrue(new)
    BY <1>5, <1>6, <1>7 DEF IsTrue
  <1> QED BY <1>8 DEF new, after

LEMMA RebuiltFits ==
    ASSUME IntegrationAssumption, FilesFit(project), HasConfig,
           \A path \in project[ConfigFile].managed : Manageable(Text(project[path]))
    PROVE  PlannedFrom(Rebuilt, project[ConfigFile].managed, {}, project)
  <1> DEFINE managed == project[ConfigFile].managed
             after == Rebuilt
  <1>1. managed \subseteq Projected
    BY Configured DEF HasConfig
  <1>2. DOMAIN after = managed /\ \A path \in managed : after[path] = Render(Text(project[path]))
    BY DEF Rebuilt
  <1>3. Settings \notin managed /\ ConfigFile \notin managed /\ CapabilitiesFile \notin managed
    BY <1>1, FileNames
  <1> HIDE DEF after
  <1> QED BY <1>1, <1>2, <1>3 DEF PlannedFrom, after

LEMMA RebuiltIsTrue ==
    ASSUME IntegrationAssumption, FilesFit(project), HasConfig,
           \A path \in project[ConfigFile].managed : Manageable(Text(project[path])),
           IsTrue(project)
    PROVE  IsTrue(Over(Rebuilt, project))
  <1> DEFINE managed == project[ConfigFile].managed
             after == Rebuilt
             new == Over(after, project)
  <1>1. managed \subseteq Projected
    BY Configured DEF HasConfig
  <1>2. DOMAIN after = managed
    BY DEF Rebuilt
  <1>3. \A path \in managed : HasBlock(after[path])
    BY RebuiltFits, PlansFit
  <1> HIDE DEF after
  <1>4. \A file \in Files :
            new[file] = IF file \in DOMAIN after THEN after[file] ELSE project[file]
    BY DEF Over
  <1> HIDE DEF new
  <1>5. new[ConfigFile] = project[ConfigFile] /\ new[Settings] = project[Settings]
    BY <1>1, <1>2, <1>4, FileNames
  <1>6. \A path \in Projected : HasBlock(new[path]) <=> path \in managed
    BY <1>2, <1>3, <1>4, FileNames DEF IsTrue, HasConfig
  <1>7. IsTrue(new)
    BY <1>5, <1>6 DEF IsTrue, HasConfig
  <1> QED BY <1>7 DEF new, after

(* The files of other clients that an installation takes its block out of. *)
LEMMA RetiredIs ==
    ASSUME IntegrationAssumption, FilesFit(project), HasConfig, NEW a \in Adapters
    PROVE  /\ Retired(a) = {path \in project[ConfigFile].managed \ ProjectionOf(a) :
                                project[path] # Absent}
           /\ Retired(a) \subseteq Projected /\ Retired(a) \cap ProjectionOf(a) = {}
  <1>1. project[ConfigFile].managed \subseteq Projected
    BY Configured DEF HasConfig
  <1> QED BY <1>1 DEF Retired, Existing

LEMMA SettingsOfIs ==
    ASSUME NEW a
    PROVE  /\ SettingsOf(a) \subseteq {Settings}
           /\ Settings \in SettingsOf(a) <=>
                  \/ a = Claude
                  \/ project[ConfigFile].adapter = Claude /\ project[Settings] # Absent
  BY DEF SettingsOf, Existing

LEMMA InstalledIs ==
    ASSUME IntegrationAssumption, FilesFit(project), HasConfig, NEW a \in Adapters
    PROVE  LET after == Installed(a)
           IN  /\ DOMAIN after = Retired(a) \cup ProjectionOf(a) \cup SettingsOf(a)
                                     \cup {ConfigFile}
               /\ after[ConfigFile] = [adapter |-> a, managed |-> ProjectionOf(a)]
               /\ Settings \in SettingsOf(a) =>
                      after[Settings] = IF a = Claude THEN InstallSettings(project[Settings])
                                        ELSE UninstallSettings(project[Settings])
               /\ \A path \in Retired(a) : after[path] = RemoveBlock(project[path])
               /\ \A path \in ProjectionOf(a) : after[path] = Render(Text(project[path]))
  <1> DEFINE after == Installed(a)
             D == Retired(a) \cup ProjectionOf(a) \cup SettingsOf(a) \cup {ConfigFile}
             value(file) ==
                 CASE file = ConfigFile -> [adapter |-> a, managed |-> ProjectionOf(a)]
                   [] file = Settings -> IF a = Claude THEN InstallSettings(project[file])
                                         ELSE UninstallSettings(project[file])
                   [] file \in Retired(a) -> RemoveBlock(project[file])
                   [] OTHER -> Render(Text(project[file]))
  <1>1. after = [file \in D |-> value(file)]
    BY Zenon DEF Installed
  <1>2. Retired(a) \subseteq Projected /\ Retired(a) \cap ProjectionOf(a) = {}
    BY RetiredIs
  <1>3. value(ConfigFile) = [adapter |-> a, managed |-> ProjectionOf(a)]
    BY <1>2, FileNames
  <1>4. value(Settings) = IF a = Claude THEN InstallSettings(project[Settings])
                          ELSE UninstallSettings(project[Settings])
    BY <1>2, FileNames
  <1>5. ASSUME NEW path \in Retired(a)
        PROVE  value(path) = RemoveBlock(project[path])
    <2>1. path # ConfigFile /\ path # Settings
      BY <1>2, FileNames
    <2> QED BY <2>1
  <1>6. ASSUME NEW path \in ProjectionOf(a)
        PROVE  value(path) = Render(Text(project[path]))
    <2>1. path # ConfigFile /\ path # Settings /\ path \notin Retired(a)
      BY <1>2, FileNames, OfAdapter
    <2> QED BY <2>1
  <1> HIDE DEF value, after
  <1>7. /\ DOMAIN after = D /\ after[ConfigFile] = value(ConfigFile)
        /\ Settings \in SettingsOf(a) => after[Settings] = value(Settings)
        /\ \A path \in Retired(a) : after[path] = value(path)
        /\ \A path \in ProjectionOf(a) : after[path] = value(path)
    BY <1>1
  <1> QED BY <1>3, <1>4, <1>5, <1>6, <1>7 DEF after

LEMMA InstalledFits ==
    ASSUME IntegrationAssumption, FilesFit(project), HasConfig, NEW a \in Adapters,
           \A path \in Retired(a) \cup ProjectionOf(a) : Manageable(Text(project[path]))
    PROVE  LET after == Installed(a)
           IN  PlannedFrom(after, ProjectionOf(a), Retired(a), project) /\ SetsUp(after, a)
  <1> DEFINE after == Installed(a)
  <1>1. /\ DOMAIN after = Retired(a) \cup ProjectionOf(a) \cup SettingsOf(a) \cup {ConfigFile}
        /\ after[ConfigFile] = [adapter |-> a, managed |-> ProjectionOf(a)]
        /\ Settings \in SettingsOf(a) =>
               after[Settings] = IF a = Claude THEN InstallSettings(project[Settings])
                                 ELSE UninstallSettings(project[Settings])
        /\ \A path \in Retired(a) : after[path] = RemoveBlock(project[path])
        /\ \A path \in ProjectionOf(a) : after[path] = Render(Text(project[path]))
    BY InstalledIs
  <1> HIDE DEF after
  <1>2. ProjectionOf(a) \subseteq Projected
    BY OfAdapter
  <1>3. /\ Retired(a) \subseteq Projected
        /\ \A path \in Retired(a) : project[path] # Absent
    BY RetiredIs
  <1>4. Settings \in DOMAIN after => Settings \in SettingsOf(a)
    BY <1>1, <1>2, <1>3, FileNames
  <1>5. CapabilitiesFile \notin DOMAIN after
    BY <1>1, <1>2, <1>3, FileNames, SettingsOfIs
  <1>6. Settings \in DOMAIN after =>
            \/ after[Settings] = InstallSettings(project[Settings])
            \/ project[Settings] # Absent /\ after[Settings] = UninstallSettings(project[Settings])
    <2>1. CASE a = Claude
      BY <1>1, <1>4, <2>1
    <2>2. CASE a # Claude
      BY <1>1, <1>4, <2>2, SettingsOfIs
    <2> QED BY <2>1, <2>2
  <1>7. PlannedFrom(after, ProjectionOf(a), Retired(a), project)
    <2>1. ConfigFile \in DOMAIN after => Fits(ConfigFile, after[ConfigFile])
      BY <1>1, ConfigurationFits
    <2>2. DOMAIN after \subseteq ProjectionOf(a) \cup Retired(a)
                                     \cup {Settings, ConfigFile, CapabilitiesFile}
      BY <1>1, SettingsOfIs
    <2> QED BY <1>1, <1>2, <1>3, <1>5, <1>6, <2>1, <2>2 DEF PlannedFrom
  <1>8. \A path \in ProjectionOf(a) : Current(after[path])
    BY <1>7, PlansFit
  <1>9. a = Claude => Settings \in DOMAIN after /\ SettingsInstalled(after[Settings])
    <2>1. Text(project[Settings]) \in Seq(SettingsEntry)
      BY TextFits
    <2> QED BY <1>1, <2>1, SettingsFile, SettingsOfIs
  <1> QED BY <1>1, <1>7, <1>8, <1>9 DEF SetsUp, after

LEMMA InstalledIsTrue ==
    ASSUME IntegrationAssumption, FilesFit(project), HasConfig, NEW a \in Adapters,
           \A path \in Retired(a) \cup ProjectionOf(a) : Manageable(Text(project[path])),
           IsTrue(project)
    PROVE  IsTrue(Over(Installed(a), project))
  <1> DEFINE after == Installed(a)
             new == Over(after, project)
             managed == project[ConfigFile].managed
  <1>1. PlannedFrom(after, ProjectionOf(a), Retired(a), project) /\ SetsUp(after, a)
    BY InstalledFits
  <1>2. /\ DOMAIN after = Retired(a) \cup ProjectionOf(a) \cup SettingsOf(a) \cup {ConfigFile}
        /\ Settings \in SettingsOf(a) =>
               after[Settings] = IF a = Claude THEN InstallSettings(project[Settings])
                                 ELSE UninstallSettings(project[Settings])
    BY InstalledIs
  <1>3. /\ \A path \in ProjectionOf(a) : HasBlock(after[path])
        /\ \A path \in Retired(a) : ~HasBlock(after[path])
    BY <1>1, PlansFit
  <1> HIDE DEF after
  <1>4. \A file \in Files :
            new[file] = IF file \in DOMAIN after THEN after[file] ELSE project[file]
    BY DEF Over
  <1> HIDE DEF new
  <1>5. /\ new[ConfigFile] # Absent
        /\ new[ConfigFile].managed = ProjectionOf(a) /\ new[ConfigFile].adapter = a
    <2>1. new[ConfigFile] = [adapter |-> a, managed |-> ProjectionOf(a)]
      BY <1>1, <1>2, <1>4, FileNames DEF SetsUp
    <2>2. new[ConfigFile] # Absent
      BY <2>1, ConfigurationFits, WhatFitsIsThere, FileNames
    <2> QED BY <2>1, <2>2
  <1>6. ASSUME NEW path \in Projected
        PROVE  HasBlock(new[path]) <=> path \in ProjectionOf(a)
    <2>1. CASE path \in ProjectionOf(a)
      BY <1>2, <1>3, <1>4, <2>1, FileNames
    <2>2. CASE path \in Retired(a)
      BY <1>2, <1>3, <1>4, <2>2, FileNames, RetiredIs
    <2>3. CASE path \notin ProjectionOf(a) /\ path \notin Retired(a)
      <3>1. new[path] = project[path]
        <4>1. path \notin DOMAIN after
          BY <1>2, <2>3, FileNames, SettingsOfIs
        <4> QED BY <1>4, <4>1, FileNames
      <3>2. path \in managed => project[path] = Absent
        BY <2>3, RetiredIs
      <3>3. ~HasBlock(project[path])
        BY <3>2, Untouched DEF IsTrue
      <3> QED BY <2>3, <3>1, <3>3
    <2> QED BY <2>1, <2>2, <2>3
  <1>7. SettingsInstalled(new[Settings]) <=> a = Claude
    <2>1. CASE a = Claude
      BY <1>1, <1>4, <2>1, FileNames DEF SetsUp
    <2>2. CASE a # Claude /\ Settings \in SettingsOf(a)
      <3>1. new[Settings] = UninstallSettings(project[Settings]) /\ project[Settings] # Absent
        BY <1>2, <1>4, <2>2, FileNames, SettingsOfIs
      <3>2. Text(project[Settings]) \in Seq(SettingsEntry)
        BY TextFits
      <3> QED BY <2>2, <3>1, <3>2, SettingsFile
    <2>3. CASE a # Claude /\ Settings \notin SettingsOf(a)
      <3>1. Settings \notin DOMAIN after
        BY <1>2, <2>3, FileNames, OfAdapter, RetiredIs
      <3>2. new[Settings] = project[Settings]
        BY <1>4, <3>1, FileNames
      <3>3. ~SettingsInstalled(project[Settings])
        <4>1. project[ConfigFile].adapter # Claude \/ project[Settings] = Absent
          BY <2>3, SettingsOfIs
        <4> QED BY <4>1, Untouched DEF IsTrue
      <3> QED BY <2>3, <3>2, <3>3
    <2> QED BY <2>1, <2>2, <2>3
  <1>8. IsTrue(new)
    BY <1>5, <1>6, <1>7 DEF IsTrue
  <1> QED BY <1>8 DEF new, after

LEMMA UninstalledIs ==
    ASSUME IntegrationAssumption, FilesFit(project), HasConfig, NEW a \in Adapters
    PROVE  LET after == Uninstalled(a)
               present == {path \in ProjectionOf(a) : project[path] # Absent}
           IN  /\ DOMAIN after \subseteq present \cup {Settings, ConfigFile}
               /\ present \cup {ConfigFile} \subseteq DOMAIN after
               /\ Settings \in DOMAIN after <=> a = Claude /\ project[Settings] # Absent
               /\ after[ConfigFile] = IF project[ConfigFile].adapter = a THEN Observing
                                      ELSE project[ConfigFile]
               /\ Settings \in DOMAIN after =>
                      after[Settings] = UninstallSettings(project[Settings])
               /\ \A path \in present : after[path] = RemoveBlock(project[path])
  <1> DEFINE after == Uninstalled(a)
             present == {path \in ProjectionOf(a) : project[path] # Absent}
             D == Existing(ProjectionOf(a) \cup (IF a = Claude THEN {Settings} ELSE {}))
                      \cup {ConfigFile}
             value(file) ==
                 CASE file = ConfigFile -> IF project[ConfigFile].adapter = a THEN Observing
                                           ELSE project[ConfigFile]
                   [] file = Settings -> UninstallSettings(project[file])
                   [] OTHER -> RemoveBlock(project[file])
  <1>1. after = [file \in D |-> value(file)]
    BY Zenon DEF Uninstalled
  <1>2. D \subseteq present \cup {Settings, ConfigFile} /\ present \cup {ConfigFile} \subseteq D
    BY DEF Existing
  <1>3. Settings \in D <=> a = Claude /\ project[Settings] # Absent
    BY FileNames, OfAdapter DEF Existing
  <1>4. value(ConfigFile) = IF project[ConfigFile].adapter = a THEN Observing
                            ELSE project[ConfigFile]
    BY FileNames
  <1>5. value(Settings) = UninstallSettings(project[Settings])
    BY FileNames
  <1>6. ASSUME NEW path \in present
        PROVE  value(path) = RemoveBlock(project[path])
    <2>1. path # ConfigFile /\ path # Settings
      BY FileNames, OfAdapter
    <2> QED BY <2>1
  <1> HIDE DEF value, after, D, present
  <1>7. /\ DOMAIN after = D /\ after[ConfigFile] = value(ConfigFile)
        /\ Settings \in D => after[Settings] = value(Settings)
        /\ \A path \in present : after[path] = value(path)
    BY <1>1, <1>2
  <1> QED BY <1>2, <1>3, <1>4, <1>5, <1>6, <1>7 DEF after, present

LEMMA UninstalledFits ==
    ASSUME IntegrationAssumption, FilesFit(project), HasConfig, NEW a \in Adapters,
           \A path \in ProjectionOf(a) : Manageable(Text(project[path]))
    PROVE  PlannedFrom(Uninstalled(a), {},
                       {path \in ProjectionOf(a) : project[path] # Absent}, project)
  <1> DEFINE after == Uninstalled(a)
             present == {path \in ProjectionOf(a) : project[path] # Absent}
  <1>1. /\ DOMAIN after \subseteq present \cup {Settings, ConfigFile}
        /\ Settings \in DOMAIN after <=> a = Claude /\ project[Settings] # Absent
        /\ after[ConfigFile] = IF project[ConfigFile].adapter = a THEN Observing
                               ELSE project[ConfigFile]
        /\ Settings \in DOMAIN after => after[Settings] = UninstallSettings(project[Settings])
        /\ \A path \in present : after[path] = RemoveBlock(project[path])
    BY UninstalledIs
  <1> HIDE DEF after
  <1>2. present \subseteq Projected
    BY OfAdapter
  <1>3. Fits(ConfigFile, after[ConfigFile])
    <2>1. Fits(ConfigFile, project[ConfigFile])
      BY FileNames DEF FilesFit, HasConfig
    <2>2. Fits(ConfigFile, Observing)
      <3>1. Generic \in Adapters
        BY DEF IntegrationAssumption
      <3>2. Observing = [adapter |-> Generic, managed |-> ProjectionOf(Generic)]
        BY <3>1, OfAdapter DEF Observing
      <3> QED BY <3>1, <3>2, ConfigurationFits
    <2> QED BY <1>1, <2>1, <2>2
  <1>4. CapabilitiesFile \notin DOMAIN after
    BY <1>1, <1>2, FileNames
  <1> QED BY <1>1, <1>2, <1>3, <1>4 DEF PlannedFrom, after

LEMMA UninstalledIsTrue ==
    ASSUME IntegrationAssumption, FilesFit(project), HasConfig, NEW a \in Adapters,
           \A path \in ProjectionOf(a) : Manageable(Text(project[path])),
           IsTrue(project)
    PROVE  IsTrue(Over(Uninstalled(a), project))
  <1> DEFINE after == Uninstalled(a)
             present == {path \in ProjectionOf(a) : project[path] # Absent}
             new == Over(after, project)
             config == project[ConfigFile]
             left == IF config.adapter = a THEN {} ELSE config.managed
  <1>1. /\ DOMAIN after \subseteq present \cup {Settings, ConfigFile}
        /\ present \cup {ConfigFile} \subseteq DOMAIN after
        /\ Settings \in DOMAIN after <=> a = Claude /\ project[Settings] # Absent
        /\ after[ConfigFile] = IF config.adapter = a THEN Observing ELSE config
        /\ Settings \in DOMAIN after => after[Settings] = UninstallSettings(project[Settings])
    BY UninstalledIs
  <1>2. \A path \in present : ~HasBlock(after[path])
    BY UninstalledFits, PlansFit
  <1>3. Proposed(after)
    BY UninstalledFits, PlansFit
  <1> HIDE DEF after
  <1>4. \A file \in Files :
            new[file] = IF file \in DOMAIN after THEN after[file] ELSE project[file]
    BY DEF Over
  <1> HIDE DEF new
  <1>5. /\ config # Absent /\ config.adapter \in Adapters
        /\ config.managed = ProjectionOf(config.adapter) /\ config.managed \subseteq Projected
    BY Configured DEF HasConfig
  <1>6. new[ConfigFile] = after[ConfigFile] /\ new[ConfigFile] # Absent
    <2>1. new[ConfigFile] = after[ConfigFile] /\ ConfigFile \in DOMAIN after
      BY <1>1, <1>4, FileNames
    <2> QED BY <1>3, <2>1, FileNames, WhatFitsIsThere DEF Proposed
  <1>7. new[ConfigFile].managed = left
    BY <1>1, <1>6 DEF Observing
  <1>8. left = {path \in Projected : HasBlock(project[path])} \ ProjectionOf(a)
    <2>1. config.managed = {path \in Projected : HasBlock(project[path])}
      BY <1>5 DEF IsTrue
    <2>2. CASE config.adapter = a
      BY <1>5, <2>1, <2>2
    <2>3. CASE config.adapter # a
      <3>1. ProjectionOf(a) \cap config.managed = {}
        BY <1>5, <2>3, OfAdapter
      <3>2. left = config.managed
        BY <2>3
      <3> HIDE DEF left
      <3> QED BY <2>1, <3>1, <3>2
    <2> QED BY <2>2, <2>3
  <1>9. ASSUME NEW path \in Projected
        PROVE  HasBlock(new[path]) <=> path \in left
    <2>1. CASE path \in present
      BY <1>1, <1>2, <1>4, <1>8, <2>1, FileNames
    <2>2. CASE path \notin present
      <3>1. new[path] = project[path]
        BY <1>1, <1>4, <2>2, FileNames
      <3>2. path \in ProjectionOf(a) => ~HasBlock(project[path])
        BY <2>2, Untouched
      <3> QED BY <1>8, <3>1, <3>2
    <2> QED BY <2>1, <2>2
  <1>10. SettingsInstalled(new[Settings]) <=> new[ConfigFile].adapter = Claude
    <2>1. new[ConfigFile].adapter = IF config.adapter = a THEN Generic ELSE config.adapter
      BY <1>1, <1>6 DEF Observing
    <2>2. Claude # Generic
      BY DEF IntegrationAssumption
    <2>3. CASE a = Claude
      <3>1. new[ConfigFile].adapter # Claude
        BY <2>1, <2>2, <2>3
      <3>2. CASE project[Settings] = Absent
        <4>1. new[Settings] = Absent
          BY <1>1, <1>4, <3>2, FileNames
        <4> QED BY <3>1, <4>1, Untouched
      <3>3. CASE project[Settings] # Absent
        <4>1. new[Settings] = UninstallSettings(project[Settings])
          BY <1>1, <1>4, <2>3, <3>3, FileNames
        <4>2. Text(project[Settings]) \in Seq(SettingsEntry)
          BY TextFits
        <4> QED BY <3>1, <3>3, <4>1, <4>2, SettingsFile
      <3> QED BY <3>2, <3>3
    <2>4. CASE a # Claude
      <3>1. new[Settings] = project[Settings]
        BY <1>1, <1>4, <2>4, FileNames
      <3>2. SettingsInstalled(project[Settings]) <=> config.adapter = Claude
        BY <1>5 DEF IsTrue
      <3> QED BY <2>1, <2>2, <2>4, <3>1, <3>2
    <2> QED BY <2>3, <2>4
  <1>11. IsTrue(new)
    BY <1>6, <1>7, <1>9, <1>10 DEF IsTrue
  <1> QED BY <1>11 DEF new, after

(* A plan that was true over some files is true over others, if it finds   *)
(* the files that it changes as they were.                                 *)
LEMMA StillTrue ==
    ASSUME NEW after, NEW f, NEW g, DOMAIN after \subseteq Files,
           IsTrue(f), IsTrue(Over(after, f)), IsTrue(g),
           \A file \in DOMAIN after : f[file] = g[file], IntegrationAssumption
    PROVE  IsTrue(Over(after, g))
  <1> DEFINE F == Over(after, f)
             G == Over(after, g)
  <1>1. \A file \in Files : /\ F[file] = IF file \in DOMAIN after THEN after[file] ELSE f[file]
                            /\ G[file] = IF file \in DOMAIN after THEN after[file] ELSE g[file]
    BY DEF Over
  <1> HIDE DEF F, G
  <1>2. IsTrue(F)
    BY DEF F
  <1>3. Settings \in Files /\ ConfigFile \in Files /\ Projected \subseteq Files
    BY FileNames
  <1>4. CASE ConfigFile \in DOMAIN after
    <2>1. F[ConfigFile] = G[ConfigFile] /\ f[ConfigFile] = g[ConfigFile]
      BY <1>1, <1>4
    <2>2. /\ \A path \in Projected : HasBlock(f[path]) <=> HasBlock(g[path])
          /\ SettingsInstalled(f[Settings]) <=> SettingsInstalled(g[Settings])
      BY <2>1 DEF IsTrue
    <2>3. \A path \in Projected : HasBlock(F[path]) <=> HasBlock(G[path])
      BY <1>1, <1>3, <2>2
    <2>4. SettingsInstalled(F[Settings]) <=> SettingsInstalled(G[Settings])
      BY <1>1, <1>3, <2>2
    <2>5. IsTrue(G)
      BY <1>2, <2>1, <2>3, <2>4 DEF IsTrue
    <2> QED BY <2>5 DEF G
  <1>5. CASE ConfigFile \notin DOMAIN after
    <2>1. F[ConfigFile] = f[ConfigFile] /\ G[ConfigFile] = g[ConfigFile]
      BY <1>1, <1>3, <1>5
    <2>2. /\ \A path \in Projected : HasBlock(F[path]) <=> HasBlock(f[path])
          /\ SettingsInstalled(F[Settings]) <=> SettingsInstalled(f[Settings])
      BY <1>2, <2>1 DEF IsTrue
    <2>3. ASSUME NEW path \in Projected
          PROVE  HasBlock(G[path]) <=> HasBlock(g[path])
      <3>1. CASE path \in DOMAIN after
        <4>1. G[path] = F[path] /\ f[path] = g[path]
          BY <1>1, <1>3, <3>1
        <4> QED BY <2>2, <4>1
      <3>2. CASE path \notin DOMAIN after
        BY <1>1, <1>3, <3>2
      <3> QED BY <3>1, <3>2
    <2>4. SettingsInstalled(G[Settings]) <=> SettingsInstalled(g[Settings])
      <3>1. CASE Settings \in DOMAIN after
        <4>1. G[Settings] = F[Settings] /\ f[Settings] = g[Settings]
          BY <1>1, <1>3, <3>1
        <4> QED BY <2>2, <4>1
      <3>2. CASE Settings \notin DOMAIN after
        BY <1>1, <1>3, <3>2
      <3> QED BY <3>1, <3>2
    <2>5. IsTrue(G)
      BY <2>1, <2>3, <2>4 DEF IsTrue
    <2> QED BY <2>5 DEF G
  <1> QED BY <1>4, <1>5

----------------------------------------------------------------------------
(* What the user can do *)

UserEdits ==
    \/ DeclareCapability
    \/ \E path \in Projected :
           \/ \E i \in 1 .. Len(Text(project[path])) + 1, line \in UserLines :
                  WriteLine(path, i, line)
           \/ \E i \in DOMAIN Text(project[path]) : DropLine(path, i)
    \/ \E command \in UserCommands : AddEntry(command)
    \/ \E i \in DOMAIN Text(project[Settings]) :
           \/ \E part \in UserCommands \cup {Altered} : ChangeEntry(i, part)
           \/ CopyHook(i) \/ DropEntry(i)

(* The same files, the same marks of the harness in them.                  *)
SameMarks(f, g) ==
    /\ f[ConfigFile] = g[ConfigFile]
    /\ \A path \in Projected : HasBlock(f[path]) <=> HasBlock(g[path])
    /\ SettingsInstalled(f[Settings]) <=> SettingsInstalled(g[Settings])

LEMMA EditIs ==
    ASSUME FilesFit(project), NEW file \in Files, NEW content, Fits(file, content),
           NEW kind, EditFile(kind, file, content)
    PROVE  /\ FilesFit(project') /\ project'[file] = content
           /\ \A other \in Files : other # file => project'[other] = project[other]
           /\ planPc' = planPc /\ planLoc' = planLoc /\ NobodyReads
           /\ ~tampered' => ~tampered /\ kind # "markers"
  <1>1. ~tampered' => ~tampered /\ kind # "markers"
    BY Zenon DEF EditFile
  <1>2. /\ project' = [project EXCEPT ![file] = content] /\ NobodyReads
        /\ planPc' = planPc /\ planLoc' = planLoc
    BY Zenon DEF EditFile
  <1> QED BY <1>1, <1>2 DEF FilesFit

LEMMA EntryIsInText ==
    ASSUME IntegrationAssumption, FilesFit(project), NEW file \in Files,
           NEW i \in DOMAIN Text(project[file])
    PROVE  /\ project[file] # Absent /\ Text(project[file]) = project[file]
           /\ Fits(file, project[file])
  <1>1. project[file] # Absent
    <2>1. SUFFICES ASSUME project[file] = Absent
                   PROVE  FALSE
      OBVIOUS
    <2>2. Text(project[file]) = <<>>
      BY <2>1 DEF Text
    <2> QED BY <2>2
  <1> QED BY <1>1 DEF Text, FilesFit

LEMMA LineEdits ==
    ASSUME IntegrationAssumption, FilesFit(project), NEW path \in Projected,
           \/ \E i \in 1 .. Len(Text(project[path])) + 1, line \in UserLines :
                  WriteLine(path, i, line)
           \/ \E i \in DOMAIN Text(project[path]) : DropLine(path, i)
    PROVE  /\ FilesFit(project') /\ planPc' = planPc /\ planLoc' = planLoc /\ NobodyReads
           /\ project'[ConfigFile] = project[ConfigFile]
           /\ project'[CapabilitiesFile] = project[CapabilitiesFile]
           /\ ~tampered' => ~tampered /\ SameMarks(project', project)
  <1> DEFINE t == Text(project[path])
  <1>1. t \in Seq(Lines) /\ path \in Files
    BY TextFits, FileNames
  <1>2. ASSUME NEW content, content \in Seq(Lines), NEW kind, EditFile(kind, path, content),
               kind # "markers" => (Unmarked(content) <=> Unmarked(t))
        PROVE  /\ FilesFit(project') /\ planPc' = planPc /\ planLoc' = planLoc
               /\ NobodyReads
               /\ project'[ConfigFile] = project[ConfigFile]
               /\ project'[CapabilitiesFile] = project[CapabilitiesFile]
               /\ ~tampered' => ~tampered /\ SameMarks(project', project)
    <2>1. Fits(path, content) /\ Text(content) = content
      BY <1>2, FileNames, OfLines DEF Fits
    <2>2. /\ FilesFit(project') /\ project'[path] = content
          /\ \A other \in Files : other # path => project'[other] = project[other]
          /\ planPc' = planPc /\ planLoc' = planLoc /\ NobodyReads
          /\ ~tampered' => ~tampered /\ kind # "markers"
      BY <1>1, <1>2, <2>1, EditIs
    <2>3. kind # "markers" => (HasBlock(content) <=> HasBlock(project[path]))
      BY <1>2, <2>1 DEF HasBlock
    <2>4. /\ project'[ConfigFile] = project[ConfigFile]
          /\ project'[CapabilitiesFile] = project[CapabilitiesFile]
          /\ project'[Settings] = project[Settings]
      BY <2>2, FileNames
    <2>5. ASSUME kind # "markers", NEW other \in Projected
          PROVE  HasBlock(project'[other]) <=> HasBlock(project[other])
      BY <2>2, <2>3, <2>5, FileNames
    <2> QED BY <2>2, <2>4, <2>5 DEF SameMarks
  <1>3. CASE \E i \in 1 .. Len(t) + 1, line \in UserLines : WriteLine(path, i, line)
    <2>1. PICK i \in 1 .. Len(t) + 1, line \in UserLines : WriteLine(path, i, line)
      BY <1>3
    <2>2. EditFile("lines", path, InsertAt(t, i, line))
      BY <2>1 DEF WriteLine
    <2>3. /\ InsertAt(t, i, line) \in Seq(Lines)
          /\ Unmarked(InsertAt(t, i, line)) <=> Unmarked(t)
      BY <1>1, LineIsWritten
    <2> QED BY <1>2, <2>2, <2>3
  <1>4. CASE \E i \in DOMAIN t : DropLine(path, i)
    <2>1. PICK i \in DOMAIN t : DropLine(path, i)
      BY <1>4
    <2>2. t = project[path]
      BY <1>1, EntryIsInText
    <2>3. i \in 1 .. Len(t)
      BY <1>1
    <2> DEFINE kind == IF t[i] \in UserLines THEN "lines" ELSE "markers"
    <2>4. EditFile(kind, path, RemoveAt(t, i))
      BY <2>1, <2>2 DEF DropLine
    <2>5. kind # "markers" => t[i] \in UserLines
      OBVIOUS
    <2>6. /\ RemoveAt(t, i) \in Seq(Lines)
          /\ t[i] \in UserLines => (Unmarked(RemoveAt(t, i)) <=> Unmarked(t))
      BY <1>1, <2>3, LineIsDropped
    <2> HIDE DEF kind
    <2> QED BY <1>2, <2>4, <2>5, <2>6
  <1> QED BY <1>3, <1>4

LEMMA SettingsEdits ==
    ASSUME IntegrationAssumption, FilesFit(project),
           \/ \E command \in UserCommands : AddEntry(command)
           \/ \E i \in DOMAIN Text(project[Settings]) :
                  \/ \E part \in UserCommands \cup {Altered} : ChangeEntry(i, part)
                  \/ CopyHook(i) \/ DropEntry(i)
    PROVE  /\ FilesFit(project') /\ planPc' = planPc /\ planLoc' = planLoc /\ NobodyReads
           /\ project'[ConfigFile] = project[ConfigFile]
           /\ project'[CapabilitiesFile] = project[CapabilitiesFile]
           /\ ~tampered' => ~tampered /\ SameMarks(project', project)
  <1> DEFINE s == Text(project[Settings])
  <1>1. s \in Seq(SettingsEntry) /\ Settings \in Files
    BY TextFits, FileNames
  <1>2. DOMAIN s = 1 .. Len(s)
    BY <1>1
  <1>3. ASSUME NEW content, content \in Seq(SettingsEntry),
               NEW kind, EditFile(kind, Settings, content),
               kind # "markers" =>
                   (SettingsInstalled(content) <=> SettingsInstalled(project[Settings]))
        PROVE  /\ FilesFit(project') /\ planPc' = planPc /\ planLoc' = planLoc /\ NobodyReads
               /\ project'[ConfigFile] = project[ConfigFile]
               /\ project'[CapabilitiesFile] = project[CapabilitiesFile]
               /\ ~tampered' => ~tampered /\ SameMarks(project', project)
    <2>1. Fits(Settings, content)
      BY <1>3, FileNames DEF Fits
    <2>2. /\ FilesFit(project') /\ project'[Settings] = content
          /\ \A other \in Files : other # Settings => project'[other] = project[other]
          /\ planPc' = planPc /\ planLoc' = planLoc /\ NobodyReads
          /\ ~tampered' => ~tampered /\ kind # "markers"
      BY <1>1, <1>3, <2>1, EditIs
    <2>3. /\ project'[ConfigFile] = project[ConfigFile]
          /\ project'[CapabilitiesFile] = project[CapabilitiesFile]
          /\ \A path \in Projected : project'[path] = project[path]
      BY <2>2, FileNames
    <2> QED BY <1>3, <2>2, <2>3 DEF SameMarks
  <1>4. CASE \E command \in UserCommands : AddEntry(command)
    <2>1. PICK command \in UserCommands : AddEntry(command)
      BY <1>4
    <2>2. EditFile("entries", Settings, Append(s, {command}))
      BY <2>1 DEF AddEntry
    <2>3. /\ Append(s, {command}) \in Seq(SettingsEntry)
          /\ SettingsInstalled(Append(s, {command})) <=> SettingsInstalled(project[Settings])
      BY <1>1, EntryIsAdded
    <2> QED BY <1>3, <2>2, <2>3
  <1>5. CASE \E i \in DOMAIN s : \E part \in UserCommands \cup {Altered} : ChangeEntry(i, part)
    <2>1. PICK i \in DOMAIN s, part \in UserCommands \cup {Altered} : ChangeEntry(i, part)
      BY <1>5
    <2>2. s = project[Settings]
      BY <1>1, EntryIsInText
    <2>3. EditFile("commands", Settings, [s EXCEPT ![i] = @ \cup {part}])
      BY <2>1, <2>2 DEF ChangeEntry
    <2>4. /\ [s EXCEPT ![i] = @ \cup {part}] \in Seq(SettingsEntry)
          /\ SettingsInstalled([s EXCEPT ![i] = @ \cup {part}]) <=> SettingsInstalled(s)
      BY <1>1, <1>2, PartIsAdded
    <2> QED BY <1>3, <2>2, <2>3, <2>4
  <1>6. CASE \E i \in DOMAIN s : CopyHook(i)
    <2>1. PICK i \in DOMAIN s : CopyHook(i)
      BY <1>6
    <2>2. s = project[Settings]
      BY <1>1, EntryIsInText
    <2>3. EditFile("markers", Settings, Append(s, s[i]))
      BY <2>1, <2>2 DEF CopyHook
    <2>4. Append(s, s[i]) \in Seq(SettingsEntry)
      <3>1. s[i] \in SettingsEntry
        BY <1>1, <1>2, {Hook} \in SettingsEntry, EntrySequence DEF SettingsEntry
      <3> QED BY <1>1, <3>1, EntrySequence
    <2> QED BY <1>3, <2>3, <2>4
  <1>7. CASE \E i \in DOMAIN s : DropEntry(i)
    <2>1. PICK i \in DOMAIN s : DropEntry(i)
      BY <1>7
    <2>2. s = project[Settings]
      BY <1>1, EntryIsInText
    <2> DEFINE kind == IF IsManagedHook(s[i]) THEN "markers" ELSE "entries"
    <2>3. EditFile(kind, Settings, RemoveAt(s, i)) /\ (kind # "markers" => ~IsManagedHook(s[i]))
      BY <2>1, <2>2 DEF DropEntry
    <2>4. /\ RemoveAt(s, i) \in Seq(SettingsEntry)
          /\ ~IsManagedHook(s[i])
                 => (SettingsInstalled(RemoveAt(s, i)) <=> SettingsInstalled(s))
      BY <1>1, <1>2, EntryIsDropped
    <2> HIDE DEF kind
    <2> QED BY <1>3, <2>2, <2>3, <2>4
  <1> QED BY <1>4, <1>5, <1>6, <1>7

(* The user neither configures nor takes the capabilities away, and makes  *)
(* and takes no mark without tampering.                                    *)
LEMMA UserEditsFit ==
    ASSUME IntegrationAssumption, FilesFit(project), UserEdits
    PROVE  /\ FilesFit(project') /\ planPc' = planPc /\ planLoc' = planLoc /\ NobodyReads
           /\ project'[ConfigFile] = project[ConfigFile]
           /\ project[CapabilitiesFile] # Absent => project'[CapabilitiesFile] # Absent
           /\ ~tampered' => ~tampered /\ SameMarks(project', project)
  <1>1. CASE DeclareCapability
    <2>1. EditFile("rules", CapabilitiesFile, Declared)
      BY <1>1 DEF DeclareCapability
    <2>2. Fits(CapabilitiesFile, Declared) /\ Declared # Absent /\ CapabilitiesFile \in Files
      BY FileNames DEF Fits, IntegrationAssumption
    <2>3. /\ FilesFit(project') /\ project'[CapabilitiesFile] = Declared
          /\ \A other \in Files : other # CapabilitiesFile => project'[other] = project[other]
          /\ planPc' = planPc /\ planLoc' = planLoc /\ NobodyReads
          /\ ~tampered' => ~tampered
      BY <2>1, <2>2, EditIs
    <2>4. /\ project'[ConfigFile] = project[ConfigFile]
          /\ project'[Settings] = project[Settings]
          /\ \A path \in Projected : project'[path] = project[path]
      BY <2>3, FileNames
    <2> QED BY <2>1, <2>2, <2>3, <2>4 DEF SameMarks
  <1>2. CASE ~DeclareCapability
    BY <1>2, LineEdits, SettingsEdits DEF UserEdits
  <1> QED BY <1>1, <1>2

----------------------------------------------------------------------------
(* The steps *)

LocalsFit ==
    /\ planPc \in [Invocations -> {"idle", "candidates", "compared"}]
    /\ planLoc = [p \in Invocations |-> planLoc[p]]
    /\ \A p \in Invocations : DOMAIN planLoc[p] = {"op", "adapter", "after", "before"}

Planning(p) ==
    \/ \E a \in Adapters : PlanInit(p, a) \/ PlanInstall(p, a) \/ PlanUninstall(p, a)
    \/ PlanRebuild(p)

(* Of the others, nothing changes.                                         *)
Alone(p) == \A q \in Invocations : q # p => planPc'[q] = planPc[q] /\ planLoc'[q] = planLoc[q]

LEMMA StepsAre ==
    ASSUME IntegrationNext
    PROVE  \/ UserEdits
           \/ \E p \in Invocations : Planning(p) \/ CompareFiles(p) \/ ApplyFiles(p) \/ AbandonFiles(p)
  <1>1. CASE \/ DeclareCapability
             \/ \E command \in UserCommands : AddEntry(command)
             \/ \E i \in DOMAIN Text(project[Settings]) :
                    \/ \E part \in UserCommands \cup {Altered} : ChangeEntry(i, part)
                    \/ CopyHook(i) \/ DropEntry(i)
    BY <1>1, Zenon DEF UserEdits
  <1>2. CASE \E path \in Projected :
                 \/ \E i \in 1 .. Len(Text(project[path])) + 1, line \in UserLines :
                        WriteLine(path, i, line)
                 \/ \E i \in DOMAIN Text(project[path]) : DropLine(path, i)
    BY <1>2, Zenon DEF UserEdits
  <1>3. CASE \E p \in Invocations :
                 \/ \E a \in Adapters :
                        PlanInit(p, a) \/ PlanInstall(p, a) \/ PlanUninstall(p, a)
                 \/ PlanRebuild(p)
                 \/ CompareFiles(p) \/ ApplyFiles(p) \/ AbandonFiles(p)
    BY <1>3, Zenon DEF Planning
  <1> QED BY <1>1, <1>2, <1>3, Zenon DEF IntegrationNext

LEMMA PlanForIs ==
    ASSUME LocalsFit, NEW p \in Invocations, NEW op, NEW a, NEW after, PlanFor(p, op, a, after)
    PROVE  /\ LocalsFit' /\ Alone(p) /\ project' = project
           /\ planPc[p] = "idle" /\ planPc'[p] = "candidates"
           /\ planLoc'[p].op = op /\ planLoc'[p].adapter = a /\ planLoc'[p].after = after
  <1> DEFINE new == [op |-> op, adapter |-> a, after |-> after, before |-> Empty]
  <1>1. /\ project' = project /\ planPc[p] = "idle"
        /\ planPc' = [planPc EXCEPT ![p] = "candidates"] /\ planLoc' = [planLoc EXCEPT ![p] = new]
    BY DEF PlanFor, PlanAt
  <1>2. /\ new.op = op /\ new.adapter = a /\ new.after = after
        /\ DOMAIN new = {"op", "adapter", "after", "before"}
    OBVIOUS
  <1> HIDE DEF new
  <1>3. planLoc'[p] = new /\ \A q \in Invocations : q # p => planLoc'[q] = planLoc[q]
    BY <1>1 DEF LocalsFit
  <1>4. planPc'[p] = "candidates" /\ \A q \in Invocations : q # p => planPc'[q] = planPc[q]
    BY <1>1 DEF LocalsFit
  <1>5. planPc' \in [Invocations -> {"idle", "candidates", "compared"}]
    BY <1>1 DEF LocalsFit
  <1>6. planLoc' = [q \in Invocations |-> planLoc'[q]]
    BY <1>1 DEF LocalsFit
  <1>7. LocalsFit'
    BY <1>2, <1>3, <1>5, <1>6 DEF LocalsFit
  <1> QED BY <1>1, <1>2, <1>3, <1>4, <1>7 DEF Alone

LEMMA CompareIs ==
    ASSUME LocalsFit, NEW p \in Invocations, CompareFiles(p)
    PROVE  LET after == planLoc[p].after
               changed == {file \in DOMAIN after : project[file] # after[file]}
           IN  /\ LocalsFit' /\ Alone(p) /\ project' = project
               /\ planPc[p] = "candidates" /\ planPc'[p] = "compared"
               /\ planLoc'[p].op = planLoc[p].op /\ planLoc'[p].adapter = planLoc[p].adapter
               /\ planLoc'[p].after = [file \in changed |-> after[file]]
               /\ planLoc'[p].before = [file \in changed |-> project[file]]
  <1> DEFINE l == planLoc[p]
             after == planLoc[p].after
             changed == {file \in DOMAIN after : project[file] # after[file]}
             old == [file \in changed |-> project[file]]
             kept == [file \in changed |-> after[file]]
             new == [l EXCEPT !.before = old, !.after = kept]
  <1>1. /\ project' = project /\ planPc[p] = "candidates"
        /\ planPc' = [planPc EXCEPT ![p] = "compared"]
        /\ planLoc' = [planLoc EXCEPT ![p].before = old, ![p].after = kept]
    BY DEF CompareFiles, PlanAt, Restrict
  <1>2. DOMAIN l = {"op", "adapter", "after", "before"}
    BY DEF LocalsFit
  <1> HIDE DEF old, kept
  <1>3. planLoc' = [planLoc EXCEPT ![p] = new]
    BY <1>1 DEF LocalsFit
  <1>4. /\ new.op = l.op /\ new.adapter = l.adapter /\ new.after = kept /\ new.before = old
        /\ DOMAIN new = {"op", "adapter", "after", "before"}
    <2> HIDE DEF l
    <2> QED BY <1>2
  <1> HIDE DEF new, l
  <1>5. planLoc'[p] = new /\ \A q \in Invocations : q # p => planLoc'[q] = planLoc[q]
    BY <1>3 DEF LocalsFit
  <1>6. planPc'[p] = "compared" /\ \A q \in Invocations : q # p => planPc'[q] = planPc[q]
    BY <1>1 DEF LocalsFit
  <1>7. planPc' \in [Invocations -> {"idle", "candidates", "compared"}]
    BY <1>1 DEF LocalsFit
  <1>8. planLoc' = [q \in Invocations |-> planLoc'[q]]
    BY <1>3 DEF LocalsFit
  <1>9. LocalsFit'
    BY <1>4, <1>5, <1>7, <1>8 DEF LocalsFit
  <1> QED BY <1>1, <1>4, <1>5, <1>6, <1>9 DEF Alone, l, old, kept

LEMMA LeaveIs ==
    ASSUME LocalsFit, NEW p \in Invocations, EndPlan(p)
    PROVE  LocalsFit' /\ Alone(p) /\ planPc'[p] = "idle"
  <1> DEFINE new == NoProposal
  <1>1. planPc' = [planPc EXCEPT ![p] = "idle"] /\ planLoc' = [planLoc EXCEPT ![p] = new]
    BY DEF EndPlan, PlanAt
  <1>2. DOMAIN new = {"op", "adapter", "after", "before"}
    BY DEF NoProposal
  <1> HIDE DEF new
  <1>3. planLoc'[p] = new /\ \A q \in Invocations : q # p => planLoc'[q] = planLoc[q]
    BY <1>1 DEF LocalsFit
  <1>4. planPc'[p] = "idle" /\ \A q \in Invocations : q # p => planPc'[q] = planPc[q]
    BY <1>1 DEF LocalsFit
  <1>5. planPc' \in [Invocations -> {"idle", "candidates", "compared"}]
    BY <1>1 DEF LocalsFit
  <1>6. planLoc' = [q \in Invocations |-> planLoc'[q]]
    BY <1>1 DEF LocalsFit
  <1>7. LocalsFit'
    BY <1>2, <1>3, <1>5, <1>6 DEF LocalsFit
  <1> QED BY <1>3, <1>4, <1>7 DEF Alone

(* What a plan is, whatever the operation.                                 *)
Plans(p, op, a, after) ==
    /\ PlanFor(p, op, a, after) /\ a \in Adapters
    /\ Proposed(after) /\ Preserves(after, project)
    /\ project[CapabilitiesFile] # Absent \/ CapabilitiesFile \in DOMAIN after
    /\ op \in {"init", "install"} => SetsUp(after, a)
    /\ ~tampered' => ~tampered
    /\ ~tampered' /\ IsTrue(project) => IsTrue(Over(after, project))

LEMMA PlansAre ==
    ASSUME IntegrationAssumption, FilesFit(project), HasConfig => project[CapabilitiesFile] # Absent,
           NEW p \in Invocations, Planning(p)
    PROVE  \E op, a, after : Plans(p, op, a, after)
  <1>1. ASSUME NEW a \in Adapters, PlanInit(p, a)
        PROVE  Plans(p, "init", a, Initialized(a))
    <2>1. /\ PlanFor(p, "init", a, Initialized(a))
          /\ \A path \in ProjectionOf(a) : Manageable(Text(project[path]))
      BY <1>1 DEF PlanInit
    <2>0. ~tampered' => ~tampered /\ ~HasConfig
      BY <1>1, Zenon DEF PlanInit
    <2>2. /\ PlannedFrom(Initialized(a), ProjectionOf(a), {}, project)
          /\ SetsUp(Initialized(a), a) /\ CapabilitiesFile \in DOMAIN Initialized(a)
      BY <2>1, InitializedFits
    <2>3. Proposed(Initialized(a)) /\ Preserves(Initialized(a), project)
      BY <2>2, PlansFit
    <2>4. ~HasConfig /\ IsTrue(project) => IsTrue(Over(Initialized(a), project))
      BY <2>1, InitializedIsTrue DEF HasConfig
    <2> QED BY <2>0, <2>1, <2>2, <2>3, <2>4 DEF Plans
  <1>2. ASSUME NEW a \in Adapters, PlanInstall(p, a)
        PROVE  Plans(p, "install", a, Installed(a))
    <2>1. /\ PlanFor(p, "install", a, Installed(a)) /\ HasConfig /\ tampered' = tampered
          /\ \A path \in Retired(a) \cup ProjectionOf(a) : Manageable(Text(project[path]))
      BY <1>2 DEF PlanInstall
    <2>2. /\ PlannedFrom(Installed(a), ProjectionOf(a), Retired(a), project)
          /\ SetsUp(Installed(a), a)
      BY <2>1, InstalledFits
    <2>3. Proposed(Installed(a)) /\ Preserves(Installed(a), project)
      BY <2>2, PlansFit
    <2>4. IsTrue(project) => IsTrue(Over(Installed(a), project))
      BY <2>1, InstalledIsTrue
    <2> QED BY <2>1, <2>2, <2>3, <2>4 DEF Plans
  <1>3. ASSUME NEW a \in Adapters, PlanUninstall(p, a)
        PROVE  Plans(p, "uninstall", a, Uninstalled(a))
    <2>1. /\ PlanFor(p, "uninstall", a, Uninstalled(a)) /\ HasConfig /\ tampered' = tampered
          /\ \A path \in ProjectionOf(a) : Manageable(Text(project[path]))
      BY <1>3 DEF PlanUninstall
    <2>2. Proposed(Uninstalled(a)) /\ Preserves(Uninstalled(a), project)
      BY <2>1, UninstalledFits, PlansFit
    <2>3. IsTrue(project) => IsTrue(Over(Uninstalled(a), project))
      BY <2>1, UninstalledIsTrue
    <2> QED BY <2>1, <2>2, <2>3 DEF Plans
  <1>4. ASSUME PlanRebuild(p)
        PROVE  Plans(p, "rebuild", project[ConfigFile].adapter, Rebuilt)
    <2>1. /\ PlanFor(p, "rebuild", project[ConfigFile].adapter, Rebuilt)
          /\ HasConfig /\ tampered' = tampered
          /\ \A path \in project[ConfigFile].managed : Manageable(Text(project[path]))
      BY <1>4 DEF PlanRebuild
    <2>2. Proposed(Rebuilt) /\ Preserves(Rebuilt, project)
      BY <2>1, RebuiltFits, PlansFit
    <2>3. IsTrue(project) => IsTrue(Over(Rebuilt, project))
      BY <2>1, RebuiltIsTrue
    <2>4. project[ConfigFile].adapter \in Adapters
      BY <2>1, Configured DEF HasConfig
    <2> QED BY <2>1, <2>2, <2>3, <2>4 DEF Plans
  <1> QED BY <1>1, <1>2, <1>3, <1>4 DEF Planning

(* Leaving out of a plan what the files are already changes nothing.       *)
LEMMA ComparedIs ==
    ASSUME IntegrationAssumption, LocalsFit, NEW p \in Invocations, CompareFiles(p),
           Proposed(planLoc[p].after)
    PROVE  /\ Proposed(planLoc'[p].after) /\ DOMAIN planLoc'[p].before = DOMAIN planLoc'[p].after
           /\ \A file \in DOMAIN planLoc'[p].after :
                  /\ file \in DOMAIN planLoc[p].after
                  /\ planLoc'[p].after[file] = planLoc[p].after[file]
                  /\ planLoc'[p].before[file] = project[file]
           /\ Over(planLoc'[p].after, project) = Over(planLoc[p].after, project)
           /\ CapabilitiesFile \in DOMAIN planLoc[p].after =>
                  project[CapabilitiesFile] # Absent \/ CapabilitiesFile \in DOMAIN planLoc'[p].after
  <1> DEFINE after == planLoc[p].after
             changed == {file \in DOMAIN after : project[file] # after[file]}
             new == planLoc'[p].after
  <1>1. /\ new = [file \in changed |-> after[file]]
        /\ planLoc'[p].before = [file \in changed |-> project[file]]
    BY CompareIs
  <1> HIDE DEF new, after
  <1>2. DOMAIN new = changed /\ \A file \in changed : new[file] = after[file]
    BY <1>1
  <1>3. Proposed(new)
    BY <1>2 DEF Proposed, after
  <1>4. Over(new, project) = Over(after, project)
    BY <1>2 DEF Over
  <1>5. CapabilitiesFile \in DOMAIN after =>
            project[CapabilitiesFile] # Absent \/ CapabilitiesFile \in DOMAIN new
    <2>1. CapabilitiesFile \in DOMAIN after => after[CapabilitiesFile] # Absent
      BY FileNames, WhatFitsIsThere DEF Proposed, after
    <2> QED BY <1>2, <2>1
  <1> QED BY <1>1, <1>2, <1>3, <1>4, <1>5 DEF new, after

----------------------------------------------------------------------------
(* What holds whatever the user does                                       *)

PlanIsSound(point, l, f) ==
    /\ Proposed(l.after) /\ l.adapter \in Adapters
    /\ f[CapabilitiesFile] # Absent \/ CapabilitiesFile \in DOMAIN l.after
    /\ point = "candidates" /\ l.op \in {"init", "install"} => SetsUp(l.after, l.adapter)

IntegrationInv ==
    /\ FilesFit(project) /\ LocalsFit
    /\ HasConfig => project[CapabilitiesFile] # Absent
    /\ \A p \in Invocations : planPc[p] # "idle" => PlanIsSound(planPc[p], planLoc[p], project)

LEMMA InitialFiles ==
    ASSUME IntegrationAssumption, IntegrationInit
    PROVE  FilesFit(project) /\ IsTrue(project) /\ ~HasConfig
  <1>1. PICK texts \in [Projected -> {Absent} \cup {<<l>> : l \in UserLines}],
             entries \in {Absent} \cup {<<{c}>> : c \in UserCommands} :
            project = [file \in Files |-> CASE file \in {ConfigFile, CapabilitiesFile} -> Absent
                                         [] file = Settings -> entries
                                         [] OTHER -> texts[file]]
    BY DEF IntegrationInit
  <1>2. ASSUME NEW path \in Projected
        PROVE  project[path] = texts[path]
    BY <1>1, FileNames
  <1>3. /\ project[ConfigFile] = Absent /\ project[CapabilitiesFile] = Absent
        /\ project[Settings] = entries
    BY <1>1, FileNames
  <1>4. ASSUME NEW path \in Projected
        PROVE  /\ project[path] = Absent \/ project[path] \in Seq(Lines)
               /\ ~HasBlock(project[path])
    <2>1. CASE texts[path] = Absent
      BY <1>2, <2>1, Untouched
    <2>2. CASE texts[path] # Absent
      <3>1. PICK l \in UserLines : texts[path] = <<l>>
        BY <2>2
      <3>2. l \in Lines /\ l # StartMarker /\ l # EndMarker
        BY DEF IntegrationAssumption, Lines
      <3>3. <<l>> \in Seq(Lines) /\ Unmarked(<<l>>)
        <4> DEFINE t == <<l>>
        <4>1. t \in Seq(Lines) /\ Len(t) = 1 /\ t[1] = l
          BY <3>2
        <4> HIDE DEF t
        <4>2. \A i \in 1 .. Len(t) : t[i] # StartMarker /\ t[i] # EndMarker
          BY <3>2, <4>1
        <4>3. t \in Seq(Lines) /\ Unmarked(t)
          BY <4>1, <4>2, UnmarkedIs
        <4> QED BY <4>3 DEF t
      <3>4. Text(<<l>>) = <<l>>
        BY <3>3, OfLines
      <3> QED BY <1>2, <3>1, <3>3, <3>4 DEF HasBlock
    <2> QED BY <2>1, <2>2
  <1>5. /\ project[Settings] = Absent \/ project[Settings] \in Seq(SettingsEntry)
        /\ ~SettingsInstalled(project[Settings])
    <2>1. CASE entries = Absent
      BY <1>3, <2>1, Untouched
    <2>2. CASE entries # Absent
      <3>1. PICK c \in UserCommands : entries = <<{c}>>
        BY <2>2
      <3>2. {c} \in Own
        BY DEF Own, SettingsEntry, IsManagedHook, IntegrationAssumption
      <3>3. entries \in Seq(Own)
        BY <3>1, <3>2
      <3>4. entries \in Seq(SettingsEntry)
        BY <3>3, OwnSequences
      <3>5. Text(entries) = entries
        BY <3>4, OfText
      <3> QED BY <1>3, <3>3, <3>4, <3>5, OwnHasNone
    <2> QED BY <2>1, <2>2
  <1>6. FilesFit(project)
    <2>1. project = [file \in Files |-> project[file]]
      BY <1>1
    <2>2. \A file \in Files : project[file] = Absent \/ Fits(file, project[file])
      BY <1>3, <1>4, <1>5, FileNames DEF Fits
    <2> QED BY <2>1, <2>2 DEF FilesFit
  <1> QED BY <1>3, <1>4, <1>5, <1>6 DEF IsTrue, HasConfig

LEMMA InitialLocals ==
    ASSUME IntegrationInit
    PROVE  LocalsFit /\ \A p \in Invocations : planPc[p] = "idle"
  <1>1. planPc = [p \in Invocations |-> "idle"] /\ planLoc = [p \in Invocations |-> NoProposal]
    BY DEF IntegrationInit
  <1>2. DOMAIN NoProposal = {"op", "adapter", "after", "before"}
    BY DEF NoProposal
  <1> QED BY <1>1, <1>2 DEF LocalsFit

LEMMA IntegrationInitial ==
    ASSUME IntegrationAssumption, IntegrationInit
    PROVE  IntegrationInv
  BY InitialFiles, InitialLocals DEF IntegrationInv

LEMMA ApplyIs ==
    ASSUME IntegrationAssumption, IntegrationInv, NEW p \in Invocations, ApplyFiles(p)
    PROVE  /\ planPc[p] = "compared" /\ planPc'[p] = "idle" /\ NobodyReads /\ AsReviewed(p)
           /\ Proposed(planLoc[p].after) /\ project' = Over(planLoc[p].after, project)
           /\ FilesFit(project') /\ LocalsFit' /\ Alone(p)
           /\ \A file \in Files :
                  project'[file] = IF file \in DOMAIN planLoc[p].after THEN planLoc[p].after[file]
                                 ELSE project[file]
  <1>1. /\ planPc[p] = "compared" /\ NobodyReads /\ AsReviewed(p) /\ EndPlan(p)
        /\ project' = Over(planLoc[p].after, project)
    BY DEF ApplyFiles
  <1>2. Proposed(planLoc[p].after) /\ FilesFit(project) /\ LocalsFit
    BY <1>1 DEF IntegrationInv, PlanIsSound
  <1>3. FilesFit(project')
    BY <1>1, <1>2, WhatIsAppliedFits
  <1>4. LocalsFit' /\ Alone(p) /\ planPc'[p] = "idle"
    BY <1>1, <1>2, LeaveIs
  <1>5. \A file \in Files :
            project'[file] = IF file \in DOMAIN planLoc[p].after THEN planLoc[p].after[file]
                           ELSE project[file]
    BY <1>1 DEF Over
  <1> QED BY <1>1, <1>2, <1>3, <1>4, <1>5

(* The plans of the others stay sound while capabilities are only added.   *)
LEMMA OthersStaySound ==
    ASSUME IntegrationInv, NEW p \in Invocations, Alone(p), NEW q \in Invocations, q # p,
           project[CapabilitiesFile] # Absent => project'[CapabilitiesFile] # Absent, planPc'[q] # "idle"
    PROVE  PlanIsSound(planPc'[q], planLoc'[q], project')
  <1>1. planPc'[q] = planPc[q] /\ planLoc'[q] = planLoc[q]
    BY DEF Alone
  <1>2. PlanIsSound(planPc[q], planLoc[q], project)
    BY <1>1 DEF IntegrationInv
  <1> QED BY <1>1, <1>2 DEF PlanIsSound

LEMMA IntegrationSteps ==
    ASSUME IntegrationAssumption, IntegrationInv, [IntegrationNext]_integrationVars
    PROVE  IntegrationInv'
  <1>0. FilesFit(project) /\ LocalsFit /\ (HasConfig => project[CapabilitiesFile] # Absent)
    BY DEF IntegrationInv
  <1>1. CASE UserEdits
    <2>1. /\ FilesFit(project') /\ planPc' = planPc /\ planLoc' = planLoc
          /\ project'[ConfigFile] = project[ConfigFile]
          /\ project[CapabilitiesFile] # Absent => project'[CapabilitiesFile] # Absent
      BY <1>0, <1>1, UserEditsFit
    <2> QED BY <2>1 DEF IntegrationInv, LocalsFit, HasConfig, PlanIsSound
  <1>2. ASSUME NEW p \in Invocations, Planning(p)
        PROVE  IntegrationInv'
    <2>1. PICK op, a, after : Plans(p, op, a, after)
      BY <1>0, <1>2, PlansAre
    <2>2. /\ LocalsFit' /\ Alone(p) /\ project' = project /\ planPc'[p] = "candidates"
          /\ planLoc'[p].op = op /\ planLoc'[p].adapter = a /\ planLoc'[p].after = after
      BY <1>0, <2>1, PlanForIs DEF Plans
    <2>3. PlanIsSound(planPc'[p], planLoc'[p], project')
      BY <2>1, <2>2 DEF Plans, PlanIsSound
    <2>4. \A q \in Invocations : planPc'[q] # "idle" => PlanIsSound(planPc'[q], planLoc'[q], project')
      BY <2>2, <2>3, OthersStaySound
    <2> QED BY <1>0, <2>2, <2>4 DEF IntegrationInv, HasConfig
  <1>3. ASSUME NEW p \in Invocations, CompareFiles(p)
        PROVE  IntegrationInv'
    <2>1. /\ LocalsFit' /\ Alone(p) /\ project' = project
          /\ planPc[p] = "candidates" /\ planPc'[p] = "compared"
          /\ planLoc'[p].op = planLoc[p].op /\ planLoc'[p].adapter = planLoc[p].adapter
      BY <1>0, <1>3, CompareIs
    <2>2. PlanIsSound(planPc[p], planLoc[p], project)
      BY <2>1 DEF IntegrationInv
    <2>3. /\ Proposed(planLoc'[p].after)
          /\ CapabilitiesFile \in DOMAIN planLoc[p].after =>
                 project[CapabilitiesFile] # Absent \/ CapabilitiesFile \in DOMAIN planLoc'[p].after
      BY <1>0, <1>3, <2>2, ComparedIs DEF PlanIsSound
    <2>4. PlanIsSound(planPc'[p], planLoc'[p], project')
      BY <2>1, <2>2, <2>3 DEF PlanIsSound
    <2>5. \A q \in Invocations : planPc'[q] # "idle" => PlanIsSound(planPc'[q], planLoc'[q], project')
      BY <2>1, <2>4, OthersStaySound
    <2> QED BY <1>0, <2>1, <2>5 DEF IntegrationInv, HasConfig
  <1>4. ASSUME NEW p \in Invocations, ApplyFiles(p)
        PROVE  IntegrationInv'
    <2>1. /\ planPc[p] = "compared" /\ planPc'[p] = "idle" /\ Proposed(planLoc[p].after)
          /\ FilesFit(project') /\ LocalsFit' /\ Alone(p)
          /\ \A file \in Files :
                 project'[file] = IF file \in DOMAIN planLoc[p].after THEN planLoc[p].after[file]
                                ELSE project[file]
      BY <1>4, ApplyIs
    <2>2. project[CapabilitiesFile] # Absent \/ CapabilitiesFile \in DOMAIN planLoc[p].after
      BY <2>1 DEF IntegrationInv, PlanIsSound
    <2>3. CapabilitiesFile \in DOMAIN planLoc[p].after => planLoc[p].after[CapabilitiesFile] # Absent
      BY <2>1, FileNames, WhatFitsIsThere DEF Proposed
    <2>4. project'[CapabilitiesFile] # Absent
      BY <2>1, <2>2, <2>3, FileNames
    <2>5. \A q \in Invocations : planPc'[q] # "idle" => PlanIsSound(planPc'[q], planLoc'[q], project')
      BY <2>1, <2>4, OthersStaySound
    <2> QED BY <2>1, <2>4, <2>5 DEF IntegrationInv
  <1>5. ASSUME NEW p \in Invocations, AbandonFiles(p)
        PROVE  IntegrationInv'
    <2>1. EndPlan(p) /\ project' = project
      BY <1>5 DEF AbandonFiles
    <2>2. LocalsFit' /\ Alone(p) /\ planPc'[p] = "idle"
      BY <1>0, <2>1, LeaveIs
    <2>3. \A q \in Invocations : planPc'[q] # "idle" => PlanIsSound(planPc'[q], planLoc'[q], project')
      BY <2>1, <2>2, OthersStaySound
    <2> QED BY <1>0, <2>1, <2>2, <2>3 DEF IntegrationInv, HasConfig
  <1>6. CASE UNCHANGED integrationVars
    BY <1>6 DEF integrationVars, IntegrationInv, LocalsFit, HasConfig, PlanIsSound
  <1> QED BY <1>1, <1>2, <1>3, <1>4, <1>5, <1>6, StepsAre

----------------------------------------------------------------------------
(* What Doctor says *)

LEMMA VerdictIs ==
    ASSUME NEW holds \in BOOLEAN
    PROVE  Verdict(holds) # "error" <=> holds
  BY DEF Verdict

LEMMA ReportIs ==
    ASSUME NEW fs, NEW env, env \in Surroundings
    PROVE  ReportOk(Report(fs, env)) <=>
               /\ ~env.pending /\ env.valid = CanonicalFiles
               /\ env.modules /\ env.workspace
               /\ fs[ConfigFile] # Absent /\ fs[CapabilitiesFile] # Absent
               /\ Compatible(env)
               /\ LauncherCheck(fs, env) # "error" /\ AdapterCheck(fs) # "error"
               /\ ProjectionsCheck(fs) # "error"
  <1> DEFINE config == "config" \in env.valid /\ fs[ConfigFile] # Absent
             modules == "modules-lock" \in env.valid /\ fs[CapabilitiesFile] # Absent
             declared == "capabilities" \in env.valid /\ fs[CapabilitiesFile] # Absent
             report == Report(fs, env)
             value(check) ==
                 CASE check = "transaction" -> Verdict(~env.pending)
                   [] check = "config" -> Verdict(config)
                   [] check = "capabilities" -> Verdict(declared)
                   [] check = "modules-lock" -> Verdict(modules)
                   [] check = "module-hashes" -> Verdict(modules /\ env.modules)
                   [] check = "terminal-command" ->
                          IF env.on_path THEN "pass" ELSE "warning"
                   [] check = "workspace" -> Verdict(env.workspace)
                   [] check = "runtime-version" /\ config -> Verdict(Compatible(env))
                   [] check = "client-launcher" /\ config -> LauncherCheck(fs, env)
                   [] check = "adapter" /\ config -> AdapterCheck(fs)
                   [] check = "managed-projections" /\ config -> ProjectionsCheck(fs)
                   [] OTHER -> "error"
  <1>1. report = [check \in Checks |-> value(check)]
    BY Zenon DEF Report
  <1>2. /\ env.pending \in BOOLEAN /\ env.modules \in BOOLEAN /\ env.workspace \in BOOLEAN
        /\ env.on_path \in BOOLEAN /\ env.valid \subseteq CanonicalFiles
    BY DEF Surroundings
  <1>3. Compatible(env) \in BOOLEAN
    BY DEF Compatible
  <1>4. (value("transaction") # "error" <=> ~env.pending)
    BY <1>2, VerdictIs
  <1>5. value("config") # "error" <=> config
    BY VerdictIs
  <1>6. value("capabilities") # "error" <=> declared
    BY VerdictIs
  <1>7. value("modules-lock") # "error" <=> modules
    BY VerdictIs
  <1>8. value("module-hashes") # "error" <=> modules /\ env.modules
    BY <1>2, VerdictIs
  <1>9. value("terminal-command") # "error"
    OBVIOUS
  <1>10. value("workspace") # "error" <=> env.workspace
    BY <1>2, VerdictIs
  <1>11. value("runtime-version") # "error" <=> config /\ Compatible(env)
    BY <1>3, VerdictIs
  <1>12. value("client-launcher") # "error" <=> config /\ LauncherCheck(fs, env) # "error"
    OBVIOUS
  <1>13. value("adapter") # "error" <=> config /\ AdapterCheck(fs) # "error"
    OBVIOUS
  <1>14. value("managed-projections") # "error" <=> config /\ ProjectionsCheck(fs) # "error"
    OBVIOUS
  <1> HIDE DEF value, report
  <1>15. ReportOk(report) <=> \A check \in Checks : value(check) # "error"
    BY <1>1 DEF ReportOk
  <1>16. (\A check \in Checks : value(check) # "error") <=>
             /\ value("transaction") # "error" /\ value("config") # "error"
             /\ value("capabilities") # "error" /\ value("modules-lock") # "error"
             /\ value("runtime-version") # "error" /\ value("terminal-command") # "error"
             /\ value("client-launcher") # "error" /\ value("adapter") # "error"
             /\ value("managed-projections") # "error"
             /\ value("module-hashes") # "error" /\ value("workspace") # "error"
    BY DEF Checks
  <1>17. (config /\ modules /\ declared) <=>
             /\ env.valid = CanonicalFiles
             /\ fs[ConfigFile] # Absent /\ fs[CapabilitiesFile] # Absent
    BY <1>2 DEF CanonicalFiles
  <1>18. ReportOk(report) <=>
             /\ ~env.pending /\ config /\ modules /\ declared
             /\ env.modules /\ env.workspace /\ Compatible(env)
             /\ LauncherCheck(fs, env) # "error" /\ AdapterCheck(fs) # "error"
             /\ ProjectionsCheck(fs) # "error"
    <2> HIDE DEF config, modules, declared
    <2> QED BY <1>4, <1>5, <1>6, <1>7, <1>8, <1>9, <1>10, <1>11, <1>12, <1>13, <1>14,
               <1>15, <1>16
  <1> QED BY <1>17, <1>18 DEF report

LEMMA EnforcedIsClaude ==
    ASSUME NEW a
    PROVE  Mode(a) = "enforced" <=> a = Claude
  BY DEF Mode

LEMMA LauncherIs ==
    ASSUME IntegrationAssumption, NEW fs, NEW env
    PROVE  LauncherCheck(fs, env) # "error" <=>
               (fs[ConfigFile].adapter = Claude => env.launcher = "working")
  <1>1. Claude # Generic
    BY DEF IntegrationAssumption
  <1> QED BY <1>1, EnforcedIsClaude DEF LauncherCheck

(* The adapter is configured for a, and its files are what it wants.       *)
Healthy(fs, a) ==
    /\ \A path \in ProjectionOf(a) : fs[path] # Absent /\ Current(fs[path])
    /\ a = Claude => SettingsInstalled(fs[Settings])

LEMMA HealthIs ==
    ASSUME IntegrationAssumption, NEW fs, FilesFit(fs), fs[ConfigFile] # Absent
    PROVE  AdapterCheck(fs) # "error" /\ ProjectionsCheck(fs) # "error" <=>
               Healthy(fs, fs[ConfigFile].adapter)
  <1> DEFINE a == fs[ConfigFile].adapter
             blocks == \A path \in ProjectionOf(a) : fs[path] # Absent /\ Current(fs[path])
  <1>1. a \in Adapters /\ fs[ConfigFile].managed = ProjectionOf(a)
    BY Configured
  <1>2. ProjectionsCheck(fs) # "error" <=> blocks
    BY <1>1, VerdictIs DEF ProjectionsCheck
  <1>3. AdapterCheck(fs) # "error" <=> (a = Claude => Health(fs, a) = "healthy")
    <2>1. AdapterCheck(fs) # "error" <=> (Mode(a) = "enforced" => Health(fs, a) = "healthy")
      BY VerdictIs DEF AdapterCheck
    <2> QED BY <2>1, EnforcedIsClaude
  <1>4. ASSUME a = Claude, blocks
        PROVE  Health(fs, a) = "healthy" <=> SettingsInstalled(fs[Settings])
    <2>1. a # Generic
      BY <1>4 DEF IntegrationAssumption
    <2>2. ProjectionOf(a) = {Projection[a]}
      BY <1>1, <2>1, OfAdapter
    <2>3. fs[Projection[a]] # Absent /\ Current(fs[Projection[a]])
      BY <1>4, <2>2
    <2>4. Manageable(fs[Projection[a]])
      BY <2>3 DEF Current, Manageable
    <2>5. BlockHealth(fs, a) = "healthy"
      BY <2>3, <2>4 DEF BlockHealth
    <2> QED BY <1>4, <2>1, <2>5 DEF Health
  <1>5. Healthy(fs, a) <=> blocks /\ (a = Claude => SettingsInstalled(fs[Settings]))
    BY DEF Healthy
  <1> HIDE DEF a, blocks
  <1>6. AdapterCheck(fs) # "error" /\ ProjectionsCheck(fs) # "error" <=> Healthy(fs, a)
    BY <1>2, <1>3, <1>4, <1>5
  <1> QED BY <1>6 DEF a

(* A block is as a repair would make it exactly when it is current.        *)
LEMMA CurrentNeedsNoRepair ==
    ASSUME IntegrationAssumption, NEW content, content = Absent \/ content \in Seq(Lines)
    PROVE  content # Absent /\ Current(content) <=>
               Manageable(Text(content)) /\ Render(Text(content)) = content
  <1>1. CASE content = Absent
    <2>1. Text(content) = <<>>
      BY <1>1 DEF Text
    <2>2. Text(content) \in Seq(Lines) /\ Manageable(Text(content))
      BY <2>1, EmptyIsPlain DEF Plain, Manageable
    <2>3. Render(Text(content)) # Absent
      BY <2>2, RenderedIs, OfLines
    <2> QED BY <1>1, <2>3
  <1>2. CASE content # Absent
    <2>1. content \in Seq(Lines) /\ Text(content) = content
      BY <1>2 DEF Text
    <2>2. Current(content) => Manageable(content)
      BY DEF Current, Manageable
    <2> QED BY <1>2, <2>1, <2>2, CurrentIsRendered
  <1> QED BY <1>1, <1>2

(* A repair is an installation of the configured client: it writes the     *)
(* client's block and its settings.                                        *)
LEMMA RepairedIs ==
    ASSUME IntegrationAssumption, FilesFit(project), HasConfig,
           NEW a, a = project[ConfigFile].adapter
    PROVE  /\ Repairable <=> \A path \in ProjectionOf(a) : Manageable(Text(project[path]))
           /\ Repaired \subseteq ProjectionOf(a) \cup {Settings}
           /\ \A path \in ProjectionOf(a) :
                  path \in Repaired <=> Render(Text(project[path])) # project[path]
           /\ Settings \in Repaired <=>
                  a = Claude /\ InstallSettings(project[Settings]) # project[Settings]
  <1> DEFINE after == Installed(a)
  <1>1. /\ a \in Adapters /\ project[ConfigFile] \in Configuration
        /\ project[ConfigFile].managed = ProjectionOf(a)
    <2>1. Fits(ConfigFile, project[ConfigFile])
      BY FileNames DEF FilesFit, HasConfig
    <2> QED BY <2>1, Configured DEF Fits, HasConfig
  <1>2. Retired(a) = {}
    BY <1>1, RetiredIs
  <1>3. SettingsOf(a) = IF a = Claude THEN {Settings} ELSE {}
    BY DEF SettingsOf
  <1>4. /\ DOMAIN after = Retired(a) \cup ProjectionOf(a) \cup SettingsOf(a) \cup {ConfigFile}
        /\ after[ConfigFile] = [adapter |-> a, managed |-> ProjectionOf(a)]
        /\ Settings \in SettingsOf(a) =>
               after[Settings] = IF a = Claude THEN InstallSettings(project[Settings])
                                 ELSE UninstallSettings(project[Settings])
        /\ \A path \in ProjectionOf(a) : after[path] = Render(Text(project[path]))
    BY <1>1, InstalledIs
  <1>5. after[ConfigFile] = project[ConfigFile]
    BY <1>1, <1>4 DEF Configuration
  <1>6. Repaired = {file \in DOMAIN after : after[file] # project[file]}
    BY DEF Repaired
  <1>7. /\ \A path \in ProjectionOf(a) : path # Settings /\ path # ConfigFile
        /\ Settings # ConfigFile
    BY <1>1, OfAdapter, FileNames
  <1>8. Repairable <=> \A path \in ProjectionOf(a) : Manageable(Text(project[path]))
    BY <1>2 DEF Repairable
  <1> HIDE DEF after
  <1> QED BY <1>2, <1>3, <1>4, <1>5, <1>6, <1>7, <1>8

LEMMA HealthyNeedsNoRepair ==
    ASSUME IntegrationAssumption, FilesFit(project), HasConfig,
           NEW a, a = project[ConfigFile].adapter
    PROVE  /\ Repairable /\ Repaired = {} => Healthy(project, a)
           /\ Healthy(project, a) =>
                  /\ Repairable
                  /\ Repaired \subseteq {Settings}
                  /\ Settings \in Repaired =>
                         \E i \in DOMAIN Text(project[Settings]) :
                             HookEntries(project[Settings]) = {i}
  <1>1. a \in Adapters
    BY Configured DEF HasConfig
  <1>2. ASSUME NEW path \in ProjectionOf(a)
        PROVE  project[path] # Absent /\ Current(project[path]) <=>
                   Manageable(Text(project[path])) /\ Render(Text(project[path])) = project[path]
    <2>1. path \in Projected /\ path \in Files
      BY <1>1, OfAdapter, FileNames
    <2>2. project[path] = Absent \/ project[path] \in Seq(Lines)
      BY <2>1 DEF FilesFit, Fits
    <2> QED BY <2>2, CurrentNeedsNoRepair
  <1>3. Text(project[Settings]) \in Seq(SettingsEntry)
    BY TextFits
  <1>4. InstallSettings(project[Settings]) = project[Settings]
            => SettingsInstalled(project[Settings])
    BY <1>3, InstallingInstalls
  <1>5. SettingsInstalled(project[Settings]) =>
            \E i \in DOMAIN Text(project[Settings]) : HookEntries(project[Settings]) = {i}
    <2>1. HookEntries(project[Settings]) \subseteq DOMAIN Text(project[Settings])
      BY DEF HookEntries
    <2> QED BY <1>3, <2>1, InstalledIsOne
  <1>6. /\ Repairable <=> \A path \in ProjectionOf(a) : Manageable(Text(project[path]))
        /\ Repaired \subseteq ProjectionOf(a) \cup {Settings}
        /\ \A path \in ProjectionOf(a) :
               path \in Repaired <=> Render(Text(project[path])) # project[path]
        /\ Settings \in Repaired <=>
               a = Claude /\ InstallSettings(project[Settings]) # project[Settings]
    BY RepairedIs
  <1>7. ASSUME Repairable, Repaired = {}
        PROVE  Healthy(project, a)
    BY <1>2, <1>4, <1>6, <1>7 DEF Healthy
  <1>8. ASSUME Healthy(project, a)
        PROVE  /\ Repairable
               /\ Repaired \subseteq {Settings}
               /\ Settings \in Repaired =>
                      \E i \in DOMAIN Text(project[Settings]) :
                          HookEntries(project[Settings]) = {i}
    <2>1. /\ \A path \in ProjectionOf(a) :
                 Manageable(Text(project[path])) /\ Render(Text(project[path])) = project[path]
          /\ a = Claude => SettingsInstalled(project[Settings])
      BY <1>2, <1>8 DEF Healthy
    <2> QED BY <1>5, <1>6, <2>1
  <1> QED BY <1>7, <1>8

(* What the files and the surroundings say is all that Doctor needs.       *)
LEMMA DoctorSeesRepairs ==
    ASSUME IntegrationAssumption, HealthAssumption, FilesFit(project)
    PROVE  DoctorIsSound
  <1> DEFINE a == project[ConfigFile].adapter
             around(env) == Workable(env) /\ (a = Claude => env.launcher = "working")
             there == HasConfig /\ project[CapabilitiesFile] # Absent
             only == \E i \in DOMAIN Text(project[Settings]) :
                         HookEntries(project[Settings]) = {i}
  <1>1. ASSUME NEW env \in Environments
        PROVE  ReportOk(Report(project, env)) <=> there /\ around(env) /\ Healthy(project, a)
    <2>1. env \in Surroundings
      BY DEF HealthAssumption
    <2>2. Compatible(env) <=> env.runtime \notin {"newer", "other_major"}
      <3>1. env.runtime \in {"same", "older", "newer", "other_major"}
        BY <2>1 DEF Surroundings
      <3> QED BY <3>1 DEF Compatible
    <2>3. CASE HasConfig
      <3>1. AdapterCheck(project) # "error" /\ ProjectionsCheck(project) # "error"
                <=> Healthy(project, a)
        BY <2>3, HealthIs DEF HasConfig
      <3>2. LauncherCheck(project, env) # "error" <=> (a = Claude => env.launcher = "working")
        BY LauncherIs
      <3> QED BY <2>1, <2>2, <2>3, <3>1, <3>2, ReportIs DEF HasConfig, Workable
    <2>4. CASE ~HasConfig
      BY <2>1, <2>4, ReportIs DEF HasConfig
    <2> QED BY <2>3, <2>4
  <1>2. ASSUME HasConfig
        PROVE  /\ Repairable /\ Repaired = {} => Healthy(project, a)
               /\ Healthy(project, a) =>
                      /\ Repairable /\ Repaired \subseteq {Settings}
                      /\ Settings \in Repaired => only
    BY <1>2, HealthyNeedsNoRepair
  <1>3. ASSUME NEW env \in Environments
        PROVE  /\ there /\ around(env) /\ Repairable /\ Repaired = {}
                      => ReportOk(Report(project, env))
               /\ ReportOk(Report(project, env)) =>
                      /\ there /\ around(env) /\ Repairable
                      /\ Repaired \subseteq {Settings}
                      /\ Settings \in Repaired => only
    <2> HIDE DEF around, a, only
    <2> QED BY <1>1, <1>2
  <1> QED BY <1>3 DEF DoctorIsSound

(* Doctor passes where a repair would change nothing.  Where it passes, a  *)
(* repair would be accepted and change nothing but the entry of the hook,  *)
(* of which there is one, whatever the user has done to blocks and hooks   *)
(* and whatever surrounds the project (init/doctor.py run, README.md:108). *)
THEOREM DoctorSeesWhatToRepair ==
    ASSUME IntegrationAssumption, HealthAssumption
    PROVE  IntegrationSpec => []DoctorIsSound
  <1>1. IntegrationInit => IntegrationInv
    BY IntegrationInitial
  <1>2. IntegrationInv /\ [IntegrationNext]_integrationVars => IntegrationInv'
    BY IntegrationSteps
  <1>3. IntegrationInv => DoctorIsSound
    BY DoctorSeesRepairs DEF IntegrationInv
  <1> QED BY <1>1, <1>2, <1>3, PTL DEF IntegrationSpec

----------------------------------------------------------------------------
(* Repairs heal *)

LEMMA UsualIsWorkable ==
    /\ Usual \in Surroundings /\ ~Usual.pending /\ Usual.valid = CanonicalFiles
    /\ Usual.modules /\ Usual.workspace /\ Compatible(Usual) /\ Usual.launcher = "working"
  BY DEF Usual, Surroundings, CanonicalFiles, Compatible

LEMMA WhatSetsUpHeals ==
    ASSUME IntegrationAssumption, FilesFit(project), NEW a \in Adapters, NEW after,
           Proposed(after), SetsUp(after, a),
           project[CapabilitiesFile] # Absent \/ CapabilitiesFile \in DOMAIN after
    PROVE  LET proposed == Over(after, project)
           IN  ReportOk(Report(proposed, Usual)) /\ proposed[ConfigFile].adapter = a
  <1> DEFINE proposed == Over(after, project)
  <1>1. FilesFit(proposed)
    BY WhatIsAppliedFits
  <1>2. \A file \in Files :
            proposed[file] = IF file \in DOMAIN after THEN after[file] ELSE project[file]
    BY DEF Over
  <1>3. \A file \in DOMAIN after : after[file] # Absent
    BY WhatFitsIsThere DEF Proposed
  <1> HIDE DEF proposed
  <1>4. proposed[ConfigFile] # Absent /\ proposed[ConfigFile].adapter = a
    BY <1>2, <1>3, FileNames DEF SetsUp
  <1>5. proposed[CapabilitiesFile] # Absent
    BY <1>2, <1>3, FileNames
  <1>6. Healthy(proposed, a)
    <2>1. \A path \in ProjectionOf(a) : path \in Files /\ path \in DOMAIN after
      BY FileNames, OfAdapter DEF SetsUp
    <2> QED BY <1>2, <1>3, <2>1, FileNames DEF SetsUp, Healthy
  <1>7. AdapterCheck(proposed) # "error" /\ ProjectionsCheck(proposed) # "error"
    BY <1>1, <1>4, <1>6, HealthIs
  <1>8. LauncherCheck(proposed, Usual) # "error"
    BY UsualIsWorkable, LauncherIs
  <1>9. ReportOk(Report(proposed, Usual))
    BY <1>4, <1>5, <1>7, <1>8, UsualIsWorkable, ReportIs
  <1> QED BY <1>4, <1>9 DEF proposed

LEMMA RepairHealsSteps ==
    ASSUME IntegrationAssumption, IntegrationInv, [IntegrationNext]_integrationVars
    PROVE  [RepairHealsStep]_integrationVars
  <1>1. ASSUME NEW p \in Invocations, CompareFiles(p), planLoc[p].op \in {"init", "install"}
        PROVE  LET proposed == Over(planLoc'[p].after, project)
               IN  /\ ReportOk(Report(proposed, Usual))
                   /\ proposed[ConfigFile].adapter = planLoc[p].adapter
    <2>1. planPc[p] = "candidates" /\ LocalsFit /\ FilesFit(project)
      BY <1>1 DEF CompareFiles, IntegrationInv
    <2>2. PlanIsSound(planPc[p], planLoc[p], project)
      BY <2>1 DEF IntegrationInv
    <2>3. Over(planLoc'[p].after, project) = Over(planLoc[p].after, project)
      BY <1>1, <2>1, <2>2, ComparedIs DEF PlanIsSound
    <2>4. LET proposed == Over(planLoc[p].after, project)
          IN  /\ ReportOk(Report(proposed, Usual))
              /\ proposed[ConfigFile].adapter = planLoc[p].adapter
      BY <1>1, <2>1, <2>2, WhatSetsUpHeals DEF PlanIsSound
    <2> QED BY <2>3, <2>4
  <1> QED BY <1>1 DEF RepairHealsStep

(* What an operation that sets a client up proposes is healthy to Doctor,  *)
(* whatever the user and other invocations have done to blocks, hooks and  *)
(* configuration before (adapters/integration.py plan_install, repair).    *)
THEOREM RepairsHeal ==
    ASSUME IntegrationAssumption
    PROVE  IntegrationSpec => RepairHeals
  <1>1. IntegrationInit => IntegrationInv
    BY IntegrationInitial
  <1>2. IntegrationInv /\ [IntegrationNext]_integrationVars => IntegrationInv'
    BY IntegrationSteps
  <1>3. IntegrationInv /\ [IntegrationNext]_integrationVars => [RepairHealsStep]_integrationVars
    BY RepairHealsSteps
  <1> QED BY <1>1, <1>2, <1>3, PTL DEF IntegrationSpec, RepairHeals

----------------------------------------------------------------------------
(* The user's content is kept *)

(* A plan changes nothing of the user's in what it has read.               *)
PlanKeeps(point, l, f) ==
    /\ point = "candidates" => Preserves(l.after, f)
    /\ point = "compared" =>
           Preserves(l.after, l.before) /\ DOMAIN l.before = DOMAIN l.after

KeepingInv == IntegrationInv /\ \A p \in Invocations : PlanKeeps(planPc[p], planLoc[p], project)

LEMMA OthersStillKeep ==
    ASSUME KeepingInv, NEW p \in Invocations, Alone(p), NEW q \in Invocations, q # p,
           project' = project \/ planPc[q] # "candidates"
    PROVE  PlanKeeps(planPc'[q], planLoc'[q], project')
  <1>1. planPc'[q] = planPc[q] /\ planLoc'[q] = planLoc[q]
    BY DEF Alone
  <1>2. PlanKeeps(planPc[q], planLoc[q], project)
    BY DEF KeepingInv
  <1> QED BY <1>1, <1>2 DEF PlanKeeps

LEMMA KeepingInitial ==
    ASSUME IntegrationAssumption, IntegrationInit
    PROVE  KeepingInv
  BY IntegrationInitial, InitialLocals DEF KeepingInv, PlanKeeps

LEMMA KeepingSteps ==
    ASSUME IntegrationAssumption, "meddle" \notin Edits, KeepingInv, [IntegrationNext]_integrationVars
    PROVE  KeepingInv'
  <1>0. FilesFit(project) /\ LocalsFit /\ (HasConfig => project[CapabilitiesFile] # Absent)
    BY DEF KeepingInv, IntegrationInv
  <1>i. IntegrationInv'
    BY IntegrationSteps DEF KeepingInv
  <1>w. NobodyReads => \A q \in Invocations : planPc[q] # "candidates"
    BY DEF NobodyReads
  <1>1. CASE UserEdits
    <2>1. planPc' = planPc /\ planLoc' = planLoc /\ \A q \in Invocations : planPc[q] # "candidates"
      BY <1>0, <1>1, <1>w, UserEditsFit
    <2> QED BY <1>i, <2>1 DEF KeepingInv, PlanKeeps
  <1>2. ASSUME NEW p \in Invocations, Planning(p)
        PROVE  KeepingInv'
    <2>1. PICK op, a, after : Plans(p, op, a, after)
      BY <1>0, <1>2, PlansAre
    <2>2. /\ Alone(p) /\ project' = project /\ planPc'[p] = "candidates" /\ planLoc'[p].after = after
      BY <1>0, <2>1, PlanForIs DEF Plans
    <2>3. PlanKeeps(planPc'[p], planLoc'[p], project')
      BY <2>1, <2>2 DEF Plans, PlanKeeps
    <2>4. \A q \in Invocations : PlanKeeps(planPc'[q], planLoc'[q], project')
      BY <2>2, <2>3, OthersStillKeep
    <2> QED BY <1>i, <2>4 DEF KeepingInv
  <1>3. ASSUME NEW p \in Invocations, CompareFiles(p)
        PROVE  KeepingInv'
    <2>1. /\ Alone(p) /\ project' = project /\ planPc[p] = "candidates" /\ planPc'[p] = "compared"
      BY <1>0, <1>3, CompareIs
    <2>2. Proposed(planLoc[p].after) /\ Preserves(planLoc[p].after, project)
      BY <2>1 DEF KeepingInv, IntegrationInv, PlanIsSound, PlanKeeps
    <2>3. /\ DOMAIN planLoc'[p].before = DOMAIN planLoc'[p].after
          /\ \A file \in DOMAIN planLoc'[p].after :
                 /\ file \in DOMAIN planLoc[p].after
                 /\ planLoc'[p].after[file] = planLoc[p].after[file]
                 /\ planLoc'[p].before[file] = project[file]
      BY <1>0, <1>3, <2>2, ComparedIs
    <2>4. Preserves(planLoc'[p].after, planLoc'[p].before)
      BY <2>2, <2>3 DEF Preserves
    <2>5. PlanKeeps(planPc'[p], planLoc'[p], project')
      BY <2>1, <2>3, <2>4 DEF PlanKeeps
    <2>6. \A q \in Invocations : PlanKeeps(planPc'[q], planLoc'[q], project')
      BY <2>1, <2>5, OthersStillKeep
    <2> QED BY <1>i, <2>6 DEF KeepingInv
  <1>4. ASSUME NEW p \in Invocations, ApplyFiles(p)
        PROVE  KeepingInv'
    <2>1. planPc'[p] = "idle" /\ Alone(p) /\ NobodyReads
      BY <1>4, ApplyIs DEF KeepingInv
    <2>2. \A q \in Invocations : PlanKeeps(planPc'[q], planLoc'[q], project')
      BY <1>w, <2>1, OthersStillKeep DEF PlanKeeps
    <2> QED BY <1>i, <2>2 DEF KeepingInv
  <1>5. ASSUME NEW p \in Invocations, AbandonFiles(p)
        PROVE  KeepingInv'
    <2>1. planPc'[p] = "idle" /\ Alone(p) /\ project' = project
      BY <1>0, <1>5, LeaveIs DEF AbandonFiles
    <2>2. \A q \in Invocations : PlanKeeps(planPc'[q], planLoc'[q], project')
      BY <2>1, OthersStillKeep DEF PlanKeeps
    <2> QED BY <1>i, <2>2 DEF KeepingInv
  <1>6. CASE UNCHANGED integrationVars
    BY <1>i, <1>6 DEF integrationVars, KeepingInv, PlanKeeps
  <1> QED BY <1>1, <1>2, <1>3, <1>4, <1>5, <1>6, StepsAre

LEMMA UserContentKeptSteps ==
    ASSUME IntegrationAssumption, KeepingInv, [IntegrationNext]_integrationVars
    PROVE  [UserContentKeptStep]_integrationVars
  <1>1. ASSUME NEW p \in Invocations, ApplyFiles(p)
        PROVE  /\ \A path \in Projected : Outside(project'[path]) = Outside(project[path])
               /\ OwnEntries(project'[Settings]) = OwnEntries(project[Settings])
    <2>1. /\ planPc[p] = "compared" /\ AsReviewed(p)
          /\ \A file \in Files :
                 project'[file] = IF file \in DOMAIN planLoc[p].after THEN planLoc[p].after[file]
                                ELSE project[file]
      BY <1>1, ApplyIs DEF KeepingInv
    <2>2. Preserves(planLoc[p].after, planLoc[p].before) /\ DOMAIN planLoc[p].before = DOMAIN planLoc[p].after
      BY <2>1 DEF KeepingInv, PlanKeeps
    <2>3. \A file \in DOMAIN planLoc[p].after : planLoc[p].before[file] = project[file]
      BY <2>1, <2>2 DEF AsReviewed
    <2>4. ASSUME NEW path \in Projected
          PROVE  Outside(project'[path]) = Outside(project[path])
      <3>1. CASE path \in DOMAIN planLoc[p].after
        BY <2>1, <2>2, <2>3, <3>1, FileNames DEF Preserves
      <3>2. CASE path \notin DOMAIN planLoc[p].after
        BY <2>1, <3>2, FileNames
      <3> QED BY <3>1, <3>2
    <2>5. OwnEntries(project'[Settings]) = OwnEntries(project[Settings])
      BY <2>1, <2>2, <2>3, FileNames DEF Preserves
    <2> QED BY <2>4, <2>5
  <1> QED BY <1>1 DEF UserContentKeptStep

(* An operation keeps every line of the user's outside of the block and    *)
(* every entry of the settings without the hook, in their order, also when *)
(* files are edited between the plan and its application, but not while    *)
(* the plan itself reads them twice (adapters/managed.py, claude_hook.py). *)
THEOREM UserContentIsKept ==
    ASSUME IntegrationAssumption, "meddle" \notin Edits
    PROVE  IntegrationSpec => UserContentKept
  <1>1. IntegrationInit => KeepingInv
    BY KeepingInitial
  <1>2. KeepingInv /\ [IntegrationNext]_integrationVars => KeepingInv'
    BY KeepingSteps
  <1>3. KeepingInv /\ [IntegrationNext]_integrationVars => [UserContentKeptStep]_integrationVars
    BY UserContentKeptSteps
  <1> QED BY <1>1, <1>2, <1>3, PTL DEF IntegrationSpec, UserContentKept

----------------------------------------------------------------------------
(* The configuration is true *)

(* What a plan proposes is true over the files that it has read, and so    *)
(* over all that agree with them where it changes something.               *)
PlanIsTrue(point, l, f) ==
    /\ point = "candidates" => IsTrue(Over(l.after, f))
    /\ point = "compared" =>
           \E read : /\ IsTrue(read) /\ IsTrue(Over(l.after, read))
                     /\ \A file \in DOMAIN l.after :
                            file \in DOMAIN l.before /\ l.before[file] = read[file]

AllTrue ==
    IsTrue(project) /\ \A p \in Invocations : PlanIsTrue(planPc[p], planLoc[p], project)

TrueInv == IntegrationInv /\ (~tampered => AllTrue)

LEMMA OthersStayTrue ==
    ASSUME AllTrue, NEW p \in Invocations, Alone(p), NEW q \in Invocations, q # p,
           project' = project \/ planPc[q] # "candidates"
    PROVE  PlanIsTrue(planPc'[q], planLoc'[q], project')
  <1>1. planPc'[q] = planPc[q] /\ planLoc'[q] = planLoc[q]
    BY DEF Alone
  <1>2. PlanIsTrue(planPc[q], planLoc[q], project)
    BY DEF AllTrue
  <1>3. CASE project' = project
    BY <1>1, <1>2, <1>3
  <1>4. CASE planPc[q] # "candidates"
    BY <1>1, <1>2, <1>4 DEF PlanIsTrue
  <1> QED BY <1>3, <1>4

LEMMA TrueInitial ==
    ASSUME IntegrationAssumption, IntegrationInit
    PROVE  TrueInv
  BY IntegrationInitial, InitialFiles, InitialLocals DEF TrueInv, AllTrue, PlanIsTrue

LEMMA AppliedIsTrue ==
    ASSUME IntegrationAssumption, IntegrationInv, AllTrue, NEW p \in Invocations, ApplyFiles(p)
    PROVE  IsTrue(project')
  <1>1. /\ planPc[p] = "compared" /\ AsReviewed(p) /\ Proposed(planLoc[p].after)
        /\ project' = Over(planLoc[p].after, project)
    BY ApplyIs
  <1>2. PlanIsTrue(planPc[p], planLoc[p], project)
    BY DEF AllTrue
  <1>3. PICK read : /\ IsTrue(read) /\ IsTrue(Over(planLoc[p].after, read))
                    /\ \A file \in DOMAIN planLoc[p].after :
                           /\ file \in DOMAIN planLoc[p].before
                           /\ planLoc[p].before[file] = read[file]
    BY <1>1, <1>2 DEF PlanIsTrue
  <1>4. \A file \in DOMAIN planLoc[p].after : read[file] = project[file]
    BY <1>1, <1>3 DEF AsReviewed
  <1>5. DOMAIN planLoc[p].after \subseteq Files /\ IsTrue(project)
    BY <1>1 DEF Proposed, AllTrue
  <1> DEFINE after == planLoc[p].after
  <1>6. /\ DOMAIN after \subseteq Files /\ IsTrue(read) /\ IsTrue(Over(after, read))
        /\ IsTrue(project) /\ \A file \in DOMAIN after : read[file] = project[file]
    BY <1>3, <1>4, <1>5
  <1>7. project' = Over(after, project)
    BY <1>1
  <1> HIDE DEF after
  <1>8. IsTrue(Over(after, project))
    BY <1>6, StillTrue
  <1> QED BY <1>7, <1>8

(* What was tampered with stays so.                                        *)
LEMMA TamperingStays ==
    ASSUME IntegrationAssumption, IntegrationInv, [IntegrationNext]_integrationVars, ~tampered'
    PROVE  ~tampered
  <1>1. CASE UserEdits
    BY <1>1, UserEditsFit DEF IntegrationInv
  <1>2. ASSUME NEW p \in Invocations, Planning(p)
        PROVE  ~tampered
    <2>1. FilesFit(project) /\ (HasConfig => project[CapabilitiesFile] # Absent)
      BY DEF IntegrationInv
    <2> QED BY <1>2, <2>1, PlansAre DEF Plans
  <1>3. ASSUME NEW p \in Invocations, CompareFiles(p) \/ ApplyFiles(p) \/ AbandonFiles(p)
        PROVE  ~tampered
    BY <1>3 DEF CompareFiles, ApplyFiles, AbandonFiles
  <1>4. CASE UNCHANGED integrationVars
    BY <1>4 DEF integrationVars
  <1> QED BY <1>1, <1>2, <1>3, <1>4, StepsAre

LEMMA TrueSteps ==
    ASSUME IntegrationAssumption, "meddle" \notin Edits,
           TrueInv, [IntegrationNext]_integrationVars
    PROVE  TrueInv'
  <1>i. IntegrationInv'
    BY IntegrationSteps DEF TrueInv
  <1>s. SUFFICES ASSUME ~tampered'
                 PROVE  AllTrue'
    BY <1>i DEF TrueInv
  <1>0. /\ FilesFit(project) /\ LocalsFit /\ (HasConfig => project[CapabilitiesFile] # Absent)
        /\ IntegrationInv /\ AllTrue /\ IsTrue(project)
    BY <1>s, TamperingStays DEF TrueInv, IntegrationInv, AllTrue
  <1>w. NobodyReads => \A q \in Invocations : planPc[q] # "candidates"
    BY DEF NobodyReads
  <1>1. CASE UserEdits
    <2>1. /\ planPc' = planPc /\ planLoc' = planLoc /\ SameMarks(project', project)
          /\ \A q \in Invocations : planPc[q] # "candidates"
      BY <1>0, <1>1, <1>s, <1>w, UserEditsFit
    <2>2. IsTrue(project')
      BY <1>0, <2>1 DEF SameMarks, IsTrue
    <2>3. ASSUME NEW q \in Invocations
          PROVE  PlanIsTrue(planPc'[q], planLoc'[q], project')
      <3>1. PlanIsTrue(planPc[q], planLoc[q], project) /\ planPc[q] # "candidates"
        BY <1>0, <2>1 DEF AllTrue
      <3> QED BY <2>1, <3>1 DEF PlanIsTrue
    <2> QED BY <2>2, <2>3 DEF AllTrue
  <1>2. ASSUME NEW p \in Invocations, Planning(p)
        PROVE  AllTrue'
    <2>1. PICK op, a, after : Plans(p, op, a, after)
      BY <1>0, <1>2, PlansAre
    <2>2. /\ Alone(p) /\ project' = project /\ planPc'[p] = "candidates" /\ planLoc'[p].after = after
      BY <1>0, <2>1, PlanForIs DEF Plans
    <2>3. IsTrue(Over(after, project))
      BY <1>0, <1>s, <2>1 DEF Plans
    <2>4. PlanIsTrue(planPc'[p], planLoc'[p], project')
      BY <2>2, <2>3 DEF PlanIsTrue
    <2>5. \A q \in Invocations : PlanIsTrue(planPc'[q], planLoc'[q], project')
      BY <2>2, <2>4, <1>0, OthersStayTrue
    <2> QED BY <1>0, <2>2, <2>5 DEF AllTrue
  <1>3. ASSUME NEW p \in Invocations, CompareFiles(p)
        PROVE  AllTrue'
    <2>1. /\ Alone(p) /\ project' = project /\ planPc[p] = "candidates" /\ planPc'[p] = "compared"
      BY <1>0, <1>3, CompareIs
    <2>2. Proposed(planLoc[p].after) /\ IsTrue(Over(planLoc[p].after, project))
      BY <1>0, <2>1 DEF IntegrationInv, AllTrue, PlanIsSound, PlanIsTrue
    <2>3. /\ DOMAIN planLoc'[p].before = DOMAIN planLoc'[p].after
          /\ \A file \in DOMAIN planLoc'[p].after : planLoc'[p].before[file] = project[file]
          /\ Over(planLoc'[p].after, project) = Over(planLoc[p].after, project)
      BY <1>0, <1>3, <2>2, ComparedIs
    <2>4. PlanIsTrue(planPc'[p], planLoc'[p], project')
      BY <1>0, <2>1, <2>2, <2>3 DEF PlanIsTrue
    <2>5. \A q \in Invocations : PlanIsTrue(planPc'[q], planLoc'[q], project')
      BY <2>1, <2>4, <1>0, OthersStayTrue
    <2> QED BY <1>0, <2>1, <2>5 DEF AllTrue
  <1>4. ASSUME NEW p \in Invocations, ApplyFiles(p)
        PROVE  AllTrue'
    <2>1. planPc'[p] = "idle" /\ Alone(p) /\ NobodyReads
      BY <1>0, <1>4, ApplyIs
    <2>2. \A q \in Invocations : PlanIsTrue(planPc'[q], planLoc'[q], project')
      BY <1>w, <1>0, <2>1, OthersStayTrue DEF PlanIsTrue
    <2>3. IsTrue(project')
      BY <1>0, <1>4, AppliedIsTrue
    <2> QED BY <2>2, <2>3 DEF AllTrue
  <1>5. ASSUME NEW p \in Invocations, AbandonFiles(p)
        PROVE  AllTrue'
    <2>1. planPc'[p] = "idle" /\ Alone(p) /\ project' = project
      BY <1>0, <1>5, LeaveIs DEF AbandonFiles
    <2>2. \A q \in Invocations : PlanIsTrue(planPc'[q], planLoc'[q], project')
      BY <1>0, <2>1, OthersStayTrue DEF PlanIsTrue
    <2> QED BY <1>0, <2>1, <2>2 DEF AllTrue
  <1>6. CASE UNCHANGED integrationVars
    BY <1>0, <1>6 DEF integrationVars, AllTrue, PlanIsTrue
  <1> QED BY <1>1, <1>2, <1>3, <1>4, <1>5, <1>6, StepsAre

LEMMA TrueIsTrue ==
    ASSUME IntegrationAssumption, IntegrationInv, IsTrue(project)
    PROVE  ConfigurationIsTrue
  <1> DEFINE config == project[ConfigFile]
             blocks == {path \in Projected : ~Unmarked(Text(project[path]))}
  <1>1. \A path \in Projected :
            path \in blocks <=> HasConfig /\ path \in config.managed
    BY DEF IsTrue, HasBlock, HasConfig
  <1>2. SettingsInstalled(project[Settings]) <=> HasConfig /\ config.adapter = Claude
    BY DEF IsTrue, HasConfig
  <1>3. HasConfig => /\ config.managed = ProjectionOf(config.adapter)
                     /\ config.managed \subseteq Projected
    BY Configured DEF IntegrationInv, HasConfig
  <1>4. HasConfig => config.managed = blocks
    BY <1>1, <1>3
  <1>5. ~HasConfig => blocks = {}
    BY <1>1
  <1> QED BY <1>2, <1>3, <1>4, <1>5 DEF ConfigurationIsTrue

(* The configuration names exactly the files that hold the block, and the  *)
(* hook is there for Claude Code alone, across any sequence of a first     *)
(* initialization, installations, removals, rebuilds and changes of the    *)
(* client by any invocations, while the user edits lines, entries and      *)
(* commands; until init runs again or the user touches a marker or a hook  *)
(* (adapters/integration.py, init/initializer.py).                         *)
THEOREM ConfigurationsAreTrue ==
    ASSUME IntegrationAssumption, "meddle" \notin Edits
    PROVE  IntegrationSpec => []ConfigurationIsTrue
  <1>1. IntegrationInit => TrueInv
    BY TrueInitial
  <1>2. TrueInv /\ [IntegrationNext]_integrationVars => TrueInv'
    BY TrueSteps
  <1>3. TrueInv => ConfigurationIsTrue
    <2>1. TrueInv /\ ~tampered => ConfigurationIsTrue
      BY TrueIsTrue DEF TrueInv, AllTrue
    <2>2. tampered => ConfigurationIsTrue
      BY DEF ConfigurationIsTrue
    <2> QED BY <2>1, <2>2
  <1> QED BY <1>1, <1>2, <1>3, PTL DEF IntegrationSpec
=============================================================================
