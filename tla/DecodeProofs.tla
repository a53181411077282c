----------------------------- MODULE DecodeProofs -----------------------------
(***************************************************************************)
(* What can be relied on in the two files of the decode command, for every *)
(* input, every set of pools and any number of processes that crash, are   *)
(* cancelled or run out of disk space.                                     *)
(*                                                                         *)
(* A file may end anywhere in what was written, so what is shown of it is  *)
(* shown of the file and the buffer together, and kept by every prefix.    *)
(***************************************************************************)
EXTENDS Decode, SequenceTheorems, TLAPS

Whole(w) == w.file \o w.buf
EventLines == LinesOf(Whole(typed))
FailureLines == LinesOf(Whole(errors))

\* What holds of every prefix of a file for which it holds.
Ordered(s) == \A j, k \in DOMAIN s : j < k => s[j].line < s[k].line
Fits(s) ==
  \A k \in DOMAIN s :
    LET e == s[k]
    IN  /\ InputOf(e).kind = "event"
        /\ e.meta.pool = InputOf(e).pool
        /\ {e.meta.liquidity, e.meta.slot0} \subseteq {None, InputOf(e).block}
NoHole(s) ==
  \A i, k \in LinesOf(s) : \A n \in i..k :
    /\ Input[n].kind = "event" /\ Input[n].pool = Input[i].pool /\ Input[n].pool = Input[k].pool
    => n \in LinesOf(s)

FilesInv ==
  /\ Ordered(Whole(typed)) /\ Ordered(Whole(errors))
  /\ EventLines \cap FailureLines = {}
  /\ Fits(Whole(typed)) /\ NoHole(Whole(typed))

\* Reading, the command has written lines it has read, all events of a pool from its first
\* one on: the pool's metadata is in the cache since then.
Reading == pc \in {"scan", "event"}
ScanInv ==
  Reading =>
    /\ \A i \in EventLines \cup FailureLines : i <= pos
    /\ \A i \in EventLines : Input[i].pool \in DOMAIN poolMeta
    /\ \A i \in EventLines : \A n \in i..pos :
         Input[n].kind = "event" /\ Input[n].pool = Input[i].pool => n \in EventLines

\* While both writers work no line read is missing.
AccountInv ==
  (Reading \/ result = "ok") /\ ~typed.broken /\ ~errors.broken =>
    EventLines \cup FailureLines = {i \in 1..pos : Input[i].kind # "foreign"}

\* What the order of the calls ensures.
ControlInv ==
  /\ pc \in {"start", "open typed", "open errors"} => pos = 0
  /\ pc = "open errors" => typed = Opened
  /\ Reading => ~typed.broken
  /\ pc = "event" => pos < Len(Input) /\ This.pool \in DOMAIN poolMeta
  /\ result = "ok" =>
       /\ pos = Len(Input) /\ pc \in {"close errors", "close typed", "down"}
       /\ pc # "close errors" /\ ~errors.broken => errors.buf = << >>
       /\ pc = "down" /\ ~typed.broken => typed.buf = << >>

DecodeInv == TypeOK /\ ControlInv /\ FilesInv /\ ScanInv /\ AccountInv
-----------------------------------------------------------------------------
\* Sequences and the writers: what reaches the file is a prefix of what was written.
Prefix(s, t) == Len(s) <= Len(t) /\ \A k \in DOMAIN s : k \in DOMAIN t /\ s[k] = t[k]

LEMMA AppendMeaning ==
  ASSUME NEW S, NEW s \in Seq(S), NEW e \in S
  PROVE  /\ Append(s, e) \in Seq(S)
         /\ Len(s) \in Nat /\ DOMAIN s = 1..Len(s)
         /\ Len(Append(s, e)) = Len(s) + 1
         /\ DOMAIN Append(s, e) = DOMAIN s \cup {Len(s) + 1}
         /\ Append(s, e)[Len(s) + 1] = e
         /\ \A n \in DOMAIN s : Append(s, e)[n] = s[n]
<1>1. /\ Len(s) \in Nat /\ DOMAIN s = 1..Len(s)
      /\ Append(s, e) \in Seq(S) /\ DOMAIN Append(s, e) = 1..Len(s) + 1
      /\ Len(Append(s, e)) = Len(s) + 1
      /\ Append(s, e)[Len(s) + 1] = e
      /\ \A n \in 1..Len(s) : Append(s, e)[n] = s[n]
  OBVIOUS
<1> QED
  BY <1>1

LEMMA ElementsTyped ==
  ASSUME NEW S, NEW s \in Seq(S)
  PROVE  Len(s) \in Nat /\ DOMAIN s = 1..Len(s) /\ \A n \in DOMAIN s : s[n] \in S
  OBVIOUS

\* The first n elements of t behind s, and then the others, are t behind s.
MovesOn(S, s, t, n) ==
  /\ s \o SubSeq(t, 1, n) \in Seq(S) /\ SubSeq(t, n + 1, Len(t)) \in Seq(S)
  /\ Prefix(s \o SubSeq(t, 1, n), s \o t)
  /\ (s \o SubSeq(t, 1, n)) \o SubSeq(t, n + 1, Len(t)) = s \o t

LEMMA ConcatOfPrefix ==
  ASSUME NEW S, NEW s \in Seq(S), NEW t \in Seq(S), NEW n \in 0..Len(t)
  PROVE  MovesOn(S, s, t, n)
<1> DEFINE a == SubSeq(t, 1, n)
           b == SubSeq(t, n + 1, Len(t))
<1>1. Len(s) \in Nat /\ Len(t) \in Nat /\ n \in Nat /\ n <= Len(t) /\ \A i \in 1..Len(t) : t[i] \in S
  OBVIOUS
<1>2. a \in Seq(S) /\ Len(a) = n /\ \A i \in 1..n : a[i] = t[i]
  OBVIOUS
<1>3. b \in Seq(S) /\ Len(b) = Len(t) - n /\ \A i \in 1..Len(t) - n : b[i] = t[n + i]
  BY <1>1, SubSeqProperties
<1> HIDE DEF a, b
<1>4. /\ s \o t \in Seq(S) /\ Len(s \o t) = Len(s) + Len(t)
      /\ \A i \in 1..Len(s) + Len(t) : (s \o t)[i] = IF i <= Len(s) THEN s[i] ELSE t[i - Len(s)]
  BY ConcatProperties
<1>5. /\ s \o a \in Seq(S) /\ Len(s \o a) = Len(s) + n
      /\ \A i \in 1..Len(s) + n : (s \o a)[i] = IF i <= Len(s) THEN s[i] ELSE a[i - Len(s)]
  BY <1>2, ConcatProperties
<1>6. \A i \in 1..Len(s) + n : (s \o a)[i] = (s \o t)[i]
  BY <1>1, <1>2, <1>4, <1>5
<1>7. Prefix(s \o a, s \o t)
  <2>1. DOMAIN (s \o a) = 1..Len(s) + n /\ DOMAIN (s \o t) = 1..Len(s) + Len(t)
    BY <1>4, <1>5
  <2> QED
    BY <1>1, <1>4, <1>5, <1>6, <2>1 DEF Prefix
<1>8. PICK u : u = (s \o a) \o b
  OBVIOUS
<1>9. PICK l : l = Len(s \o a)
  OBVIOUS
<1>10. /\ u \in Seq(S) /\ Len(u) = l + Len(b)
       /\ \A i \in 1..l + Len(b) : u[i] = IF i <= l THEN (s \o a)[i] ELSE b[i - l]
  BY <1>3, <1>5, <1>8, <1>9, ConcatProperties
<1>11. l = Len(s) + n /\ Len(b) = Len(t) - n /\ l \in Nat /\ Len(u) = Len(s) + Len(t)
  BY <1>1, <1>3, <1>5, <1>9, <1>10
<1>12. ASSUME NEW i \in 1..Len(u) PROVE u[i] = (s \o t)[i]
  <2>1. i \in Nat /\ i \in 1..l + Len(b) /\ i \in 1..Len(s) + Len(t)
    BY <1>1, <1>10, <1>11
  <2>2. CASE i <= l
    <3>1. u[i] = (s \o a)[i]
      BY <1>10, <2>1, <2>2
    <3>2. i \in 1..Len(s) + n
      BY <1>1, <1>11, <2>1, <2>2
    <3> QED
      BY <1>6, <3>1, <3>2
  <2>3. CASE i > l
    <3>1. PICK m : m = i - l
      OBVIOUS
    <3>2. m \in 1..Len(t) - n /\ n + m = i - Len(s) /\ ~(i <= Len(s)) /\ ~(i <= l)
      BY <1>1, <1>11, <2>1, <2>3, <3>1
    <3>3. u[i] = b[m] /\ b[m] = t[n + m]
      BY <1>3, <1>10, <2>1, <3>1, <3>2
    <3>4. (s \o t)[i] = t[n + m]
      BY <1>4, <2>1, <3>2
    <3> QED
      BY <3>3, <3>4
  <2> QED
    BY <1>11, <2>1, <2>2, <2>3
<1>13. u = s \o t
  BY <1>4, <1>10, <1>11, <1>12, SeqEqual
<1> QED
  BY <1>3, <1>5, <1>7, <1>8, <1>13 DEF a, b, MovesOn

LEMMA ConcatStarts ==
  ASSUME NEW S, NEW s \in Seq(S), NEW t \in Seq(S)
  PROVE  s \o t \in Seq(S) /\ Prefix(s, s \o t)
<1>1. /\ Len(s) \in Nat /\ Len(t) \in Nat /\ DOMAIN s = 1..Len(s)
      /\ DOMAIN (s \o t) = 1..Len(s) + Len(t)
      /\ Len(s \o t) = Len(s) + Len(t) /\ s \o t \in Seq(S)
      /\ \A i \in 1..Len(s) : (s \o t)[i] = s[i]
  OBVIOUS
<1> QED
  BY <1>1 DEF Prefix

LEMMA AppendToConcat ==
  ASSUME NEW S, NEW s \in Seq(S), NEW t \in Seq(S), NEW e \in S
  PROVE  s \o Append(t, e) = Append(s \o t, e)
<1>1. <<e>> \in Seq(S) /\ s \o t \in Seq(S)
  OBVIOUS
<1>2. Append(t, e) = t \o <<e>> /\ Append(s \o t, e) = (s \o t) \o <<e>>
  BY <1>1, AppendIsConcat
<1>3. (s \o t) \o <<e>> = s \o (t \o <<e>>)
  BY <1>1, ConcatAssociative
<1> QED
  BY <1>2, <1>3

LEMMA WriterFacts ==
  ASSUME NEW S, NEW w \in WriterOf(S)
  PROVE  /\ w.file \in Seq(S) /\ w.buf \in Seq(S) /\ w.broken \in BOOLEAN /\ Whole(w) \in Seq(S)
         /\ Prefix(w.file, Whole(w)) /\ Prefix(Whole(w), Whole(w))
         /\ w.buf = << >> => Whole(w) = w.file
<1>1. w.file \in Seq(S) /\ w.buf \in Seq(S) /\ w.broken \in BOOLEAN
  BY DEF WriterOf
<1>2. Whole(w) \in Seq(S) /\ Prefix(w.file, Whole(w))
  BY <1>1, ConcatStarts DEF Whole
<1>3. Prefix(Whole(w), Whole(w))
  BY <1>2 DEF Prefix
<1>4. w.buf = << >> => Whole(w) = w.file
  BY <1>1, ConcatEmptySeq DEF Whole
<1> QED
  BY <1>1, <1>2, <1>3, <1>4

LEMMA StoredMeaning ==
  ASSUME NEW S, NEW w \in WriterOf(S), NEW n \in 0..Len(w.buf), NEW broken \in BOOLEAN
  PROVE  /\ Stored(w, n, broken) \in WriterOf(S)
         /\ Prefix(Whole(Stored(w, n, broken)), Whole(w))
         /\ Stored(w, n, broken).broken = broken
         /\ ~broken => Whole(Stored(w, n, broken)) = Whole(w)
         /\ ~broken /\ n = Len(w.buf) => Stored(w, n, broken).buf = << >>
<1> DEFINE v == Stored(w, n, broken)
<1>1. w.file \in Seq(S) /\ w.buf \in Seq(S) /\ Prefix(Whole(w), Whole(w))
  BY WriterFacts
<1>2. /\ v.file = w.file \o SubSeq(w.buf, 1, n) /\ v.broken = broken
      /\ v.buf = IF broken THEN << >> ELSE SubSeq(w.buf, n + 1, Len(w.buf))
      /\ v = [file |-> v.file, buf |-> v.buf, broken |-> v.broken]
  BY DEF Stored
<1> HIDE DEF v
<1>3. MovesOn(S, w.file, w.buf, n)
  BY <1>1, ConcatOfPrefix
<1>4. v \in WriterOf(S)
  <2>1. v.file \in Seq(S) /\ v.buf \in Seq(S) /\ v.broken \in BOOLEAN
    BY <1>2, <1>3 DEF MovesOn
  <2> QED
    BY <1>2, <2>1 DEF WriterOf
<1>5. ~broken => Whole(v) = Whole(w)
  BY <1>2, <1>3 DEF Whole, MovesOn
<1>6. broken => Prefix(Whole(v), Whole(w))
  <2>1. broken => Whole(v) = v.file
    BY <1>2, <1>4, WriterFacts
  <2> QED
    BY <1>2, <1>3, <2>1 DEF Whole, MovesOn
<1>7. ~broken /\ n = Len(w.buf) => v.buf = << >>
  BY <1>1, <1>2, SubSeqEmpty
<1> QED
  BY <1>1, <1>2, <1>4, <1>5, <1>6, <1>7 DEF v

LEMMA WriteMeaning ==
  ASSUME NEW S, NEW w \in WriterOf(S), NEW e \in S, NEW v \in Writes(w, e)
  PROVE  /\ v \in WriterOf(S)
         /\ w.broken => v = w
         /\ ~w.broken => Prefix(Whole(v), Append(Whole(w), e))
         /\ ~v.broken => ~w.broken /\ Whole(v) = Append(Whole(w), e)
<1>1. CASE w.broken
  BY <1>1 DEF Writes
<1>2. CASE ~w.broken
  <2> DEFINE filled == [w EXCEPT !.buf = Append(w.buf, e)]
  <2>1. w.file \in Seq(S) /\ w.buf \in Seq(S)
    BY WriterFacts
  <2>2. filled \in WriterOf(S) /\ filled.file = w.file /\ filled.buf = Append(w.buf, e)
    BY <2>1 DEF WriterOf
  <2>3. Whole(filled) = Append(Whole(w), e)
    <3> HIDE DEF filled
    <3>1. \A f, b \in Seq(S) : f \o Append(b, e) = Append(f \o b, e)
      BY AppendToConcat
    <3> QED
      BY <2>1, <2>2, <3>1 DEF Whole
  <2>4. PICK n \in 0..Len(filled.buf), broken \in BOOLEAN : v = Stored(filled, n, broken)
    BY <1>2 DEF Writes
  <2> HIDE DEF filled
  <2> QED
    BY <1>2, <2>2, <2>3, <2>4, StoredMeaning
<1> QED
  BY <1>1, <1>2

LEMMA FlushMeaning ==
  ASSUME NEW S, NEW w \in WriterOf(S), NEW v \in Flushes(w)
  PROVE  /\ v \in WriterOf(S) /\ Prefix(Whole(v), Whole(w))
         /\ ~v.broken => ~w.broken /\ Whole(v) = Whole(w) /\ v.buf = << >>
<1>1. CASE w.broken
  BY <1>1, WriterFacts DEF Flushes
<1>2. CASE ~w.broken
  <2>1. Len(w.buf) \in Nat /\ Len(w.buf) \in 0..Len(w.buf)
    <3>1. w.buf \in Seq(S)
      BY WriterFacts
    <3>2. Len(w.buf) \in Nat
      BY <3>1
    <3> QED
      BY <3>2
  <2>2. CASE v = Stored(w, Len(w.buf), FALSE)
    BY <1>2, <2>1, <2>2, StoredMeaning
  <2>3. CASE \E n \in 0..Len(w.buf) - 1 : v = Stored(w, n, TRUE)
    <3>1. PICK n \in 0..Len(w.buf) - 1 : v = Stored(w, n, TRUE)
      BY <2>3
    <3>2. n \in 0..Len(w.buf)
      BY <2>1
    <3> QED
      BY <3>1, <3>2, StoredMeaning
  <2> QED
    BY <1>2, <2>2, <2>3 DEF Flushes
<1> QED
  BY <1>1, <1>2

LEMMA DropMeaning ==
  ASSUME NEW S, NEW w \in WriterOf(S)
  PROVE  /\ [w EXCEPT !.buf = << >>] \in WriterOf(S)
         /\ Prefix(Whole([w EXCEPT !.buf = << >>]), Whole(w))
<1> DEFINE v == [w EXCEPT !.buf = << >>]
<1>1. v = [file |-> w.file, buf |-> << >>, broken |-> w.broken]
  BY DEF WriterOf
<1>2. w.file \in Seq(S) /\ << >> \in Seq(S) /\ w.broken \in BOOLEAN
  BY WriterFacts
<1>3. v \in WriterOf(S) /\ v.file = w.file /\ v.buf = << >>
  BY <1>1, <1>2 DEF WriterOf
<1> HIDE DEF v
<1>4. Whole(v) = w.file
  BY <1>3, WriterFacts
<1> QED
  BY <1>3, <1>4, WriterFacts DEF v
-----------------------------------------------------------------------------
\* What holds of a file holds of its prefixes, and after a line that comes later.
LEMMA PrefixKeeps ==
  ASSUME NEW s, NEW t, Prefix(s, t)
  PROVE  /\ LinesOf(s) \subseteq LinesOf(t)
         /\ Ordered(t) => Ordered(s)
         /\ Fits(t) => Fits(s)
<1>1. \A k \in DOMAIN s : k \in DOMAIN t /\ s[k] = t[k]
  BY DEF Prefix
<1>2. LinesOf(s) \subseteq LinesOf(t)
  BY <1>1 DEF LinesOf
<1>3. Ordered(t) => Ordered(s)
  BY <1>1 DEF Ordered
<1>4. Fits(t) => Fits(s)
  BY <1>1 DEF Fits
<1> QED
  BY <1>2, <1>3, <1>4

LEMMA PrefixHasNoHole ==
  ASSUME NEW S, NEW s \in Seq(S), NEW t \in Seq(S), Prefix(s, t), \A e \in S : e.line \in Nat,
         Ordered(t), NoHole(t)
  PROVE  NoHole(s)
<1> SUFFICES ASSUME NEW i \in LinesOf(s), NEW k \in LinesOf(s), NEW n \in i..k,
                    Input[n].kind = "event", Input[n].pool = Input[i].pool, Input[n].pool = Input[k].pool
             PROVE  n \in LinesOf(s)
  BY DEF NoHole
<1>1. /\ Len(s) \in Nat /\ DOMAIN s = 1..Len(s) /\ \A x \in DOMAIN s : s[x] \in S
      /\ Len(t) \in Nat /\ DOMAIN t = 1..Len(t) /\ \A x \in DOMAIN t : t[x] \in S
  OBVIOUS
<1>2. Len(s) <= Len(t) /\ \A x \in DOMAIN s : x \in DOMAIN t /\ s[x] = t[x]
  BY DEF Prefix
<1>3. i \in LinesOf(t) /\ k \in LinesOf(t)
  BY <1>2 DEF LinesOf
<1>4. n \in LinesOf(t)
  BY <1>3 DEF NoHole
<1>5. PICK x \in DOMAIN t : n = t[x].line
  BY <1>4 DEF LinesOf
<1>6. PICK y \in DOMAIN s : k = s[y].line
  BY DEF LinesOf
<1>7. ~(y < x)
  <2>1. k = t[y].line /\ y \in DOMAIN t /\ n <= k /\ n \in Nat /\ k \in Nat
    BY <1>1, <1>2, <1>5, <1>6
  <2> QED
    BY <1>5, <2>1 DEF Ordered
<1>8. x \in DOMAIN s
  BY <1>1, <1>5, <1>6, <1>7
<1> QED
  BY <1>2, <1>5, <1>8 DEF LinesOf

LEMMA AppendKeeps ==
  ASSUME NEW S, NEW s \in Seq(S), NEW e \in S, \A x \in S : x.line \in Nat
  PROVE  /\ LinesOf(Append(s, e)) = LinesOf(s) \cup {e.line}
         /\ Ordered(s) /\ (\A i \in LinesOf(s) : i < e.line) => Ordered(Append(s, e))
<1>1. /\ Len(s) \in Nat /\ DOMAIN s = 1..Len(s) /\ \A x \in DOMAIN s : s[x] \in S
  OBVIOUS
<1>2. /\ DOMAIN Append(s, e) = DOMAIN s \cup {Len(s) + 1} /\ Append(s, e)[Len(s) + 1] = e
      /\ \A n \in DOMAIN s : Append(s, e)[n] = s[n]
  BY AppendMeaning
<1>3. LinesOf(Append(s, e)) = LinesOf(s) \cup {e.line}
  BY <1>2 DEF LinesOf
<1>4. ASSUME Ordered(s), \A i \in LinesOf(s) : i < e.line,
             NEW j \in DOMAIN Append(s, e), NEW k \in DOMAIN Append(s, e), j < k
      PROVE  Append(s, e)[j].line < Append(s, e)[k].line
  <2>1. j \in DOMAIN s
    BY <1>1, <1>2, <1>4
  <2>2. CASE k \in DOMAIN s
    BY <1>2, <1>4, <2>1, <2>2 DEF Ordered
  <2>3. CASE k = Len(s) + 1
    BY <1>2, <1>4, <2>1, <2>3 DEF LinesOf
  <2> QED
    BY <1>2, <2>2, <2>3
<1> QED
  BY <1>3, <1>4 DEF Ordered

LEMMA AppendFits ==
  ASSUME NEW S, NEW s \in Seq(S), NEW e \in S, Fits(s),
         InputOf(e).kind = "event", e.meta.pool = InputOf(e).pool,
         {e.meta.liquidity, e.meta.slot0} \subseteq {None, InputOf(e).block}
  PROVE  Fits(Append(s, e))
<1>1. /\ DOMAIN Append(s, e) = DOMAIN s \cup {Len(s) + 1} /\ Append(s, e)[Len(s) + 1] = e
      /\ \A n \in DOMAIN s : Append(s, e)[n] = s[n]
  BY AppendMeaning
<1> QED
  BY <1>1 DEF Fits

LEMMA AppendHasNoHole ==
  ASSUME NEW S, NEW s \in Seq(S), NEW e \in S, \A x \in S : x.line \in Nat,
         NoHole(s), \A i \in LinesOf(s) : i < e.line,
         \A i \in LinesOf(s) : \A n \in i..e.line - 1 :
           Input[n].kind = "event" /\ Input[n].pool = Input[i].pool => n \in LinesOf(s)
  PROVE  NoHole(Append(s, e))
<1>1. LinesOf(Append(s, e)) = LinesOf(s) \cup {e.line}
  BY AppendKeeps
<1>2. e.line \in Nat /\ LinesOf(s) \subseteq Nat
  <2>1. \A x \in DOMAIN s : s[x] \in S
    OBVIOUS
  <2> QED
    BY <2>1 DEF LinesOf
<1> SUFFICES ASSUME NEW i \in LinesOf(s) \cup {e.line}, NEW k \in LinesOf(s) \cup {e.line}, NEW n \in i..k,
                    Input[n].kind = "event", Input[n].pool = Input[i].pool, Input[n].pool = Input[k].pool
             PROVE  n \in LinesOf(s) \cup {e.line}
  BY <1>1 DEF NoHole
<1>3. CASE n = e.line
  BY <1>3
<1>4. CASE n # e.line /\ i \in LinesOf(s)
  <2>1. n \in i..e.line - 1
    BY <1>2, <1>4
  <2> QED
    BY <1>4, <2>1
<1>5. CASE n # e.line /\ i = e.line
  BY <1>2, <1>5
<1> QED
  BY <1>3, <1>4, <1>5
-----------------------------------------------------------------------------
LEMMA InputFacts ==
  /\ Len(Input) \in Nat /\ Lines = 1..Len(Input) /\ Lines \subseteq Nat
  /\ \A i \in Lines : Input[i].kind \in Kinds /\ Input[i].pool \in Pools /\ Input[i].block \in Nat
  /\ \A e \in Event : e.line \in Lines /\ e.line \in Nat
  /\ \A e \in Failure : e.line \in Lines /\ e.line \in Nat
  /\ MaxRuns \in Nat /\ IncludeLiveMeta \in BOOLEAN
<1>1. /\ Len(Input) \in Nat /\ Lines = 1..Len(Input)
      /\ \A i \in Lines : Input[i] \in [kind : Kinds, pool : Pools, block : Nat]
  <2>1. Input \in Seq([kind : Kinds, pool : Pools, block : Nat])
    BY InputAssumption
  <2> QED
    BY <2>1, ElementsTyped DEF Lines
<1>2. MaxRuns \in Nat /\ IncludeLiveMeta \in BOOLEAN
  BY InputAssumption
<1> QED
  BY <1>1, <1>2 DEF Event, Failure

LEMMA FileFacts ==
  ASSUME TypeOK
  PROVE  /\ Whole(typed) \in Seq(Event) /\ Whole(errors) \in Seq(Failure)
         /\ EventLines \subseteq Lines /\ FailureLines \subseteq Lines
         /\ EventLines \subseteq Nat /\ FailureLines \subseteq Nat
         /\ pos \in Nat /\ pos <= Len(Input)
<1>1. Whole(typed) \in Seq(Event) /\ Whole(errors) \in Seq(Failure)
  <2>1. typed \in WriterOf(Event) /\ errors \in WriterOf(Failure)
    BY DEF TypeOK
  <2> QED
    BY <2>1, WriterFacts
<1>2. /\ \A k \in DOMAIN Whole(typed) : Whole(typed)[k] \in Event
      /\ \A k \in DOMAIN Whole(errors) : Whole(errors)[k] \in Failure
  BY <1>1, ElementsTyped
<1>3. EventLines \subseteq Lines /\ FailureLines \subseteq Lines
  BY <1>2, InputFacts DEF EventLines, FailureLines, LinesOf
<1>4. pos \in Nat /\ pos <= Len(Input)
  <2>1. pos \in 0..Len(Input)
    BY DEF TypeOK
  <2> QED
    BY <2>1, InputFacts
<1>5. Lines \subseteq Nat
  BY InputFacts
<1> QED
  BY <1>1, <1>3, <1>4, <1>5

\* Files that lose their ends.
LEMMA FilesKept ==
  ASSUME DecodeInv, typed' \in WriterOf(Event),
         Prefix(Whole(typed'), Whole(typed)), Prefix(Whole(errors'), Whole(errors))
  PROVE  FilesInv'
<1>1. FilesInv /\ Whole(typed) \in Seq(Event) /\ \A e \in Event : e.line \in Nat
  BY FileFacts, InputFacts DEF DecodeInv
<1>2. Whole(typed') \in Seq(Event)
  BY WriterFacts
<1>3. /\ LinesOf(Whole(typed')) \subseteq EventLines /\ LinesOf(Whole(errors')) \subseteq FailureLines
      /\ Ordered(Whole(typed')) /\ Ordered(Whole(errors')) /\ Fits(Whole(typed'))
  BY <1>1, PrefixKeeps DEF FilesInv, EventLines, FailureLines
<1>4. NoHole(Whole(typed'))
  BY <1>1, <1>2, PrefixHasNoHole DEF FilesInv
<1> QED
  BY <1>1, <1>3, <1>4 DEF FilesInv, EventLines, FailureLines

LEMMA SameFiles ==
  ASSUME DecodeInv, UNCHANGED <<typed, errors>>
  PROVE  FilesInv' /\ EventLines' = EventLines /\ FailureLines' = FailureLines
  BY DEF DecodeInv, FilesInv, EventLines, FailureLines

LEMMA EmptyMeaning ==
  /\ \A S : Opened \in WriterOf(S)
  /\ Whole(Opened) = << >> /\ LinesOf(<< >>) = {}
  /\ \A s : Len(s) \in Nat => Prefix(<< >>, s)
<1>1. \A S : << >> \in Seq(S)
  OBVIOUS
<1>2. Whole(Opened) = << >>
  BY <1>1, ConcatEmptySeq DEF Whole, Opened
<1>3. \A S : Opened \in WriterOf(S)
  BY <1>1 DEF Opened, WriterOf
<1> QED
  BY <1>2, <1>3 DEF LinesOf, Prefix

LEMMA InitInv == Init => DecodeInv
<1> SUFFICES ASSUME Init PROVE DecodeInv
  OBVIOUS
<1>1. /\ typed = Opened /\ errors = Opened /\ pc = "down" /\ cancelled = FALSE /\ pos = 0
      /\ DOMAIN poolMeta = {} /\ DOMAIN tokenMeta = {} /\ runs = 0 /\ result = "none"
  BY DEF Init
<1>2. TypeOK
  <2>1. /\ typed \in WriterOf(Event) /\ errors \in WriterOf(Failure)
        /\ runs \in 0..MaxRuns /\ Range(tokenMeta) = {} /\ pos \in 0..Len(Input)
    BY <1>1, EmptyMeaning, InputFacts DEF Range
  <2> QED
    BY <1>1, <2>1 DEF TypeOK
<1>3. EventLines = {} /\ FailureLines = {} /\ Whole(typed) = << >> /\ Whole(errors) = << >>
  BY <1>1, EmptyMeaning DEF EventLines, FailureLines
<1>4. FilesInv
  BY <1>3 DEF FilesInv, Ordered, Fits, NoHole, EventLines
<1> QED
  BY <1>1, <1>2, <1>4 DEF DecodeInv, ControlInv, ScanInv, AccountInv, Reading

LEMMA StartKeeps ==
  ASSUME DecodeInv, StartProcess
  PROVE  DecodeInv'
<1>1. /\ UNCHANGED <<typed, errors>> /\ pc' = "start" /\ runs' = runs + 1 /\ runs < MaxRuns
      /\ cancelled' = FALSE /\ pos' = 0 /\ result' = "none"
      /\ DOMAIN poolMeta' = {} /\ DOMAIN tokenMeta' = {}
  BY DEF StartProcess
<1>2. TypeOK'
  <2>1. Range(tokenMeta') = {}
    BY <1>1 DEF Range
  <2>2. runs \in 0..MaxRuns
    BY DEF TypeOK, DecodeInv
  <2>3. runs' \in 0..MaxRuns /\ pos' \in 0..Len(Input)
    BY <1>1, <2>2, InputFacts
  <2> QED
    BY <1>1, <2>1, <2>3 DEF TypeOK, DecodeInv
<1> QED
  BY <1>1, <1>2, SameFiles DEF DecodeInv, ControlInv, ScanInv, AccountInv, Reading

LEMMA CancelKeeps ==
  ASSUME DecodeInv, Cancel
  PROVE  DecodeInv'
<1>1. UNCHANGED <<typed, errors, pc, pos, poolMeta, tokenMeta, runs, result>> /\ cancelled' = TRUE
  BY DEF Cancel, caches
<1>2. TypeOK'
  BY <1>1 DEF TypeOK, DecodeInv
<1> QED
  BY <1>1, <1>2, SameFiles DEF DecodeInv, ControlInv, ScanInv, AccountInv, Reading, This

LEMMA OpenKeeps ==
  ASSUME DecodeInv, OpenInput \/ OpenTyped \/ OpenErrors
  PROVE  DecodeInv'
<1> USE DEF DecodeInv
<1>1. UNCHANGED <<cancelled, pos, poolMeta, tokenMeta, runs, result>> /\ pos = 0 /\ result # "ok"
  BY DEF OpenInput, OpenTyped, OpenErrors, caches, ControlInv
<1>2. /\ Prefix(Whole(typed), Whole(typed)) /\ Prefix(Whole(errors), Whole(errors))
      /\ Prefix(<< >>, Whole(typed)) /\ Prefix(<< >>, Whole(errors))
  <2>1. Len(Whole(typed)) \in Nat /\ Len(Whole(errors)) \in Nat
    BY FileFacts
  <2> QED
    BY <2>1, WriterFacts, EmptyMeaning DEF TypeOK
<1>3. CASE OpenInput
  <2>1. UNCHANGED <<typed, errors>> /\ pc' = "open typed"
    BY <1>3 DEF OpenInput
  <2>2. TypeOK'
    BY <1>1, <2>1 DEF TypeOK
  <2> QED
    BY <1>1, <2>1, <2>2, SameFiles DEF ControlInv, ScanInv, AccountInv, Reading
<1>4. CASE OpenTyped
  <2>1. UNCHANGED errors /\ typed' = Opened /\ pc' = "open errors"
    BY <1>4 DEF OpenTyped
  <2>2. TypeOK'
    BY <1>1, <2>1, EmptyMeaning DEF TypeOK
  <2>3. Whole(typed') = << >>
    BY <2>1, EmptyMeaning
  <2>4. FilesInv'
    BY <1>2, <2>1, <2>2, <2>3, FilesKept DEF TypeOK
  <2> QED
    BY <1>1, <2>1, <2>2, <2>3, <2>4 DEF ControlInv, ScanInv, AccountInv, Reading
<1>5. CASE OpenErrors
  <2>1. UNCHANGED typed /\ errors' = Opened /\ pc' = "scan" /\ typed = Opened
    BY <1>5 DEF OpenErrors, ControlInv
  <2>2. TypeOK'
    BY <1>1, <2>1, EmptyMeaning DEF TypeOK
  <2>3. Whole(typed') = << >> /\ Whole(errors') = << >>
    BY <2>1, EmptyMeaning
  <2>4. FilesInv'
    BY <1>2, <2>1, <2>2, <2>3, FilesKept DEF TypeOK
  <2>5. EventLines' = {} /\ FailureLines' = {}
    BY <2>3, EmptyMeaning DEF EventLines, FailureLines
  <2>6. {i \in 1..pos : Input[i].kind # "foreign"} = {}
    BY <1>1
  <2>7. ControlInv' /\ ScanInv'
    BY <1>1, <2>1, <2>2, <2>5 DEF ControlInv, ScanInv, Reading, TypeOK, Opened
  <2>8. AccountInv'
    BY <1>1, <2>5, <2>6 DEF AccountInv
  <2> QED
    BY <2>2, <2>4, <2>7, <2>8
<1> QED
  BY <1>3, <1>4, <1>5

LEMMA CompleteKeeps ==
  ASSUME DecodeInv, Complete
  PROVE  DecodeInv'
<1>1. /\ UNCHANGED <<typed, errors, cancelled, pos, poolMeta, tokenMeta, runs>>
      /\ pc = "scan" /\ pos = Len(Input) /\ pc' = "close errors" /\ result' = "ok"
  BY DEF Complete, caches
<1>2. TypeOK'
  BY <1>1 DEF TypeOK, DecodeInv
<1> QED
  BY <1>1, <1>2, SameFiles DEF DecodeInv, ControlInv, ScanInv, AccountInv, Reading

LEMMA FailsKeeps ==
  ASSUME DecodeInv, StepFails
  PROVE  DecodeInv'
<1>1. /\ UNCHANGED <<typed, errors, cancelled, pos, poolMeta, tokenMeta, runs>>
      /\ pc' \in {"down", "close typed", "close errors"} /\ result' = "error"
  BY DEF StepFails, caches
<1>2. TypeOK'
  BY <1>1 DEF TypeOK, DecodeInv
<1> QED
  BY <1>1, <1>2, SameFiles DEF DecodeInv, ControlInv, ScanInv, AccountInv, Reading

LEMMA CloseErrorsKeeps ==
  ASSUME DecodeInv, CloseErrors
  PROVE  DecodeInv'
<1> USE DEF DecodeInv
<1>1. /\ UNCHANGED <<typed, cancelled, pos, poolMeta, tokenMeta, runs, result>>
      /\ pc' = "close typed" /\ errors' \in Flushes(errors)
  BY DEF CloseErrors, caches
<1>2. typed \in WriterOf(Event) /\ errors \in WriterOf(Failure)
  BY DEF TypeOK
<1>3. /\ errors' \in WriterOf(Failure) /\ Prefix(Whole(errors'), Whole(errors))
      /\ ~errors'.broken => ~errors.broken /\ Whole(errors') = Whole(errors) /\ errors'.buf = << >>
  BY <1>1, <1>2, FlushMeaning
<1>4. TypeOK'
  BY <1>1, <1>3 DEF TypeOK
<1>5. FilesInv'
  BY <1>1, <1>2, <1>3, WriterFacts, FilesKept
<1>6. ~errors'.broken => EventLines' = EventLines /\ FailureLines' = FailureLines
  BY <1>1, <1>3 DEF EventLines, FailureLines
<1>7. ControlInv' /\ ScanInv'
  BY <1>1, <1>3 DEF ControlInv, ScanInv, Reading
<1>8. AccountInv'
  BY <1>1, <1>3, <1>6 DEF AccountInv, Reading
<1> QED
  BY <1>4, <1>5, <1>7, <1>8

LEMMA CloseTypedKeeps ==
  ASSUME DecodeInv, CloseTyped
  PROVE  DecodeInv'
<1> USE DEF DecodeInv
<1>1. /\ UNCHANGED <<errors, cancelled, pos, poolMeta, tokenMeta, runs, result>>
      /\ pc = "close typed" /\ pc' = "down" /\ typed' \in Flushes(typed)
  BY DEF CloseTyped, caches
<1>2. typed \in WriterOf(Event) /\ errors \in WriterOf(Failure)
  BY DEF TypeOK
<1>3. /\ typed' \in WriterOf(Event) /\ Prefix(Whole(typed'), Whole(typed))
      /\ ~typed'.broken => ~typed.broken /\ Whole(typed') = Whole(typed) /\ typed'.buf = << >>
  BY <1>1, <1>2, FlushMeaning
<1>4. TypeOK'
  BY <1>1, <1>3 DEF TypeOK
<1>5. FilesInv'
  BY <1>1, <1>2, <1>3, WriterFacts, FilesKept
<1>6. ~typed'.broken => EventLines' = EventLines /\ FailureLines' = FailureLines
  BY <1>1, <1>3 DEF EventLines, FailureLines
<1>7. ControlInv' /\ ScanInv'
  BY <1>1, <1>3 DEF ControlInv, ScanInv, Reading
<1>8. AccountInv'
  BY <1>1, <1>3, <1>6 DEF AccountInv, Reading
<1> QED
  BY <1>4, <1>5, <1>7, <1>8

LEMMA CrashKeeps ==
  ASSUME DecodeInv, Crash
  PROVE  DecodeInv'
<1> USE DEF DecodeInv
<1>1. /\ UNCHANGED <<cancelled, pos, poolMeta, tokenMeta, runs>>
      /\ pc' = "down" /\ result' = "crash"
      /\ typed' = [typed EXCEPT !.buf = << >>] /\ errors' = [errors EXCEPT !.buf = << >>]
  BY DEF Crash, caches
<1>2. typed \in WriterOf(Event) /\ errors \in WriterOf(Failure)
  BY DEF TypeOK
<1>3. /\ typed' \in WriterOf(Event) /\ Prefix(Whole(typed'), Whole(typed))
      /\ errors' \in WriterOf(Failure) /\ Prefix(Whole(errors'), Whole(errors))
  BY <1>1, <1>2, DropMeaning
<1>4. TypeOK'
  BY <1>1, <1>3 DEF TypeOK
<1>5. FilesInv'
  BY <1>3, FilesKept
<1> QED
  BY <1>1, <1>4, <1>5 DEF ControlInv, ScanInv, AccountInv, Reading
-----------------------------------------------------------------------------
\* The loop.
LEMMA SkipKeeps ==
  ASSUME DecodeInv, SkipLine
  PROVE  DecodeInv'
<1> USE DEF DecodeInv
<1>1. /\ UNCHANGED <<typed, errors, cancelled, poolMeta, tokenMeta, runs, result>>
      /\ pc = "scan" /\ pc' = "scan" /\ pos' = pos + 1 /\ pos < Len(Input)
      /\ Input[pos + 1].kind = "foreign"
  BY DEF SkipLine, Due, This, NextLine, caches
<1>2. /\ pos \in Nat /\ pos' \in 0..Len(Input) /\ EventLines \subseteq Nat /\ FailureLines \subseteq Nat
      /\ Len(Input) \in Nat
  BY <1>1, FileFacts, InputFacts
<1>3. TypeOK'
  BY <1>1, <1>2 DEF TypeOK
<1>4. ControlInv'
  BY <1>1 DEF ControlInv, Reading
<1>5. ScanInv'
  <2>1. /\ \A i \in EventLines \cup FailureLines : i <= pos
        /\ \A i \in EventLines : Input[i].pool \in DOMAIN poolMeta
        /\ \A i \in EventLines : \A n \in i..pos :
             Input[n].kind = "event" /\ Input[n].pool = Input[i].pool => n \in EventLines
    BY <1>1 DEF ScanInv, Reading
  <2>2. \A i \in EventLines \cup FailureLines : i <= pos + 1
    BY <1>2, <2>1
  <2>3. \A i \in EventLines : \A n \in i..pos + 1 : n \in i..pos \/ n = pos + 1
    BY <1>2
  <2>4. \A i \in EventLines : \A n \in i..pos + 1 :
          Input[n].kind = "event" /\ Input[n].pool = Input[i].pool => n \in EventLines
    BY <1>1, <2>1, <2>3
  <2> QED
    BY <1>1, <2>1, <2>2, <2>4, SameFiles DEF ScanInv
<1>6. AccountInv'
  <2>1. \A i : i \in 1..pos + 1 <=> i \in 1..pos \/ i = pos + 1
    BY <1>2
  <2>2. {i \in 1..pos + 1 : Input[i].kind # "foreign"} = {i \in 1..pos : Input[i].kind # "foreign"}
    BY <1>1, <2>1
  <2> QED
    BY <1>1, <2>2, SameFiles DEF AccountInv, Reading
<1> QED
  BY <1>1, <1>3, <1>4, <1>5, <1>6, SameFiles

\* The metadata of the pool is there for the line, and for the lines to come.
LEMMA PoolKeeps ==
  ASSUME DecodeInv, CachedPool \/ FetchPool
  PROVE  DecodeInv'
<1> USE DEF DecodeInv
<1>1. /\ UNCHANGED <<typed, errors, cancelled, pos, runs, result>>
      /\ pc = "scan" /\ pc' = "event" /\ pos < Len(Input)
  BY DEF CachedPool, FetchPool, MetaDue, Due, caches
<1>2. PICK p : p = Input[pos + 1].pool
  OBVIOUS
<1>3. p \in Pools
  <2>1. pos + 1 \in Lines
    BY <1>1, FileFacts, InputFacts
  <2> QED
    BY <1>2, <2>1, InputFacts
<1>4. /\ DOMAIN poolMeta' = DOMAIN poolMeta \cup {p} /\ \A q \in DOMAIN poolMeta' : poolMeta'[q] = Immutable(q)
      /\ DOMAIN tokenMeta' \subseteq Tokens /\ Range(tokenMeta') \subseteq TokenOutcomes
  <2>1. CASE CachedPool
    BY <1>2, <2>1 DEF CachedPool, TypeOK, This, caches
  <2>2. CASE FetchPool
    <3>1. poolMeta' = [q \in DOMAIN poolMeta \cup {p} |-> IF q = p THEN Immutable(q) ELSE poolMeta[q]]
      BY <1>2, <2>2 DEF FetchPool, This
    <3>2. PICK found \in [TokensOf[p] \ DOMAIN tokenMeta -> TokenOutcomes] :
            tokenMeta' = [t \in DOMAIN tokenMeta \cup DOMAIN found |->
                            IF t \in DOMAIN tokenMeta THEN tokenMeta[t] ELSE found[t]]
      BY <1>2, <2>2 DEF FetchPool, This
    <3>3. TokensOf[p] \subseteq Tokens
      BY <1>3 DEF Pools, Tokens, Range
    <3>4. DOMAIN tokenMeta \subseteq Tokens /\ Range(tokenMeta) \subseteq TokenOutcomes
      BY DEF TypeOK
    <3>5. DOMAIN tokenMeta' \subseteq Tokens /\ Range(tokenMeta') \subseteq TokenOutcomes
      BY <3>2, <3>3, <3>4 DEF Range
    <3> QED
      BY <3>1, <3>5 DEF TypeOK
  <2> QED
    BY <2>1, <2>2
<1>5. TypeOK'
  BY <1>1, <1>3, <1>4 DEF TypeOK
<1>6. ControlInv' /\ ScanInv' /\ AccountInv'
  BY <1>1, <1>2, <1>4, SameFiles DEF ControlInv, ScanInv, AccountInv, Reading, This
<1> QED
  BY <1>1, <1>5, <1>6, SameFiles

\* A failure for the line: no event is missing, as the pool has none in the file yet.
LEMMA RejectKeeps ==
  ASSUME DecodeInv, Reading, pos < Len(Input),
         NEW cause \in Kinds \cup {"meta"}, Reject(cause), This.kind # "foreign",
         This.kind = "event" => This.pool \notin DOMAIN poolMeta
  PROVE  DecodeInv'
<1> USE DEF DecodeInv
<1>1. /\ UNCHANGED <<typed, cancelled, poolMeta, tokenMeta, runs, result>>
      /\ pc' = "scan" /\ pos' = pos + 1 /\ errors' \in Writes(errors, [line |-> pos + 1, cause |-> cause])
  BY DEF Reject, NextLine, caches
<1>2. /\ pos \in Nat /\ pos' \in 0..Len(Input) /\ EventLines \subseteq Nat /\ FailureLines \subseteq Nat
      /\ Len(Input) \in Nat /\ pos + 1 \in Lines
  BY <1>1, FileFacts, InputFacts
<1>3. PICK e \in Failure : e = [line |-> pos + 1, cause |-> cause]
  BY <1>2 DEF Failure
<1>4. e.line = pos + 1
  BY <1>3
<1>5. typed \in WriterOf(Event) /\ errors \in WriterOf(Failure) /\ Whole(errors) \in Seq(Failure)
  BY FileFacts DEF TypeOK
<1>6. /\ errors' \in WriterOf(Failure)
      /\ errors.broken => errors' = errors
      /\ ~errors.broken => Prefix(Whole(errors'), Append(Whole(errors), e))
      /\ ~errors'.broken => ~errors.broken /\ Whole(errors') = Append(Whole(errors), e)
  BY <1>1, <1>3, <1>5, WriteMeaning
<1>7. \A x \in Failure : x.line \in Nat
  BY InputFacts
<1>8. /\ \A i \in EventLines \cup FailureLines : i <= pos
      /\ \A i \in EventLines : Input[i].pool \in DOMAIN poolMeta
      /\ \A i \in EventLines : \A n \in i..pos :
           Input[n].kind = "event" /\ Input[n].pool = Input[i].pool => n \in EventLines
  BY DEF ScanInv
<1>9. \A i \in FailureLines : i < e.line
  BY <1>2, <1>4, <1>8
<1>10. /\ LinesOf(Append(Whole(errors), e)) = FailureLines \cup {pos + 1}
       /\ Ordered(Append(Whole(errors), e))
  BY <1>4, <1>5, <1>7, <1>9, AppendKeeps DEF FilesInv, FailureLines
<1>11. /\ FailureLines' \subseteq FailureLines \cup {pos + 1} /\ Ordered(Whole(errors'))
       /\ ~errors'.broken => FailureLines' = FailureLines \cup {pos + 1}
  <2>1. CASE errors.broken
    BY <1>6, <2>1 DEF FailureLines, FilesInv
  <2>2. CASE ~errors.broken
    BY <1>6, <1>10, <2>2, PrefixKeeps DEF FailureLines
  <2> QED
    BY <1>5, <2>1, <2>2
<1>12. EventLines' = EventLines
  BY <1>1 DEF EventLines
<1>13. TypeOK'
  BY <1>1, <1>2, <1>6 DEF TypeOK
<1>14. ControlInv'
  BY <1>1 DEF ControlInv, Reading
<1>15. FilesInv'
  <2>1. pos + 1 \notin EventLines
    BY <1>2, <1>8
  <2> QED
    BY <1>1, <1>11, <1>12, <2>1 DEF FilesInv
<1>16. ScanInv'
  <2>1. ASSUME NEW i \in EventLines \cup FailureLines \cup {pos + 1} PROVE i <= pos + 1
    <3>1. CASE i = pos + 1
      BY <1>2, <3>1
    <3>2. CASE i \in EventLines \cup FailureLines
      <4>1. i \in Nat /\ i <= pos
        BY <1>2, <1>8, <3>2
      <4> QED
        BY <1>2, <4>1
    <3> QED
      BY <3>1, <3>2
  <2>2. ASSUME NEW i \in EventLines, NEW n \in i..pos + 1,
               Input[n].kind = "event", Input[n].pool = Input[i].pool
        PROVE  n \in EventLines
    <3>1. CASE n = pos + 1
      BY <1>8, <2>2, <3>1 DEF This
    <3>2. CASE n # pos + 1
      <4>1. n \in i..pos
        BY <1>2, <3>2
      <4> QED
        BY <1>8, <2>2, <4>1
    <3> QED
      BY <3>1, <3>2
  <2> QED
    BY <1>1, <1>8, <1>11, <1>12, <2>1, <2>2 DEF ScanInv
<1>17. AccountInv'
  <2>1. \A i : i \in 1..pos + 1 <=> i \in 1..pos \/ i = pos + 1
    BY <1>2
  <2>2. {i \in 1..pos + 1 : Input[i].kind # "foreign"}
          = {i \in 1..pos : Input[i].kind # "foreign"} \cup {pos + 1}
    BY <2>1 DEF This
  <2> QED
    BY <1>1, <1>6, <1>11, <1>12, <2>2 DEF AccountInv
<1> QED
  BY <1>13, <1>14, <1>15, <1>16, <1>17

\* Metadata is that of the pool, live fields of the block of the event.
LEMMA LiveMeaning ==
  ASSUME TypeOK, NEW p \in DOMAIN poolMeta, NEW b \in Nat, NEW m \in WithLive(poolMeta[p], b)
  PROVE  m \in Meta /\ m.pool = p /\ {m.liquidity, m.slot0} \subseteq {None, b}
<1>1. poolMeta[p] = Immutable(p) /\ p \in Pools
  BY DEF TypeOK
<1>2. CASE m = Immutable(p)
  BY <1>1, <1>2 DEF Immutable, Meta
<1>3. CASE m \in [pool : {p}, liquidity : {None, b}, slot0 : {None, b}]
  BY <1>1, <1>3 DEF Meta
<1> QED
  BY <1>1, <1>2, <1>3 DEF WithLive, Immutable

LEMMA WriteKeeps ==
  ASSUME DecodeInv, WriteEvent
  PROVE  DecodeInv'
<1> USE DEF DecodeInv
<1>1. /\ UNCHANGED <<errors, cancelled, poolMeta, tokenMeta, runs>>
      /\ pc = "event" /\ pos < Len(Input) /\ This.kind = "event"
  BY DEF WriteEvent, Due, NextLine, caches
<1>2. /\ pos \in Nat /\ EventLines \subseteq Nat /\ FailureLines \subseteq Nat
      /\ Len(Input) \in Nat /\ pos + 1 \in Lines /\ pos + 1 \in 0..Len(Input) /\ pos \in 0..Len(Input)
  BY <1>1, FileFacts, InputFacts
<1>3. PICK m \in WithLive(poolMeta[This.pool], This.block) :
        typed' \in Writes(typed, [line |-> pos + 1, meta |-> m])
  BY DEF WriteEvent
<1>4. This.pool \in DOMAIN poolMeta /\ This.block \in Nat /\ ~typed.broken
  BY <1>1, <1>2, InputFacts DEF ControlInv, This, Reading
<1>5. m \in Meta /\ m.pool = This.pool /\ {m.liquidity, m.slot0} \subseteq {None, This.block}
  BY <1>3, <1>4, LiveMeaning
<1>6. PICK e \in Event : e = [line |-> pos + 1, meta |-> m]
  BY <1>2, <1>5 DEF Event
<1>7. e.line = pos + 1 /\ e.meta = m /\ InputOf(e) = This
  BY <1>6 DEF InputOf, This
<1>8. typed \in WriterOf(Event) /\ errors \in WriterOf(Failure) /\ Whole(typed) \in Seq(Event)
  BY FileFacts DEF TypeOK
<1>9. /\ typed' \in WriterOf(Event) /\ Prefix(Whole(typed'), Append(Whole(typed), e))
      /\ ~typed'.broken => Whole(typed') = Append(Whole(typed), e)
  BY <1>3, <1>4, <1>6, <1>8, WriteMeaning
<1>10. \A x \in Event : x.line \in Nat
  BY InputFacts
<1>11. /\ \A i \in EventLines \cup FailureLines : i <= pos
       /\ \A i \in EventLines : Input[i].pool \in DOMAIN poolMeta
       /\ \A i \in EventLines : \A n \in i..pos :
            Input[n].kind = "event" /\ Input[n].pool = Input[i].pool => n \in EventLines
  BY <1>1 DEF ScanInv, Reading
<1>12. \A i \in EventLines : i < e.line
  BY <1>2, <1>7, <1>11
<1>13. /\ LinesOf(Append(Whole(typed), e)) = EventLines \cup {pos + 1}
       /\ Ordered(Append(Whole(typed), e))
  BY <1>7, <1>8, <1>10, <1>12, AppendKeeps DEF FilesInv, EventLines
<1>14. Fits(Append(Whole(typed), e))
  BY <1>1, <1>5, <1>7, <1>8, AppendFits DEF FilesInv
<1>15. NoHole(Append(Whole(typed), e))
  <2>1. e.line - 1 = pos
    BY <1>2, <1>7
  <2> QED
    BY <1>7, <1>8, <1>10, <1>11, <1>12, <2>1, AppendHasNoHole DEF FilesInv, EventLines
<1>16. FilesInv'
  <2>1. Append(Whole(typed), e) \in Seq(Event) /\ Whole(typed') \in Seq(Event)
    BY <1>8, <1>9, AppendMeaning, WriterFacts
  <2>2. Ordered(Whole(typed')) /\ Fits(Whole(typed')) /\ LinesOf(Whole(typed')) \subseteq EventLines \cup {pos + 1}
    BY <1>9, <1>13, <1>14, PrefixKeeps
  <2>3. NoHole(Whole(typed'))
    BY <1>9, <1>10, <1>13, <1>15, <2>1, PrefixHasNoHole
  <2>4. pos + 1 \notin FailureLines
    BY <1>2, <1>11
  <2> QED
    BY <1>1, <2>2, <2>3, <2>4 DEF FilesInv, EventLines, FailureLines
<1>17. FailureLines' = FailureLines
  BY <1>1 DEF FailureLines
<1>18. CASE typed'.broken
  <2>1. pc' = "close errors" /\ result' = "error" /\ UNCHANGED pos
    BY <1>18 DEF WriteEvent
  <2>2. TypeOK'
    BY <1>1, <1>9, <2>1 DEF TypeOK
  <2> QED
    BY <1>16, <2>1, <2>2 DEF ControlInv, ScanInv, AccountInv, Reading
<1>19. CASE ~typed'.broken
  <2>1. pc' = "scan" /\ pos' = pos + 1 /\ UNCHANGED result
    BY <1>19 DEF WriteEvent, NextLine
  <2>2. EventLines' = EventLines \cup {pos + 1}
    BY <1>9, <1>13, <1>19 DEF EventLines
  <2>3. TypeOK'
    BY <1>1, <1>2, <1>9, <2>1 DEF TypeOK
  <2>4. ControlInv'
    BY <1>1, <1>19, <2>1 DEF ControlInv, Reading
  <2>5. ScanInv'
    <3>1. \A i \in EventLines \cup FailureLines \cup {pos + 1} : i <= pos + 1
      BY <1>2, <1>11
    <3>2. \A i \in EventLines \cup {pos + 1} : Input[i].pool \in DOMAIN poolMeta
      BY <1>4, <1>11 DEF This
    <3>3. ASSUME NEW i \in EventLines \cup {pos + 1}, NEW n \in i..pos + 1,
                 Input[n].kind = "event", Input[n].pool = Input[i].pool
          PROVE  n \in EventLines \cup {pos + 1}
      <4>1. CASE n = pos + 1
        BY <4>1
      <4>2. CASE n # pos + 1
        <5>1. i \in EventLines /\ n \in i..pos
          BY <1>2, <4>2
        <5> QED
          BY <1>11, <3>3, <5>1
      <4> QED
        BY <4>1, <4>2
    <3> QED
      BY <1>1, <1>17, <2>1, <2>2, <3>1, <3>2, <3>3 DEF ScanInv
  <2>6. AccountInv'
    <3>1. \A i : i \in 1..pos + 1 <=> i \in 1..pos \/ i = pos + 1
      BY <1>2
    <3>2. {i \in 1..pos + 1 : Input[i].kind # "foreign"}
            = {i \in 1..pos : Input[i].kind # "foreign"} \cup {pos + 1}
      BY <1>1, <3>1 DEF This
    <3> QED
      BY <1>1, <1>4, <1>17, <2>1, <2>2, <3>2 DEF AccountInv, Reading
  <2> QED
    BY <1>16, <2>3, <2>4, <2>5, <2>6
<1> QED
  BY <1>9, <1>18, <1>19
-----------------------------------------------------------------------------
LEMMA NextKeeps == DecodeInv /\ [Next]_vars => DecodeInv'
<1> SUFFICES ASSUME DecodeInv, [Next]_vars PROVE DecodeInv'
  OBVIOUS
<1>1. CASE StartProcess
  BY <1>1, StartKeeps
<1>2. CASE Cancel
  BY <1>2, CancelKeeps
<1>3. CASE OpenInput \/ OpenTyped \/ OpenErrors
  BY <1>3, OpenKeeps
<1>4. CASE RejectLine
  <2>1. Reading /\ pos < Len(Input) /\ This.kind = "unreadable" /\ Reject("unreadable")
    BY <1>4 DEF RejectLine, Due, Reading
  <2> QED
    BY <2>1, RejectKeeps DEF Kinds
<1>5. CASE SkipLine
  BY <1>5, SkipKeeps
<1>6. CASE CachedPool \/ FetchPool
  BY <1>6, PoolKeeps
<1>7. CASE FetchPoolFails
  <2>1. /\ Reading /\ pos < Len(Input) /\ This.kind \in {"event", "payload"} /\ Reject("meta")
        /\ This.pool \notin DOMAIN poolMeta
    BY <1>7 DEF FetchPoolFails, MetaDue, Due, Reading
  <2> QED
    BY <2>1, RejectKeeps
<1>8. CASE WriteEvent
  BY <1>8, WriteKeeps
<1>9. CASE RejectPayload
  <2>1. Reading /\ pos < Len(Input) /\ This.kind = "payload" /\ Reject("payload")
    BY <1>9 DEF RejectPayload, Due, Reading
  <2> QED
    BY <2>1, RejectKeeps DEF Kinds
<1>10. CASE Complete
  BY <1>10, CompleteKeeps
<1>11. CASE CloseErrors
  BY <1>11, CloseErrorsKeeps
<1>12. CASE CloseTyped
  BY <1>12, CloseTypedKeeps
<1>13. CASE StepFails
  BY <1>13, FailsKeeps
<1>14. CASE Crash
  BY <1>14, CrashKeeps
<1>15. CASE UNCHANGED vars
  <2>1. UNCHANGED <<typed, errors, pc, cancelled, pos, poolMeta, tokenMeta, runs, result>>
    BY <1>15 DEF vars, caches
  <2>2. TypeOK'
    BY <2>1 DEF DecodeInv, TypeOK
  <2>3. ControlInv' /\ ScanInv' /\ AccountInv'
    BY <2>1, SameFiles DEF DecodeInv, ControlInv, ScanInv, AccountInv, Reading, This
  <2> QED
    BY <2>1, <2>2, <2>3, SameFiles DEF DecodeInv
<1> QED
  BY <1>1, <1>2, <1>3, <1>4, <1>5, <1>6, <1>7, <1>8, <1>9, <1>10, <1>11, <1>12, <1>13, <1>14, <1>15
  DEF Next, RunStep

LEMMA DecodeInvariant == Spec => []DecodeInv
<1>1. Init => DecodeInv
  BY InitInv
<1>2. DecodeInv /\ [Next]_vars => DecodeInv'
  BY NextKeeps
<1> QED
  BY <1>1, <1>2, PTL DEF Spec

(***************************************************************************)
(* The writers hold entries for lines of the input; the caches have        *)
(* metadata of pools and tokens without live fields (runDecode,            *)
(* V3PoolDecoder.getPoolMeta), whatever fails and whenever.                *)
(***************************************************************************)
THEOREM DecodeTyped == Spec => []TypeOK
<1>1. DecodeInv => TypeOK
  BY DEF DecodeInv
<1> QED
  BY <1>1, DecodeInvariant, PTL

(***************************************************************************)
(* No line of the input is twice in the two files of runDecode, nor out of *)
(* order, for every input and every sequence of runs, crashes and failing  *)
(* writes, the flushes of a full buffer included.                          *)
(***************************************************************************)
THEOREM DecodeEachLineOnce == Spec => []EachLineOnce
<1>1. ASSUME DecodeInv PROVE EachLineOnce
  <2>1. FilesInv /\ TypeOK
    BY <1>1 DEF DecodeInv
  <2>2. Prefix(typed.file, Whole(typed)) /\ Prefix(errors.file, Whole(errors))
    BY <2>1, WriterFacts DEF TypeOK
  <2>3. /\ Ordered(typed.file) /\ Ordered(errors.file)
        /\ LinesOf(typed.file) \subseteq EventLines /\ LinesOf(errors.file) \subseteq FailureLines
    BY <2>1, <2>2, PrefixKeeps DEF FilesInv, EventLines, FailureLines
  <2> QED
    BY <2>1, <2>3 DEF EachLineOnce, Ordered, FilesInv
<1> QED
  BY <1>1, DecodeInvariant, PTL

(***************************************************************************)
(* A decode run that ends without an error and whose writers flushed has   *)
(* every line but the foreign ones in one of its files, for every input    *)
(* and wherever it was cancelled or calls of the node failed.              *)
(***************************************************************************)
THEOREM DecodeSuccessAccountsForEveryLine == Spec => []SuccessAccountsForEveryLine
<1>1. ASSUME DecodeInv, pc = "down", result = "ok", ~typed.broken, ~errors.broken
      PROVE  /\ LinesOf(typed.file) \cup LinesOf(errors.file) = {i \in Lines : Input[i].kind # "foreign"}
             /\ \A k \in DOMAIN typed.file : InputOf(typed.file[k]).kind = "event"
  <2>1. TypeOK /\ FilesInv /\ pos = Len(Input) /\ typed.buf = << >> /\ errors.buf = << >>
    BY <1>1 DEF DecodeInv, ControlInv
  <2>2. Whole(typed) = typed.file /\ Whole(errors) = errors.file
    BY <2>1, WriterFacts DEF TypeOK
  <2>3. EventLines \cup FailureLines = {i \in 1..pos : Input[i].kind # "foreign"}
    BY <1>1 DEF DecodeInv, AccountInv
  <2>4. Lines = 1..pos
    BY <2>1, InputFacts
  <2> QED
    BY <2>1, <2>2, <2>3, <2>4 DEF EventLines, FailureLines, FilesInv, Fits
<1>2. DecodeInv => SuccessAccountsForEveryLine
  BY <1>1 DEF SuccessAccountsForEveryLine
<1> QED
  BY <1>2, DecodeInvariant, PTL

(***************************************************************************)
(* The events of a pool in the file have no gap: once its metadata is      *)
(* cached each of its events is written, and a crash or an error cuts the  *)
(* file only at its end.                                                   *)
(***************************************************************************)
THEOREM DecodePoolHistoryHasNoHole == Spec => []PoolHistoryHasNoHole
<1>1. ASSUME DecodeInv PROVE PoolHistoryHasNoHole
  <2>1. FilesInv /\ TypeOK
    BY <1>1 DEF DecodeInv
  <2>2. typed \in WriterOf(Event)
    BY <2>1 DEF TypeOK
  <2>3. Prefix(typed.file, Whole(typed)) /\ typed.file \in Seq(Event) /\ Whole(typed) \in Seq(Event)
    BY <2>2, WriterFacts
  <2>4. \A e \in Event : e.line \in Nat
    BY InputFacts
  <2>5. NoHole(typed.file)
    BY <2>1, <2>3, <2>4, PrefixHasNoHole DEF FilesInv
  <2> QED
    BY <2>5 DEF PoolHistoryHasNoHole, NoHole, InputOf, LinesOf
<1> QED
  BY <1>1, DecodeInvariant, PTL

(***************************************************************************)
(* Each event in the file has the metadata of its own pool, and live       *)
(* fields of its own block or none: getPoolMeta works on a copy of what    *)
(* the cache holds.                                                        *)
(***************************************************************************)
THEOREM DecodeMetaIsOfItsEvent == Spec => []MetaIsOfItsEvent
<1>1. ASSUME DecodeInv PROVE MetaIsOfItsEvent
  <2>1. FilesInv /\ TypeOK
    BY <1>1 DEF DecodeInv
  <2>2. Prefix(typed.file, Whole(typed))
    BY <2>1, WriterFacts DEF TypeOK
  <2>3. Fits(typed.file)
    BY <2>1, <2>2, PrefixKeeps DEF FilesInv
  <2> QED
    BY <2>3 DEF MetaIsOfItsEvent, Fits
<1> QED
  BY <1>1, DecodeInvariant, PTL
=============================================================================
