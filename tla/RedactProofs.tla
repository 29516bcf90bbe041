----------------------------- MODULE RedactProofs -----------------------------
(***************************************************************************)
(* That the redactor is right at any chunking, for any bytes, secrets and  *)
(* length of stream.  What carries it from one chunk to the next is that   *)
(* nothing can still come of a decided byte (Settled) and that cover knows *)
(* where the occurrences that began before buf end (Reach).                *)
(***************************************************************************)
EXTENDS Redact, TLAPS

Es == Entries(secrets)

\* buf is what is not decided of the stream.
IsTail(b, s) == done + Len(b) = Len(s) /\ \A i \in 1..Len(b) : b[i] = s[done + i]

\* No value can still be completed from a decided byte on.
Settled(s) == \A e \in Es, p \in 1..done : ~CouldFit(e.value, s, p)

\* The occurrences that begin before buf end where cover does, or earlier.
Reach ==
  /\ \A e \in Es, p \in 1..done :
       Fits(e.value, stream, p) => p + Len(e.value) <= done + cover + 1
  /\ cover > 0 => \E e \in Es, p \in 1..done :
       Fits(e.value, stream, p) /\ p + Len(e.value) = done + cover + 1

RedactInv ==
  /\ TypeOK
  /\ IsTail(buf, stream)
  /\ closed \/ Settled(stream)
  /\ Reach
  /\ OutputIsRedaction

-----------------------------------------------------------------------------
(* Values in sequences.                                                    *)

LEMMA EntriesType ==
  ASSUME TypeOK
  PROVE  \A e \in Es : e.name \in Nat /\ e.value \in Seq(Bytes) /\ Len(e.value) \in Nat \ {0}
<1>1. secrets \subseteq Secret
  BY RedactAssumption DEF TypeOK
<1>2. \A e \in Es : e \in Secret /\ Len(e.value) >= MinLen
  BY <1>1 DEF Es, Entries
<1>3. \A e \in Secret : e.name \in Nat /\ e.value \in Seq(Bytes) /\ Len(e.value) \in Nat
  BY DEF Secret
<1> QED
  BY <1>2, <1>3, RedactAssumption

\* A value fits in the rest of a sequence where it fits in the whole.
LEMMA FitsShift ==
  ASSUME NEW s \in Seq(Bytes), NEW b \in Seq(Bytes), NEW d \in Nat,
         d + Len(b) = Len(s), \A i \in 1..Len(b) : b[i] = s[d + i],
         NEW v \in Seq(Bytes), NEW i \in 1..Len(b)
  PROVE  /\ Fits(v, b, i) <=> Fits(v, s, d + i)
         /\ CouldFit(v, b, i) <=> CouldFit(v, s, d + i)
<1>0. Len(b) \in Nat /\ Len(s) \in Nat /\ Len(v) \in Nat
  OBVIOUS
<1>00. i \in Nat \ {0} /\ d \in Nat
  OBVIOUS
<1>1. \A k \in Nat \ {0} : i + k - 1 <= Len(b) => b[i + k - 1] = s[d + i + k - 1]
  <2> SUFFICES ASSUME NEW k \in Nat \ {0}, i + k - 1 <= Len(b)
               PROVE  b[i + k - 1] = s[d + i + k - 1]
    OBVIOUS
  <2>1. i + k - 1 \in 1..Len(b) /\ d + (i + k - 1) = d + i + k - 1
    BY <1>0
  <2> QED
    BY <2>1
<1>2. Fits(v, b, i) <=> Fits(v, s, d + i)
  <2>1. i + Len(v) <= Len(b) + 1 <=> d + i + Len(v) <= Len(s) + 1
    BY <1>0
  <2>2. ASSUME i + Len(v) <= Len(b) + 1, NEW k \in 1..Len(v)
        PROVE  b[i + k - 1] = s[d + i + k - 1]
    BY <2>2, <1>0, <1>1
  <2> QED
    BY <2>1, <2>2 DEF Fits
<1>3. CouldFit(v, b, i) <=> CouldFit(v, s, d + i)
  <2>1. i + Len(v) > Len(b) + 1 <=> d + i + Len(v) > Len(s) + 1
    BY <1>0
  <2>2. Len(b) + 1 - i = Len(s) + 1 - (d + i)
    <3>1. Len(s) = d + Len(b)
      OBVIOUS
    <3>2. \A x \in Nat : x + 1 - i = d + x + 1 - (d + i)
      BY <1>00
    <3> QED
      BY <3>1, <3>2, <1>0
  <2>3. ASSUME NEW k \in 1..(Len(b) + 1 - i)
        PROVE  b[i + k - 1] = s[d + i + k - 1]
    BY <1>0, <1>1
  <2> QED
    BY <2>1, <2>2, <2>3 DEF CouldFit
<1> QED
  BY <1>2, <1>3

\* What more input does to a value at a place.
LEMMA FitsGrows ==
  ASSUME NEW s \in Seq(Bytes), NEW p \in Seq(Bytes), NEW v \in Seq(Bytes),
         NEW i \in 1..Len(s)
  PROVE  /\ Fits(v, s, i) => Fits(v, s \o p, i)
         /\ Fits(v, s \o p, i) => Fits(v, s, i) \/ CouldFit(v, s, i)
         /\ CouldFit(v, s \o p, i) => CouldFit(v, s, i)
<1>0. Len(s) \in Nat /\ Len(p) \in Nat /\ Len(v) \in Nat /\ Len(s \o p) = Len(s) + Len(p)
  OBVIOUS
<1>1. \A k \in 1..Len(s) : (s \o p)[k] = s[k]
  OBVIOUS
<1>2. \A k \in Nat \ {0} : i + k - 1 <= Len(s) => (s \o p)[i + k - 1] = s[i + k - 1]
  BY <1>0, <1>1
<1>3. Fits(v, s, i) => Fits(v, s \o p, i)
  <2>1. ASSUME i + Len(v) <= Len(s) + 1, NEW k \in 1..Len(v)
        PROVE  (s \o p)[i + k - 1] = s[i + k - 1]
    BY <2>1, <1>0, <1>2
  <2> QED
    BY <2>1, <1>0 DEF Fits
<1>4. Fits(v, s \o p, i) => Fits(v, s, i) \/ CouldFit(v, s, i)
  <2>1. CASE i + Len(v) <= Len(s) + 1
    <3>1. ASSUME NEW k \in 1..Len(v) PROVE (s \o p)[i + k - 1] = s[i + k - 1]
      BY <2>1, <1>0, <1>2
    <3> QED
      BY <2>1, <3>1, <1>0 DEF Fits
  <2>2. CASE i + Len(v) > Len(s) + 1
    <3>1. ASSUME NEW k \in 1..(Len(s) + 1 - i)
          PROVE  (s \o p)[i + k - 1] = s[i + k - 1] /\ k \in 1..Len(v)
      BY <2>2, <1>0, <1>2
    <3> QED
      BY <2>2, <3>1, <1>0 DEF Fits, CouldFit
  <2> QED
    BY <2>1, <2>2, <1>0
<1>5. CouldFit(v, s \o p, i) => CouldFit(v, s, i)
  BY <1>0, <1>2 DEF CouldFit
<1> QED
  BY <1>3, <1>4, <1>5

-----------------------------------------------------------------------------
(* One flush.  The stream has grown by nothing that changes what fits at a *)
(* decided byte.                                                           *)

FlushStep(b, n, final) ==
  /\ b \in Seq(Bytes) /\ n \in 0..Len(b) /\ final \in BOOLEAN
  /\ stream' \in Seq(Bytes) /\ cover <= Len(b)
  /\ IsTail(b, stream')
  /\ \A e \in Es, p \in 1..done :
       Fits(e.value, stream', p) <=> Fits(e.value, stream, p)
  /\ final \/ Settled(stream')
  /\ Flush(b, n, final)
  /\ secrets' = secrets /\ closed' = final

LEMMA AtPlace ==
  ASSUME TypeOK, NEW b, NEW n, NEW final, FlushStep(b, n, final),
         NEW e \in Es, NEW i \in 1..Len(b)
  PROVE  /\ Fits(e.value, b, i) <=> Fits(e.value, stream', done + i)
         /\ CouldFit(e.value, b, i) <=> CouldFit(e.value, stream', done + i)
<1>1. e.value \in Seq(Bytes) /\ done \in Nat
  BY EntriesType DEF TypeOK
<1>2. b \in Seq(Bytes) /\ stream' \in Seq(Bytes) /\ IsTail(b, stream')
  BY DEF FlushStep
<1> QED
  BY <1>1, <1>2, FitsShift DEF IsTail

\* The places of the stream that are decided now: those from before, and
\* the first n of b.
LEMMA Places ==
  ASSUME TypeOK, NEW b, NEW n, NEW final, FlushStep(b, n, final)
  PROVE  /\ done' = done + n /\ n \in Nat /\ Len(b) \in Nat /\ done \in Nat
         /\ cover \in Nat /\ cover <= Len(b) /\ n <= Len(b)
         /\ Es' = Es
         /\ \A q \in 1..done' : q \in 1..done \/ \E i \in 1..n : q = done + i
         /\ \A q \in 1..done : q \in 1..done'
         /\ \A i \in 1..n : done + i \in 1..done' /\ i \in 1..Len(b)
<1>1. done' = done + n /\ n \in 0..Len(b) /\ cover <= Len(b) /\ b \in Seq(Bytes)
  BY DEF FlushStep, Flush
<1>2. Len(b) \in Nat
  BY <1>1
<1>3. done \in Nat /\ cover \in Nat
  <2>1. Len(buf) \in Nat
    BY DEF TypeOK
  <2> QED
    BY <2>1 DEF TypeOK
<1>4. Es' = Es
  BY DEF FlushStep, Es
<1>5. \A q \in 1..done' : q \in 1..done \/ \E i \in 1..n : q = done + i
  <2> SUFFICES ASSUME NEW q \in 1..done', q \notin 1..done
               PROVE  \E i \in 1..n : q = done + i
    OBVIOUS
  <2>1. q - done \in 1..n /\ q = done + (q - done)
    BY <1>1, <1>2, <1>3
  <2> QED
    BY <2>1
<1> QED
  BY <1>1, <1>2, <1>3, <1>4, <1>5

LEMMA TailKept ==
  ASSUME TypeOK, NEW b, NEW n, NEW final, FlushStep(b, n, final)
  PROVE  /\ IsTail(buf, stream)' /\ buf' \in Seq(Bytes) /\ Len(buf') = Len(b) - n
         /\ \A i \in 1..Len(buf') : buf'[i] = b[n + i]
<1>1. /\ b \in Seq(Bytes) /\ n \in 0..Len(b) /\ buf' = SubSeq(b, n + 1, Len(b))
      /\ done + Len(b) = Len(stream') /\ done' = done + n
      /\ \A i \in 1..Len(b) : b[i] = stream'[done + i]
  BY DEF FlushStep, Flush, IsTail
<1>2. Len(b) \in Nat /\ n \in Nat /\ n <= Len(b) /\ done \in Nat
  BY <1>1, Places
<1>3. Len(buf') = Len(b) - n /\ buf' \in Seq(Bytes)
  BY <1>1, <1>2
<1>4. \A i \in 1..Len(buf') : buf'[i] = b[n + i]
  BY <1>1, <1>2, <1>3
<1>5. \A i \in 1..Len(buf') : n + i \in 1..Len(b) /\ done + (n + i) = done' + i
  BY <1>1, <1>2, <1>3
<1>6. \A i \in 1..Len(buf') : buf'[i] = stream'[done' + i]
  <2> TAKE i \in 1..Len(buf')
  <2>1. b[n + i] = stream'[done + (n + i)]
    BY <1>1, <1>5
  <2> QED
    BY <2>1, <1>4, <1>5
<1>7. done' + Len(buf') = Len(stream')
  BY <1>1, <1>2, <1>3
<1> QED
  BY <1>3, <1>4, <1>6, <1>7 DEF IsTail

LEMMA SettledKept ==
  ASSUME TypeOK, NEW b, NEW n, NEW final, FlushStep(b, n, final)
  PROVE  closed' \/ Settled(stream)'
<1> SUFFICES ASSUME ~final, NEW e \in Es, NEW q \in 1..done'
             PROVE  ~CouldFit(e.value, stream', q)
  BY Places DEF FlushStep, Settled
<1>1. CASE q \in 1..done
  BY <1>1 DEF FlushStep, Settled
<1>2. CASE \E i \in 1..n : q = done + i
  <2> PICK i \in 1..n : q = done + i
    BY <1>2
  <2>1. ~Waits(b, i, final)
    BY DEF FlushStep, Flush
  <2>2. ~CouldFit(e.value, b, i)
    BY <2>1 DEF Waits, Es
  <2> QED
    BY <2>2, AtPlace, Places
<1> QED
  BY <1>1, <1>2, Places

LEMMA EndKept ==
  ASSUME TypeOK, NEW b, NEW n, NEW final, FlushStep(b, n, final)
  PROVE  closed' => done' = Len(stream')
<1>1. /\ n \in Nat /\ Len(b) \in Nat /\ n <= Len(b)
      /\ done + Len(b) = Len(stream') /\ done' = done + n /\ done \in Nat
  <2>1. done + Len(b) = Len(stream')
    BY DEF FlushStep, IsTail
  <2> QED
    BY <2>1, Places, TailKept
<1>2. n < Len(b) => Waits(b, n + 1, final)
  BY DEF FlushStep, Flush
<1>3. n < Len(b) => ~final
  BY <1>2 DEF Waits
<1>4. closed' => n = Len(b)
  BY <1>1, <1>3 DEF FlushStep
<1> QED
  BY <1>1, <1>4

\* What the loop has covered, as far as the flush goes.
LEMMA CoveredKept ==
  ASSUME TypeOK, NEW b, NEW n, NEW final, FlushStep(b, n, final)
  PROVE  \E c \in 0..Len(b) :
           /\ cover <= c /\ cover' = Carried(n, c)
           /\ \A i \in 1..n, e \in Es :
                Fits(e.value, b, i) => i + Len(e.value) <= c + 1
           /\ c = cover \/ \E i \in 1..n, e \in Es :
                Fits(e.value, b, i) /\ i + Len(e.value) = c + 1
<1>1. PICK c \in 0..Len(b) : CoveredTo(b, n, c) /\ cover' = Carried(n, c)
  BY DEF FlushStep, Flush
<1>2. n \in Nat /\ Len(b) \in Nat /\ c \in Nat
  BY Places
<1>3. ASSUME NEW i \in 1..n, NEW e \in Es, Fits(e.value, b, i)
      PROVE  i + Len(e.value) <= c + 1
  <2>1. <<i, e>> \in (1..n) \X Entries(secrets)
    BY DEF Es
  <2>2. i + Len(e.value) - 1 \in Ends(b, n)
    BY <2>1, <1>3 DEF Ends
  <2>3. i + Len(e.value) - 1 <= c
    BY <2>2, <1>1 DEF CoveredTo
  <2> QED
    BY <2>3, <1>2, EntriesType
<1>4. ASSUME c \in Ends(b, n)
      PROVE  \E i \in 1..n, e \in Es : Fits(e.value, b, i) /\ i + Len(e.value) = c + 1
  <2>1. PICK m \in (1..n) \X Entries(secrets) :
          Fits(m[2].value, b, m[1]) /\ c = m[1] + Len(m[2].value) - 1
    BY <1>4 DEF Ends
  <2>2. m[1] \in 1..n /\ m[2] \in Es
    BY DEF Es
  <2>3. m[1] + Len(m[2].value) = c + 1
    BY <2>1, <2>2, <1>2, EntriesType
  <2> QED
    BY <2>1, <2>2, <2>3
<1>5. cover <= c /\ (c = cover \/ c \in Ends(b, n))
  BY <1>1 DEF CoveredTo
<1> QED
  BY <1>1, <1>3, <1>4, <1>5

LEMMA ReachKept ==
  ASSUME TypeOK, Reach, NEW b, NEW n, NEW final, FlushStep(b, n, final)
  PROVE  Reach' /\ cover' \in 0..Len(buf')
<1>1. PICK c \in 0..Len(b) :
        /\ cover <= c /\ cover' = Carried(n, c)
        /\ \A i \in 1..n, e \in Es :
             Fits(e.value, b, i) => i + Len(e.value) <= c + 1
        /\ c = cover \/ \E i \in 1..n, e \in Es :
             Fits(e.value, b, i) /\ i + Len(e.value) = c + 1
  BY CoveredKept
<1>2. /\ done' = done + n /\ n \in Nat /\ Len(b) \in Nat /\ done \in Nat /\ c \in Nat
      /\ cover \in Nat /\ n <= Len(b) /\ c <= Len(b) /\ Len(buf') = Len(b) - n
  BY Places, TailKept
<1>3. /\ done + n \in Nat /\ Carried(n, c) \in 0..(Len(b) - n)
      /\ \A q \in Nat, x \in Nat :
           q + x <= done + cover + 1 => q + x <= done + n + Carried(n, c) + 1
      /\ \A i \in Nat, x \in Nat :
           i + x <= c + 1 => done + i + x <= done + n + Carried(n, c) + 1
      /\ Carried(n, c) > 0 => c > n /\ done + n + Carried(n, c) = done + c
  <2>1. cover <= c
    BY <1>1
  <2>2. /\ n \in Nat /\ Len(b) \in Nat /\ done \in Nat /\ c \in Nat
        /\ cover \in Nat /\ n <= Len(b) /\ c <= Len(b)
    BY <1>2
  <2> QED
    BY <2>1, <2>2 DEF Carried
<1>4. /\ done' \in Nat /\ cover' \in 0..(Len(b) - n)
      /\ \A q \in Nat, x \in Nat : q + x <= done + cover + 1 => q + x <= done' + cover' + 1
      /\ \A i \in Nat, x \in Nat : i + x <= c + 1 => done + i + x <= done' + cover' + 1
      /\ cover' > 0 => c > n /\ done' + cover' = done + c
  <2>1. done' = done + n /\ cover' = Carried(n, c)
    BY <1>1, <1>2
  <2> QED
    BY <2>1, <1>3, Zenon
<1>5. ASSUME NEW e \in Es, NEW q \in 1..done', Fits(e.value, stream', q)
      PROVE  q + Len(e.value) <= done' + cover' + 1
  <2>1. Len(e.value) \in Nat
    BY EntriesType
  <2>2. CASE q \in 1..done
    <3>1. Fits(e.value, stream, q)
      BY <1>5, <2>2 DEF FlushStep
    <3>2. q + Len(e.value) <= done + cover + 1
      BY <3>1, <2>2 DEF Reach
    <3>3. q \in Nat
      BY <2>2
    <3> QED
      BY <3>2, <3>3, <2>1, <1>4, Zenon
  <2>3. CASE \E i \in 1..n : q = done + i
    <3> PICK i \in 1..n : q = done + i
      BY <2>3
    <3>1. Fits(e.value, b, i)
      BY <1>5, AtPlace, Places
    <3>2. i + Len(e.value) <= c + 1
      BY <3>1, <1>1
    <3>3. i \in Nat
      OBVIOUS
    <3>4. done + i + Len(e.value) <= done' + cover' + 1
      BY <3>2, <3>3, <2>1, <1>4, Zenon
    <3> QED
      BY <3>4
  <2> QED
    BY <2>2, <2>3, Places
<1>6. ASSUME cover' > 0
      PROVE  \E e \in Es, q \in 1..done' :
               Fits(e.value, stream', q) /\ q + Len(e.value) = done' + cover' + 1
  <2>1. c > n /\ done' + cover' = done + c
    BY <1>4, <1>6, Zenon
  <2>2. CASE c = cover
    <3>1. PICK e \in Es, q \in 1..done :
            Fits(e.value, stream, q) /\ q + Len(e.value) = done + cover + 1
      BY <2>1, <2>2, <1>2 DEF Reach
    <3>2. Fits(e.value, stream', q)
      BY <3>1 DEF FlushStep
    <3>3. q \in 1..done'
      BY Places
    <3>4. q + Len(e.value) = done' + cover' + 1
      BY <3>1, <2>1, <2>2, Zenon
    <3> QED
      BY <3>2, <3>3, <3>4
  <2>3. CASE \E i \in 1..n, e \in Es :
               Fits(e.value, b, i) /\ i + Len(e.value) = c + 1
    <3>1. PICK i \in 1..n, e \in Es :
            Fits(e.value, b, i) /\ i + Len(e.value) = c + 1
      BY <2>3
    <3>2. done + i \in 1..done' /\ i \in 1..Len(b)
      BY Places
    <3>3. Fits(e.value, stream', done + i)
      BY <3>1, <3>2, AtPlace
    <3>4. done + i + Len(e.value) = done + c + 1
      <4>1. \A j \in Nat, x \in Nat : j + x = c + 1 => done + j + x = done + c + 1
        BY <1>2
      <4>2. i \in Nat /\ Len(e.value) \in Nat
        BY EntriesType
      <4> QED
        BY <4>1, <4>2, <3>1, Zenon
    <3>5. done + i + Len(e.value) = done' + cover' + 1
      BY <3>4, <2>1, Zenon
    <3> QED
      BY <3>2, <3>3, <3>5
  <2> QED
    BY <2>2, <2>3, <1>1
<1>7. cover' \in 0..Len(buf')
  BY <1>4, <1>2, Zenon
<1>8. cover' > 0 => \E e \in Es, q \in 1..done' :
         Fits(e.value, stream', q) /\ q + Len(e.value) = done' + cover' + 1
  BY <1>6, Zenon
<1> QED
  BY <1>7, <1>5, <1>8, Places, Zenon DEF Reach

\* The byte at q is in an occurrence that began before it.
InRun(s, q) ==
  \E e \in Es, p \in 1..(q - 1) : Fits(e.value, s, p) /\ q < p + Len(e.value)

\* Covered is just that, for the bytes being decided.
LEMMA CoveredMeans ==
  ASSUME TypeOK, Reach, NEW b, NEW n, NEW final, FlushStep(b, n, final),
         NEW i \in 1..n
  PROVE  Covered(b, i) <=> InRun(stream', done + i)
<1>1. /\ n \in Nat /\ Len(b) \in Nat /\ done \in Nat /\ cover \in Nat /\ n <= Len(b)
      /\ i \in Nat
  BY Places
<1>2. \A e \in Es : Len(e.value) \in Nat
  BY EntriesType
<1>3. \A j \in 1..n, e \in Es : Fits(e.value, b, j) <=> Fits(e.value, stream', done + j)
  BY AtPlace, <1>1
<1>4. \A e \in Es, p \in 1..done : Fits(e.value, stream', p) <=> Fits(e.value, stream, p)
  BY DEF FlushStep
<1>5. ASSUME i <= cover
      PROVE  \E e \in Es, p \in 1..((done + i) - 1) :
               Fits(e.value, stream', p) /\ done + i < p + Len(e.value)
  <2>1. PICK e \in Es, p \in 1..done :
          Fits(e.value, stream, p) /\ p + Len(e.value) = done + cover + 1
    BY <1>1, <1>5 DEF Reach
  <2>2. p \in 1..((done + i) - 1) /\ done + i < p + Len(e.value)
    BY <1>1, <1>5, <2>1
  <2> QED
    BY <1>4, <2>1, <2>2
<1>6. ASSUME NEW c \in Ends(b, i - 1), i <= c
      PROVE  \E e \in Es, p \in 1..((done + i) - 1) :
               Fits(e.value, stream', p) /\ done + i < p + Len(e.value)
  <2>1. PICK m \in (1..(i - 1)) \X Entries(secrets) :
          Fits(m[2].value, b, m[1]) /\ c = m[1] + Len(m[2].value) - 1
    BY DEF Ends
  <2>2. m[1] \in 1..(i - 1) /\ m[2] \in Es
    BY DEF Es
  <2>3. m[1] \in 1..n
    BY <2>2, <1>1
  <2>4. Fits(m[2].value, stream', done + m[1])
    BY <2>1, <2>2, <2>3, <1>3
  <2>5. done + m[1] \in 1..((done + i) - 1)
    BY <2>2, <1>1
  <2>6. done + i < done + m[1] + Len(m[2].value)
    BY <2>1, <2>2, <1>1, <1>2, <1>6
  <2> QED
    BY <2>2, <2>4, <2>5, <2>6
<1>7. ASSUME NEW e \in Es, NEW p \in 1..((done + i) - 1),
             Fits(e.value, stream', p), done + i < p + Len(e.value)
      PROVE  Covered(b, i)
  <2>1. CASE p \in 1..done
    <3>1. p + Len(e.value) <= done + cover + 1
      BY <1>4, <1>7, <2>1 DEF Reach
    <3>2. i <= cover
      BY <3>1, <1>1, <1>2, <1>7
    <3> QED
      BY <3>2 DEF Covered
  <2>2. CASE p \notin 1..done
    <3>1. p - done \in 1..(i - 1) /\ p - done \in 1..n /\ done + (p - done) = p
      BY <1>1, <2>2
    <3>2. Fits(e.value, b, p - done)
      BY <1>3, <1>7, <3>1
    <3>3. <<p - done, e>> \in (1..(i - 1)) \X Entries(secrets)
      BY <3>1 DEF Es
    <3>4. (p - done) + Len(e.value) - 1 \in Ends(b, i - 1)
      BY <3>2, <3>3 DEF Ends
    <3>5. i <= (p - done) + Len(e.value) - 1
      BY <1>1, <1>2, <1>7
    <3> QED
      BY <3>4, <3>5 DEF Covered
  <2> QED
    BY <2>1, <2>2
<1>8. InRun(stream', done + i) => Covered(b, i)
  BY <1>7, Zenon DEF InRun
<1>9. Covered(b, i) => InRun(stream', done + i)
  BY <1>5, <1>6, Zenon DEF Covered, InRun
<1> QED
  BY <1>8, <1>9

LEMMA ShownKept ==
  ASSUME RedactInv, NEW b, NEW n, NEW final, FlushStep(b, n, final)
  PROVE  /\ shown' \subseteq 1..done'
         /\ \A q \in 1..done' :
              q \in shown' <=> \A e \in Es, p \in 1..q : ~Hides(e, p, q)'
<1>1. /\ n \in Nat /\ Len(b) \in Nat /\ done \in Nat /\ n <= Len(b)
  BY Places DEF RedactInv
<1>2. \A e \in Es : Len(e.value) \in Nat \ {0}
  BY EntriesType DEF RedactInv
<1>3. shown' = shown \cup
       {done + i : i \in {j \in 1..n : Matches(b, j) = {} /\ ~Covered(b, j)}}
  BY DEF FlushStep, Flush
<1>4. shown \subseteq 1..done
  BY DEF RedactInv, TypeOK
<1>5. \A q \in 1..done : q \in shown' <=> q \in shown
  BY <1>1, <1>3
<1>6. \A i \in 1..n : done + i \in shown' <=> Matches(b, i) = {} /\ ~Covered(b, i)
  <2> TAKE i \in 1..n
  <2>1. done + i \notin shown
    BY <1>1, <1>4
  <2>2. \A j \in 1..n : done + i = done + j => i = j
    BY <1>1
  <2> QED
    BY <1>3, <2>1, <2>2
<1>7. ASSUME NEW q \in 1..done
      PROVE  q \in shown' <=> \A e \in Es, p \in 1..q : ~Hides(e, p, q)'
  <2>1. \A e \in Es, p \in 1..q :
          Fits(e.value, stream', p) <=> Fits(e.value, stream, p)
    <3>1. \A p \in 1..q : p \in 1..done
      BY <1>1
    <3> QED
      BY <3>1 DEF FlushStep
  <2>2. \A e \in Es, p \in 1..q : Hides(e, p, q)' <=> Hides(e, p, q)
    BY <2>1 DEF Hides
  <2>3. q \in shown <=> \A e \in Es, p \in 1..q : ~Hides(e, p, q)
    BY DEF RedactInv, OutputIsRedaction, Es
  <2> QED
    BY <1>5, <2>2, <2>3
<1>8. ASSUME NEW i \in 1..n, NEW q, q = done + i
      PROVE  q \in shown' <=> \A e \in Es, p \in 1..q : ~Hides(e, p, q)'
  <2>0. i \in Nat /\ q \in Nat
    BY <1>1, <1>8
  <2>1. Covered(b, i) <=> InRun(stream', q)
    <3>1. Covered(b, i) <=> InRun(stream', done + i)
      <4>1. TypeOK /\ Reach
        BY DEF RedactInv
      <4> QED
        BY <4>1, CoveredMeans, Zenon
    <3> QED
      BY <3>1, <1>8, Zenon
  <2>2. \A e \in Es : Fits(e.value, b, i) <=> Fits(e.value, stream', q)
    BY AtPlace, Places, <1>8 DEF RedactInv
  <2>3. Matches(b, i) # {} <=> \E e \in Es : Fits(e.value, stream', q)
    BY <2>2 DEF Matches, Es
  <2>4. \A p \in 1..(q - 1) : p \in 1..q /\ p <= q
    BY <2>0
  <2>5. \A p \in 1..q : p \in 1..(q - 1) \/ p = q
    BY <2>0
  <2>6. q \in 1..q /\ q <= q
    BY <2>0, <1>8, <1>1
  <2>7. \A e \in Es : q < q + Len(e.value)
    BY <2>0, <1>2
  <2>8. q \in shown' <=> Matches(b, i) = {} /\ ~Covered(b, i)
    BY <1>6, <1>8
  <2> QED
    BY <2>8, <2>1, <2>3, <2>4, <2>5, <2>6, <2>7, Zenon DEF Hides, InRun
<1>9. shown' \subseteq 1..done'
  <2>1. \A i \in 1..n : done + i \in 1..done'
    BY Places DEF RedactInv
  <2>2. \A q \in 1..done : q \in 1..done'
    BY Places DEF RedactInv
  <2> QED
    BY <1>3, <1>4, <2>1, <2>2, Zenon
<1>10. \A q \in 1..done' : q \in 1..done \/ \E i \in 1..n : q = done + i
  BY Places DEF RedactInv
<1> QED
  BY <1>7, <1>8, <1>9, <1>10, Zenon

LEMMA MarksKept ==
  ASSUME RedactInv, NEW b, NEW n, NEW final, FlushStep(b, n, final)
  PROVE  /\ marks' \subseteq [at : 1..done', name : Nat]
         /\ \A q \in 1..done', e \in Es :
              [at |-> q, name |-> e.name] \in marks' <=>
                /\ \E f \in Longest(Matches(stream, q))' : f.name = e.name
                /\ \A f \in Es, p \in 1..(q - 1) : ~Hides(f, p, q)'
<1>1. /\ n \in Nat /\ Len(b) \in Nat /\ done \in Nat /\ n <= Len(b)
  BY Places DEF RedactInv
<1>2. \A e \in Es : e.name \in Nat /\ Len(e.value) \in Nat
  BY EntriesType DEF RedactInv
<1> DEFINE New == {m \in (1..n) \X Entries(secrets) :
                     m[2] \in Longest(Matches(b, m[1])) /\ ~Covered(b, m[1])}
<1>3. marks' = marks \cup {[at |-> done + m[1], name |-> m[2].name] : m \in New}
  BY DEF FlushStep, Flush
<1>30. \A m \in New : m[1] \in 1..n /\ m[2] \in Es
  BY DEF Es
<1> HIDE DEF New
<1>4. marks \subseteq [at : 1..done, name : Nat]
  BY DEF RedactInv, TypeOK
<1>6. ASSUME NEW q
      PROVE  Matches(stream, q)' = {e \in Es : Fits(e.value, stream', q)}
  BY Places DEF Matches, Es, RedactInv
<1>7. \A q \in 1..done : \A x : [at |-> q, name |-> x] \in marks' <=> [at |-> q, name |-> x] \in marks
  <2> TAKE q \in 1..done
  <2> TAKE x
  <2>1. \A m \in New : done + m[1] # q
    BY <1>1, <1>30
  <2> QED
    BY <1>3, <2>1
<1>8. ASSUME NEW q \in 1..done, NEW e \in Es
      PROVE  [at |-> q, name |-> e.name] \in marks' <=>
                /\ \E f \in Longest(Matches(stream, q))' : f.name = e.name
                /\ \A f \in Es, p \in 1..(q - 1) : ~Hides(f, p, q)'
  <2>1. \A f \in Es : Fits(f.value, stream', q) <=> Fits(f.value, stream, q)
    BY DEF FlushStep
  <2>2. Matches(stream, q)' = Matches(stream, q)
    BY <1>6, <2>1 DEF Matches, Es
  <2>3. Longest(Matches(stream, q))' = Longest(Matches(stream, q))
    BY <2>2 DEF Longest
  <2>4. \A f \in Es, p \in 1..(q - 1) : Hides(f, p, q)' <=> Hides(f, p, q)
    <3>1. \A p \in 1..(q - 1) : p \in 1..done
      BY <1>1
    <3>2. \A f \in Es, p \in 1..(q - 1) : Fits(f.value, stream', p) <=> Fits(f.value, stream, p)
      BY <3>1 DEF FlushStep
    <3> QED
      BY <3>2, Zenon DEF Hides
  <2>5. [at |-> q, name |-> e.name] \in marks <=>
                /\ \E f \in Longest(Matches(stream, q)) : f.name = e.name
                /\ \A f \in Es, p \in 1..(q - 1) : ~Hides(f, p, q)
    BY DEF RedactInv, OutputIsRedaction, Es
  <2> QED
    BY <1>7, <2>3, <2>4, <2>5, Zenon
<1>9. ASSUME NEW i \in 1..n, NEW q, q = done + i, NEW e \in Es
      PROVE  [at |-> q, name |-> e.name] \in marks' <=>
                /\ \E f \in Longest(Matches(stream, q))' : f.name = e.name
                /\ \A f \in Es, p \in 1..(q - 1) : ~Hides(f, p, q)'
  <2>0. i \in Nat /\ q \in Nat
    BY <1>1, <1>9
  <2>1. Covered(b, i) <=> InRun(stream', q)
    <3>1. Covered(b, i) <=> InRun(stream', done + i)
      <4>1. TypeOK /\ Reach
        BY DEF RedactInv
      <4> QED
        BY <4>1, CoveredMeans, Zenon
    <3> QED
      BY <3>1, <1>9, Zenon
  <2>2. \A f \in Es : Fits(f.value, b, i) <=> Fits(f.value, stream', q)
    BY AtPlace, Places, <1>9 DEF RedactInv
  <2>3. Matches(b, i) = Matches(stream, q)'
    BY <1>6, <2>2 DEF Matches, Es
  <2>4. Longest(Matches(stream, q))' = Longest(Matches(b, i))
    BY <2>3 DEF Longest
  <2>5. \A p \in 1..(q - 1) : p <= q
    BY <2>0
  <2>6. (\A f \in Es, p \in 1..(q - 1) : ~Hides(f, p, q)') <=> ~Covered(b, i)
    BY <2>1, <2>5, Zenon DEF Hides, InRun
  <2>7. [at |-> q, name |-> e.name] \notin marks
    BY <1>1, <1>4, <1>9, <2>0
  <2>8. [at |-> q, name |-> e.name] \in marks' <=>
          \E m \in New : done + m[1] = q /\ m[2].name = e.name
    BY <1>3, <2>7
  <2>9. \A m \in New : done + m[1] = q => m[1] = i
    BY <1>1, <1>9, <1>30
  <2>10. (\E m \in New : done + m[1] = q /\ m[2].name = e.name) <=>
           /\ \E f \in Longest(Matches(b, i)) : f.name = e.name
           /\ ~Covered(b, i)
    <3>1. ASSUME NEW m \in New, done + m[1] = q, m[2].name = e.name
          PROVE  /\ \E f \in Longest(Matches(b, i)) : f.name = e.name
                 /\ ~Covered(b, i)
      BY <3>1, <2>9 DEF New
    <3>2. ASSUME NEW f \in Longest(Matches(b, i)), f.name = e.name, ~Covered(b, i)
          PROVE  \E m \in New : done + m[1] = q /\ m[2].name = e.name
      <4>1. f \in Entries(secrets)
        BY DEF Longest, Matches
      <4>2. <<i, f>> \in New
        BY <3>2, <4>1 DEF New
      <4> QED
        BY <4>2, <3>2, <1>9
    <3> QED
      BY <3>1, <3>2
  <2> QED
    BY <2>4, <2>6, <2>8, <2>10, Zenon
<1>10. marks' \subseteq [at : 1..done', name : Nat]
  <2>1. \A m \in New : done + m[1] \in 1..done' /\ m[2].name \in Nat
    BY <1>30, <1>2, Places DEF RedactInv
  <2>2. \A q \in 1..done : q \in 1..done'
    BY Places DEF RedactInv
  <2>3. \A m \in marks : m \in [at : 1..done', name : Nat]
    BY <1>4, <2>2
  <2>4. \A m \in New : [at |-> done + m[1], name |-> m[2].name] \in [at : 1..done', name : Nat]
    BY <2>1
  <2> QED
    BY <1>3, <2>3, <2>4, Zenon
<1>11. \A q \in 1..done' : q \in 1..done \/ \E i \in 1..n : q = done + i
  BY Places DEF RedactInv
<1> QED
  BY <1>8, <1>9, <1>10, <1>11, Zenon

LEMMA FlushKept ==
  ASSUME RedactInv, NEW b, NEW n, NEW final, FlushStep(b, n, final)
  PROVE  RedactInv'
<1>0. TypeOK /\ Reach
  BY DEF RedactInv
<1>1. /\ IsTail(buf, stream)' /\ buf' \in Seq(Bytes) /\ (closed' \/ Settled(stream)')
      /\ (closed' => done' = Len(stream'))
      /\ Reach' /\ cover' \in 0..Len(buf')
  BY <1>0, TailKept, SettledKept, EndKept, ReachKept, Zenon
<1>2. secrets' = secrets /\ stream' \in Seq(Bytes) /\ closed' \in BOOLEAN
  BY DEF FlushStep
<1>3. done' \in Nat
  BY <1>0, Places
<1>4. shown' \subseteq 1..done' /\ marks' \subseteq [at : 1..done', name : Nat]
  BY ShownKept, MarksKept
<1>5. TypeOK'
  BY <1>0, <1>1, <1>2, <1>3, <1>4, Zenon DEF TypeOK
<1>6. OutputIsRedaction'
  <2>1. Es' = Entries(secrets)' /\ Es' = Es
    BY <1>2 DEF Es
  <2>2. shown' = {q \in 1..done' : \A e \in Es, p \in 1..q : ~Hides(e, p, q)'}
    BY ShownKept
  <2>3. \A q \in 1..done', e \in Es :
              [at |-> q, name |-> e.name] \in marks' <=>
                /\ \E f \in Longest(Matches(stream, q))' : f.name = e.name
                /\ \A f \in Es, p \in 1..(q - 1) : ~Hides(f, p, q)'
    BY MarksKept
  <2> HIDE DEF Es
  <2> QED
    BY <2>1, <2>2, <2>3, <1>1, Zenon DEF OutputIsRedaction
<1> QED
  BY <1>1, <1>5, <1>6, Zenon DEF RedactInv

-----------------------------------------------------------------------------
(* The steps.                                                              *)

LEMMA InitHolds == Init => RedactInv
<1> SUFFICES ASSUME Init PROVE RedactInv
  OBVIOUS
<1>1. /\ secrets \in SecretSets /\ buf = <<>> /\ cover = 0 /\ closed = FALSE
      /\ stream = <<>> /\ done = 0 /\ shown = {} /\ marks = {}
  BY DEF Init
<1>2. 1..done = {}
  BY <1>1
<1>3. TypeOK
  <2>1. <<>> \in Seq(Bytes) /\ Len(<<>>) = 0 /\ 0 \in Nat /\ 0 \in 0..0
    OBVIOUS
  <2>2. cover \in 0..Len(buf) /\ buf \in Seq(Bytes) /\ stream \in Seq(Bytes)
    BY <1>1, <2>1, Zenon
  <2>3. shown \subseteq 1..done /\ marks \subseteq [at : 1..done, name : Nat]
    BY <1>1, Zenon
  <2> QED
    BY <1>1, <2>1, <2>2, <2>3, Zenon DEF TypeOK
<1>4. IsTail(buf, stream) /\ Settled(stream)
  BY <1>1, <1>2 DEF IsTail, Settled
<1>5. Reach
  BY <1>1, <1>2 DEF Reach
<1>6. OutputIsRedaction
  BY <1>1, <1>2 DEF OutputIsRedaction
<1> QED
  BY <1>3, <1>4, <1>5, <1>6 DEF RedactInv

LEMMA WriteFlushes ==
  ASSUME RedactInv, NEW p \in Seq(Bytes), Write(p)
  PROVE  \E n \in 0..Len(buf \o p) : FlushStep(buf \o p, n, FALSE)
<1>1. /\ ~closed /\ stream' = stream \o p /\ secrets' = secrets /\ closed' = closed
      /\ \E n \in 0..Len(buf \o p) : Flush(buf \o p, n, FALSE)
  BY DEF Write
<1>2. /\ buf \in Seq(Bytes) /\ stream \in Seq(Bytes) /\ closed \in BOOLEAN /\ done \in Nat
      /\ cover \in 0..Len(buf)
  BY DEF RedactInv, TypeOK
<1>3. /\ done + Len(buf) = Len(stream) /\ \A i \in 1..Len(buf) : buf[i] = stream[done + i]
      /\ Settled(stream)
  BY <1>1 DEF RedactInv, IsTail
<1>4. /\ Len(buf) \in Nat /\ Len(stream) \in Nat /\ Len(p) \in Nat
      /\ Len(buf \o p) = Len(buf) + Len(p) /\ Len(stream \o p) = Len(stream) + Len(p)
      /\ buf \o p \in Seq(Bytes) /\ stream \o p \in Seq(Bytes)
  BY <1>2
<1>5. IsTail(buf \o p, stream \o p)
  <2>1. done + Len(buf \o p) = Len(stream \o p)
    BY <1>2, <1>3, <1>4
  <2>2. ASSUME NEW i \in 1..Len(buf \o p)
        PROVE  (buf \o p)[i] = (stream \o p)[done + i]
    <3>00. /\ done + Len(buf) = Len(stream) /\ done \in Nat
           /\ Len(buf) \in Nat /\ Len(p) \in Nat /\ Len(stream) \in Nat
      BY <1>2, <1>3, <1>4
    <3>0. i \in Nat \ {0} /\ i <= Len(buf) + Len(p)
      BY <1>4
    <3>1. CASE i <= Len(buf)
      <4>1. i \in 1..Len(buf) /\ done + i \in 1..Len(stream)
        BY <1>2, <1>3, <1>4, <3>1
      <4> QED
        BY <4>1, <1>2, <1>3
    <3>2. CASE i > Len(buf)
      <4>1. /\ i \in (Len(buf) + 1)..(Len(buf) + Len(p))
            /\ done + i \in (Len(stream) + 1)..(Len(stream) + Len(p))
            /\ i - Len(buf) = (done + i) - Len(stream)
        BY <3>00, <3>0, <3>2
      <4>2. (buf \o p)[i] = p[i - Len(buf)]
        BY <4>1, <1>2, <1>4
      <4>3. (stream \o p)[done + i] = p[(done + i) - Len(stream)]
        BY <4>1, <1>2, <1>4
      <4> QED
        BY <4>1, <4>2, <4>3
    <3> QED
      BY <3>00, <3>0, <3>1, <3>2
  <2> QED
    BY <2>1, <2>2 DEF IsTail
<1>6. ASSUME NEW e \in Es, NEW q \in 1..done
      PROVE  /\ Fits(e.value, stream \o p, q) <=> Fits(e.value, stream, q)
             /\ ~CouldFit(e.value, stream \o p, q)
  <2>1. e.value \in Seq(Bytes)
    BY EntriesType DEF RedactInv
  <2>2. q \in 1..Len(stream)
    BY <1>2, <1>3, <1>4
  <2>3. ~CouldFit(e.value, stream, q)
    BY <1>3 DEF Settled
  <2> QED
    BY <2>1, <2>2, <2>3, <1>2, FitsGrows, Zenon
<1>7. PICK n \in 0..Len(buf \o p) : Flush(buf \o p, n, FALSE)
  BY <1>1
<1>8. Settled(stream')
  BY <1>1, <1>6 DEF Settled
<1>9. \A e \in Es, q \in 1..done : Fits(e.value, stream', q) <=> Fits(e.value, stream, q)
  BY <1>1, <1>6
<1>10. cover <= Len(buf \o p)
  BY <1>2, <1>4
<1>11. FlushStep(buf \o p, n, FALSE)
  <2>1. closed' = FALSE
    BY <1>1, <1>2
  <2>2. IsTail(buf \o p, stream') /\ stream' \in Seq(Bytes)
    BY <1>1, <1>4, <1>5
  <2> QED
    BY <2>1, <2>2, <1>1, <1>4, <1>7, <1>8, <1>9, <1>10 DEF FlushStep
<1> QED
  BY <1>11

LEMMA CloseFlushes ==
  ASSUME RedactInv, Close
  PROVE  \E n \in 0..Len(buf) : FlushStep(buf, n, TRUE)
<1>1. PICK n \in 0..Len(buf) : Flush(buf, n, TRUE)
  BY DEF Close
<1>2. stream' = stream /\ secrets' = secrets /\ closed' = TRUE
  BY DEF Close
<1>3. buf \in Seq(Bytes) /\ stream \in Seq(Bytes) /\ IsTail(buf, stream)
  BY DEF RedactInv, TypeOK
<1>4. cover <= Len(buf)
  <2>1. Len(buf) \in Nat /\ cover \in 0..Len(buf)
    BY <1>3 DEF RedactInv, TypeOK
  <2> QED
    BY <2>1
<1>5. FlushStep(buf, n, TRUE)
  BY <1>1, <1>2, <1>3, <1>4 DEF FlushStep
<1> QED
  BY <1>5

LEMMA NextHolds == RedactInv /\ [Next]_vars => RedactInv'
<1> SUFFICES ASSUME RedactInv, [Next]_vars PROVE RedactInv'
  OBVIOUS
<1>1. ASSUME NEW l \in 1..(MaxStream - Len(stream)), NEW p \in [1..l -> Bytes], Write(p)
      PROVE  RedactInv'
  <2>1. p \in Seq(Bytes)
    <3>1. Len(stream) \in Nat
      BY DEF RedactInv, TypeOK
    <3>2. l \in Nat
      BY <3>1, RedactAssumption
    <3> QED
      BY <3>2
  <2> QED
    BY <2>1, <1>1, WriteFlushes, FlushKept, Zenon
<1>2. CASE Close
  BY <1>2, CloseFlushes, FlushKept, Zenon
<1>3. CASE UNCHANGED vars
  <2>1. /\ secrets' = secrets /\ buf' = buf /\ cover' = cover /\ closed' = closed
        /\ stream' = stream /\ done' = done /\ shown' = shown /\ marks' = marks
    BY <1>3 DEF vars
  <2>2. Es' = Es /\ Entries(secrets)' = Entries(secrets)
    BY <2>1 DEF Es
  <2>3. TypeOK'
    BY <2>1 DEF RedactInv, TypeOK
  <2>4. IsTail(buf, stream)' /\ (closed \/ Settled(stream))'
    BY <2>1, <2>2 DEF RedactInv, IsTail, Settled
  <2>5. Reach'
    BY <2>1, <2>2 DEF RedactInv, Reach
  <2>6. OutputIsRedaction'
    BY <2>1, <2>2 DEF RedactInv, OutputIsRedaction, Hides, Longest, Matches
  <2> QED
    BY <2>3, <2>4, <2>5, <2>6 DEF RedactInv
<1> QED
  BY <1>1, <1>2, <1>3 DEF Next

LEMMA InvHolds == Spec => []RedactInv
<1> QED
  BY InitHolds, NextHolds, PTL DEF Spec

\* The redactor's state is well formed: cover stays within buf, the markers
\* and the bytes written lie in what is decided.
THEOREM TypeCorrect == Spec => []TypeOK
<1>1. RedactInv => TypeOK
  BY DEF RedactInv
<1> QED
  BY <1>1, InvHolds, PTL

\* However the command's output is cut into writes, what has left the
\* redactor is the redaction of the whole stream: no byte of any occurrence
\* of a value, every other byte, and one marker for each run (Writer).
THEOREM RedactionCorrect == Spec => []OutputIsRedaction
<1>1. RedactInv => OutputIsRedaction
  BY DEF RedactInv
<1> QED
  BY <1>1, InvHolds, PTL
=============================================================================
