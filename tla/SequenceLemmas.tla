---------------------------- MODULE SequenceLemmas ----------------------------
(***************************************************************************)
(* What an element's removal from, or addition to, a sequence without      *)
(* repetitions does to its elements: the lock's queue of AuthGate and the  *)
(* objects of a bucket of Backups are such sequences.                      *)
(***************************************************************************)
EXTENDS Integers, SequencesExt, SequenceTheorems, TLAPS

(* Behind the place of the removed element, the others move up by one.     *)
LEMMA RemoveAtRows ==
    ASSUME NEW S, NEW seq \in Seq(S), NEW i \in 1 .. Len(seq)
    PROVE  /\ RemoveAt(seq, i) \in Seq(S)
           /\ Len(RemoveAt(seq, i)) = Len(seq) - 1
           /\ \A j \in 1 .. Len(seq) - 1 :
                RemoveAt(seq, i)[j] = IF j < i THEN seq[j] ELSE seq[j + 1]
  <1> DEFINE front == SubSeq(seq, 1, i - 1)
             back == SubSeq(seq, i + 1, Len(seq))
  <1>1. /\ front \in Seq(S) /\ Len(front) = i - 1
        /\ \A j \in 1 .. i - 1 : front[j] = seq[j]
    OBVIOUS
  <1>2. /\ back \in Seq(S) /\ Len(back) = Len(seq) - i
        /\ \A j \in 1 .. Len(seq) - i : back[j] = seq[i + j]
    OBVIOUS
  <1> HIDE DEF front, back
  <1>3. /\ front \o back \in Seq(S)
        /\ Len(front \o back) = Len(front) + Len(back)
        /\ \A j \in 1 .. Len(front) + Len(back) :
             (front \o back)[j] =
               IF j <= Len(front) THEN front[j] ELSE back[j - Len(front)]
    BY <1>1, <1>2, ConcatProperties
  <1>4. \A j \in 1 .. Len(seq) - 1 :
             (front \o back)[j] = IF j < i THEN seq[j] ELSE seq[j + 1]
    <2> TAKE j \in 1 .. Len(seq) - 1
    <2>1. CASE j < i
      BY <1>1, <1>2, <1>3, <2>1
    <2>2. CASE ~(j < i)
      <3>1. j - (i - 1) \in 1 .. Len(seq) - i /\ i + (j - (i - 1)) = j + 1
        BY <2>2
      <3>2. (front \o back)[j] = back[j - (i - 1)]
        BY <1>1, <1>2, <1>3, <2>2
      <3>3. back[j - (i - 1)] = seq[i + (j - (i - 1))]
        BY <1>2, <3>1
      <3> QED BY <2>2, <3>1, <3>2, <3>3
    <2> QED BY <2>1, <2>2
  <1>5. RemoveAt(seq, i) = front \o back
    BY DEF RemoveAt, front, back
  <1>6. Len(front) + Len(back) = Len(seq) - 1
    BY <1>1, <1>2
  <1> QED BY <1>3, <1>4, <1>5, <1>6

(* The elements that remain are the other ones, each once.                 *)
LEMMA RemoveAtRange ==
    ASSUME NEW S, NEW seq \in Seq(S), IsInjective(seq), NEW i \in 1 .. Len(seq)
    PROVE  /\ IsInjective(RemoveAt(seq, i))
           /\ Range(RemoveAt(seq, i)) = Range(seq) \ {seq[i]}
  <1> DEFINE rest == RemoveAt(seq, i)
  <1>1. /\ rest \in Seq(S) /\ Len(rest) = Len(seq) - 1
        /\ \A j \in 1 .. Len(seq) - 1 : rest[j] = IF j < i THEN seq[j] ELSE seq[j + 1]
    BY RemoveAtRows
  <1> HIDE DEF rest
  <1>2. DOMAIN rest = 1 .. Len(seq) - 1 /\ DOMAIN seq = 1 .. Len(seq) /\ Len(seq) \in Nat
    BY <1>1
  <1>3. \A j, k \in 1 .. Len(seq) : seq[j] = seq[k] => j = k
    BY <1>2 DEF IsInjective
  <1>4. IsInjective(rest)
    BY <1>1, <1>2, <1>3 DEF IsInjective
  <1>5. ASSUME NEW j \in 1 .. Len(seq) - 1
        PROVE  \E k \in 1 .. Len(seq) : k # i /\ rest[j] = seq[k]
    BY <1>1, <1>5
  <1>6. ASSUME NEW k \in 1 .. Len(seq), k # i
        PROVE  \E j \in 1 .. Len(seq) - 1 : rest[j] = seq[k]
    <2>1. CASE k < i
      BY <1>1, <1>2, <2>1
    <2>2. CASE k > i
      <3>1. k - 1 \in 1 .. Len(seq) - 1 /\ ~(k - 1 < i) /\ (k - 1) + 1 = k
        BY <1>2, <2>2
      <3> QED BY <1>1, <3>1
    <2> QED BY <1>6, <2>1, <2>2
  <1>7. Range(rest) = Range(seq) \ {seq[i]}
    <2>1. Range(seq) = {seq[k] : k \in 1 .. Len(seq)}
      BY <1>2 DEF Range
    <2>2. Range(rest) = {rest[j] : j \in 1 .. Len(seq) - 1}
      BY <1>2 DEF Range
    <2>3. \A x \in Range(rest) : x \in Range(seq) /\ x # seq[i]
      BY <1>3, <1>5, <2>1, <2>2
    <2>4. \A x \in Range(seq) : x # seq[i] => x \in Range(rest)
      BY <1>6, <2>1, <2>2
    <2> QED BY <2>3, <2>4
  <1> QED BY <1>4, <1>7 DEF rest

(* An element that is not there is not removed, and one that is, is.       *)
LEMMA RemoveFirstRange ==
    ASSUME NEW S, NEW seq \in Seq(S), IsInjective(seq), NEW e
    PROVE  /\ RemoveFirst(seq, e) \in Seq(S)
           /\ IsInjective(RemoveFirst(seq, e))
           /\ Range(RemoveFirst(seq, e)) = Range(seq) \ {e}
  <1>0. DOMAIN seq = 1 .. Len(seq)
    OBVIOUS
  <1>1. CASE \A j \in 1 .. Len(seq) : seq[j] # e
    <2>1. RemoveFirst(seq, e) = seq
      BY <1>1 DEF RemoveFirst
    <2>2. e \notin Range(seq)
      BY <1>0, <1>1 DEF Range
    <2> QED BY <2>1, <2>2
  <1>2. ASSUME NEW i \in 1 .. Len(seq), seq[i] = e
        PROVE  RemoveFirst(seq, e) = RemoveAt(seq, i)
    <2> DEFINE found == {j \in 1 .. Len(seq) : seq[j] = e}
    <2>1. found = {i}
      BY <1>0, <1>2 DEF IsInjective
    <2>2. Min(found) = i
      BY <2>1 DEF Min
    <2>3. SelectInSeq(seq, LAMBDA v : v = e) = IF found # {} THEN Min(found) ELSE 0
      BY DEF SelectInSeq
    <2>4. SelectInSeq(seq, LAMBDA v : v = e) = i
      BY <2>1, <2>2, <2>3
    <2> QED BY <1>2, <2>4 DEF RemoveFirst
  <1> QED BY <1>1, <1>2, RemoveAtRows, RemoveAtRange

(* The head leaves a queue.                                                *)
LEMMA TailRange ==
    ASSUME NEW S, NEW seq \in Seq(S), IsInjective(seq), seq # <<>>
    PROVE  /\ Tail(seq) \in Seq(S)
           /\ IsInjective(Tail(seq))
           /\ Range(Tail(seq)) = Range(seq) \ {Head(seq)}
  <1>1. 1 \in 1 .. Len(seq) /\ Head(seq) = seq[1]
    OBVIOUS
  <1>2. Tail(seq) = RemoveAt(seq, 1)
    <2>1. /\ Tail(seq) \in Seq(S) /\ Len(Tail(seq)) = Len(seq) - 1
          /\ \A j \in 1 .. Len(seq) - 1 : Tail(seq)[j] = seq[j + 1]
      BY HeadTailProperties
    <2>2. \A j \in 1 .. Len(seq) - 1 : RemoveAt(seq, 1)[j] = seq[j + 1]
      BY <1>1, RemoveAtRows
    <2>3. RemoveAt(seq, 1) \in Seq(S) /\ Len(RemoveAt(seq, 1)) = Len(seq) - 1
      BY <1>1, RemoveAtRows
    <2> QED BY <2>1, <2>2, <2>3, SeqEqual
  <1>3. RemoveAt(seq, 1) \in Seq(S)
    BY <1>1, RemoveAtRows
  <1>4. /\ IsInjective(RemoveAt(seq, 1))
        /\ Range(RemoveAt(seq, 1)) = Range(seq) \ {seq[1]}
    BY <1>1, RemoveAtRange
  <1> QED BY <1>1, <1>2, <1>3, <1>4

(* A newcomer joins a queue.                                               *)
LEMMA AppendRange ==
    ASSUME NEW S, NEW seq \in Seq(S), IsInjective(seq), NEW e \in S, e \notin Range(seq)
    PROVE  /\ Append(seq, e) \in Seq(S)
           /\ IsInjective(Append(seq, e))
           /\ Range(Append(seq, e)) = Range(seq) \cup {e}
  <1> DEFINE new == Append(seq, e)
  <1>1. /\ new \in Seq(S) /\ Len(new) = Len(seq) + 1
        /\ \A j \in 1 .. Len(seq) : new[j] = seq[j]
        /\ new[Len(seq) + 1] = e
    OBVIOUS
  <1> HIDE DEF new
  <1>2. DOMAIN new = 1 .. Len(seq) + 1 /\ DOMAIN seq = 1 .. Len(seq) /\ Len(seq) \in Nat
    BY <1>1
  <1>3. \A j \in 1 .. Len(seq) + 1 : j \in 1 .. Len(seq) \/ j = Len(seq) + 1
    BY <1>2
  <1>4. IsInjective(new)
    BY <1>1, <1>2, <1>3 DEF IsInjective, Range
  <1>5. Range(new) = Range(seq) \cup {e}
    BY <1>1, <1>2, <1>3 DEF Range
  <1> QED BY <1>1, <1>4, <1>5 DEF new
===============================================================================
