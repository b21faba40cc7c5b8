---------------------------- MODULE RelayFeed_proofs ----------------------------
(***************************************************************************)
(* What a receiver of the broadcast channel keeps, for every capacity: it  *)
(* hands out what was sent, each once if each was sent once.               *)
(***************************************************************************)
EXTENDS RelayFeed, TLAPS

Distinct(q) == \A i, j \in 1 .. Len(q) : q[i] = q[j] => i = j

\* Receiving takes the head out and leaves what comes after it.
LEMMA TailSound ==
  ASSUME NEW W, NEW q \in Seq(W), q # <<>>
  PROVE  /\ Head(q) \in W /\ Tail(q) \in Seq(W)
         /\ Queued(q, Head(q))
         /\ \A x : Queued(Tail(q), x) => Queued(q, x)
         /\ Distinct(q) => Distinct(Tail(q)) /\ ~Queued(Tail(q), Head(q))
<1>1. Len(q) \in Nat \ {0} /\ Len(Tail(q)) = Len(q) - 1 /\ Tail(q) \in Seq(W)
      /\ Head(q) = q[1] /\ \A i \in 1 .. Len(q) - 1 : Tail(q)[i] = q[i + 1]
  OBVIOUS
<1>2. Head(q) \in W
  OBVIOUS
<1>3. \A i \in 1 .. Len(q) - 1 : i + 1 \in 1 .. Len(q) /\ i + 1 # 1
  BY <1>1
<1>4. Queued(q, Head(q))
  BY <1>1 DEF Queued
<1>5. \A x : Queued(Tail(q), x) => Queued(q, x)
  BY <1>1, <1>3 DEF Queued
<1>6. Distinct(q) => Distinct(Tail(q))
  BY <1>1, <1>3 DEF Distinct
<1>7. Distinct(q) => ~Queued(Tail(q), Head(q))
  BY <1>1, <1>3 DEF Distinct, Queued
<1> QED BY <1>1, <1>2, <1>4, <1>5, <1>6, <1>7

\* Appending adds one element behind the others.
LEMMA AppendSound ==
  ASSUME NEW W, NEW q \in Seq(W), NEW w \in W
  PROVE  /\ Append(q, w) \in Seq(W)
         /\ \A x : Queued(Append(q, w), x) => Queued(q, x) \/ x = w
         /\ Distinct(q) /\ ~Queued(q, w) => Distinct(Append(q, w))
<1>1. /\ Append(q, w) \in Seq(W) /\ Len(Append(q, w)) = Len(q) + 1 /\ Len(q) \in Nat
      /\ \A i \in 1 .. Len(q) : Append(q, w)[i] = q[i]
      /\ Append(q, w)[Len(q) + 1] = w
  OBVIOUS
<1>2. \A i \in 1 .. Len(q) + 1 : i \in 1 .. Len(q) \/ i = Len(q) + 1
  BY <1>1
<1>3. \A x : Queued(Append(q, w), x) => Queued(q, x) \/ x = w
  BY <1>1, <1>2 DEF Queued
<1>4. Distinct(q) /\ ~Queued(q, w) => Distinct(Append(q, w))
  BY <1>1, <1>2 DEF Queued, Distinct
<1> QED BY <1>1, <1>3, <1>4

\* Sending adds the new element, and nothing that was lost comes back.
LEMMA PushSound ==
  ASSUME NEW W, NEW q \in Seq(W), NEW w \in W
  PROVE  /\ Push(q, w) \in Seq(W)
         /\ \A x : Queued(Push(q, w), x) => Queued(q, x) \/ x = w
         /\ Distinct(q) /\ ~Queued(q, w) => Distinct(Push(q, w))
<1> DEFINE r == IF Full(q) THEN Tail(q) ELSE q
<1>1. Full(q) => q # <<>>
  BY CapacityAssumption DEF Full
<1>2. r \in Seq(W) /\ (\A x : Queued(r, x) => Queued(q, x)) /\ (Distinct(q) => Distinct(r))
  BY <1>1, TailSound
<1>3. Push(q, w) = Append(r, w)
  BY DEF Push
<1> HIDE DEF r
<1> QED BY <1>2, <1>3, AppendSound

\* What is not at the head stays when the head is received.
LEMMA TailKeeps ==
  ASSUME NEW W, NEW q \in Seq(W), q # <<>>, NEW x, Queued(q, x), x # Head(q)
  PROVE  Queued(Tail(q), x)
<1>1. Len(q) \in Nat \ {0} /\ Len(Tail(q)) = Len(q) - 1 /\ Head(q) = q[1]
      /\ \A i \in 1 .. Len(q) - 1 : Tail(q)[i] = q[i + 1]
  OBVIOUS
<1>2. PICK i \in 1 .. Len(q) : q[i] = x
  BY DEF Queued
<1>3. i # 1 /\ i - 1 \in 1 .. Len(q) - 1 /\ (i - 1) + 1 = i
  BY <1>1, <1>2
<1> QED BY <1>1, <1>2, <1>3 DEF Queued

\* What is queued stays when a receiver with room is sent more.
LEMMA PushKeeps ==
  ASSUME NEW W, NEW q \in Seq(W), NEW w \in W, ~Full(q), NEW x, Queued(q, x)
  PROVE  Queued(Push(q, w), x)
<1>1. Push(q, w) = Append(q, w)
  BY DEF Push
<1>2. Len(Append(q, w)) = Len(q) + 1 /\ Len(q) \in Nat
      /\ \A i \in 1 .. Len(q) : Append(q, w)[i] = q[i]
  OBVIOUS
<1> QED BY <1>1, <1>2 DEF Queued
================================================================================
