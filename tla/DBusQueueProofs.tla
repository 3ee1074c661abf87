-------------------------- MODULE DBusQueueProofs ----------------------------
(***************************************************************************)
(* What a listener and a blocking call leave in the queues of a            *)
(* connection.                                                             *)
(***************************************************************************)
EXTENDS DBusQueue, SequenceTheorems, TLAPS

LEMMA FirstAndRestType ==
  ASSUME NEW S, NEW q \in Seq(S)
  PROVE  /\ First(q) \in Seq(S) /\ Rest(q) \in Seq(S)
         /\ First(q) # <<>> => First(q)[1] \in S
<1>1. CASE q = <<>>
  BY <1>1, EmptySeq DEF First, Rest
<1>2. CASE q # <<>>
  <2>1. Head(q) \in S /\ Tail(q) \in Seq(S)
    BY <1>2, HeadTailProperties
  <2> QED BY <1>2, <2>1 DEF First, Rest
<1> QED BY <1>1, <1>2

LEMMA PieceType ==
  ASSUME NEW S, NEW q \in Seq(S), NEW m \in Nat \ {0}, NEW n \in 0 .. Len(q)
  PROVE  SubSeq(q, m, n) \in Seq(S)
<1>1. m \in Int /\ n \in Int
  BY LenProperties
<1>2. \A i \in m .. n : q[i] \in S
  BY <1>1, ElementOfSeq, LenProperties
<1> QED BY <1>1, <1>2, SubSeqProperties

LEMMA TakenType ==
  ASSUME NEW S, NEW queue \in Seq(S), NEW sock \in Seq(S),
         NEW r \in Taken(queue, sock)
  PROVE  /\ r.lost \in Seq(S) /\ r.got \in Seq(S)
         /\ r.queue \in Seq(S) /\ r.sock \in Seq(S)
         /\ r.lost # <<>> => r.lost[1] \in S
         /\ r.got # <<>> => r.got[1] \in S
<1>1. CASE queue # <<>>
  <2>1. r = [lost |-> First(queue), got |-> First(Rest(queue)),
             queue |-> Rest(Rest(queue)), sock |-> sock]
    BY <1>1 DEF Taken
  <2>2. Rest(queue) \in Seq(S)
    BY FirstAndRestType
  <2>3. /\ First(queue) \in Seq(S)
        /\ First(queue) # <<>> => First(queue)[1] \in S
    BY FirstAndRestType
  <2>4. /\ First(Rest(queue)) \in Seq(S) /\ Rest(Rest(queue)) \in Seq(S)
        /\ First(Rest(queue)) # <<>> => First(Rest(queue))[1] \in S
    BY <2>2, FirstAndRestType
  <2> QED BY <2>1, <2>3, <2>4
<1>2. CASE queue = <<>>
  <2>1. PICK n \in 1 .. Len(sock) :
          r = [lost |-> <<>>, got |-> First(sock),
               queue |-> SubSeq(sock, 2, n),
               sock |-> SubSeq(sock, n + 1, Len(sock))]
    BY <1>2 DEF Taken
  <2>2. /\ SubSeq(sock, 2, n) \in Seq(S)
        /\ SubSeq(sock, n + 1, Len(sock)) \in Seq(S)
    <3>1. Len(sock) \in Nat
      BY LenProperties
    <3>2. /\ 2 \in Nat \ {0} /\ n \in 0 .. Len(sock)
          /\ n + 1 \in Nat \ {0} /\ Len(sock) \in 0 .. Len(sock)
      BY <3>1
    <3> QED BY <3>2, PieceType
  <2>3. /\ First(sock) \in Seq(S)
        /\ First(sock) # <<>> => First(sock)[1] \in S
    BY FirstAndRestType
  <2>4. <<>> \in Seq(S)
    BY EmptySeq
  <2> QED BY <2>1, <2>2, <2>3, <2>4
<1> QED BY <1>1, <1>2

LEMMA AwaitedType ==
  ASSUME NEW S, NEW queue \in Seq(S), NEW sock \in Seq(S),
         NEW i \in DOMAIN sock, NEW r \in Awaited(queue, sock, i)
  PROVE  r.queue \in Seq(S) /\ r.sock \in Seq(S)
<1>1. PICK n \in i .. Len(sock) :
        r = [queue |-> queue \o SubSeq(sock, 1, i - 1) \o SubSeq(sock, i + 1, n),
             sock |-> SubSeq(sock, n + 1, Len(sock))]
  BY DEF Awaited
<1>2. Len(sock) \in Nat /\ i \in 1 .. Len(sock)
  BY LenProperties
<1>3. /\ SubSeq(sock, 1, i - 1) \in Seq(S)
      /\ SubSeq(sock, i + 1, n) \in Seq(S)
      /\ SubSeq(sock, n + 1, Len(sock)) \in Seq(S)
  <2>1. /\ 1 \in Nat \ {0} /\ i - 1 \in 0 .. Len(sock)
        /\ i + 1 \in Nat \ {0} /\ n \in 0 .. Len(sock)
        /\ n + 1 \in Nat \ {0} /\ Len(sock) \in 0 .. Len(sock)
    BY <1>2
  <2> QED BY <2>1, PieceType
<1>4. queue \o SubSeq(sock, 1, i - 1) \in Seq(S)
  BY <1>3, ConcatProperties
<1>5. queue \o SubSeq(sock, 1, i - 1) \o SubSeq(sock, i + 1, n) \in Seq(S)
  BY <1>3, <1>4, ConcatProperties
<1> QED BY <1>1, <1>3, <1>5

LEMMA TailOfJoined ==
  ASSUME NEW S, NEW p \in Seq(S), NEW s \in Seq(S), p # <<>>
  PROVE  /\ p \o s # <<>> /\ Head(p \o s) = Head(p)
         /\ Tail(p \o s) = Tail(p) \o s
<1>1. /\ Len(p) \in Nat \ {0} /\ Len(s) \in Nat
      /\ Tail(p) \in Seq(S) /\ Len(Tail(p)) = Len(p) - 1
      /\ \A i \in 1 .. Len(Tail(p)) : Tail(p)[i] = p[i + 1]
  BY EmptySeq, LenProperties, HeadTailProperties
<1>2. /\ p \o s \in Seq(S) /\ Len(p \o s) = Len(p) + Len(s)
      /\ \A i \in 1 .. Len(p) + Len(s) :
           (p \o s)[i] = IF i <= Len(p) THEN p[i] ELSE s[i - Len(p)]
  BY ConcatProperties
<1>3. p \o s # <<>>
  BY <1>1, <1>2, ConcatEqualIffEmpty
<1>4. /\ Tail(p) \o s \in Seq(S) /\ Len(Tail(p) \o s) = Len(p) - 1 + Len(s)
      /\ \A i \in 1 .. Len(p) - 1 + Len(s) :
           (Tail(p) \o s)[i] = IF i <= Len(p) - 1 THEN Tail(p)[i]
                                                  ELSE s[i - (Len(p) - 1)]
  BY <1>1, ConcatProperties
<1>5. /\ Tail(p \o s) \in Seq(S) /\ Len(Tail(p \o s)) = Len(p) + Len(s) - 1
      /\ \A i \in 1 .. Len(p) + Len(s) - 1 : Tail(p \o s)[i] = (p \o s)[i + 1]
  BY <1>2, <1>3, HeadTailProperties
<1>6. ASSUME NEW i \in 1 .. Len(p) - 1 + Len(s)
      PROVE  Tail(p \o s)[i] = (Tail(p) \o s)[i]
  <2>1. Tail(p \o s)[i] = (p \o s)[i + 1]
    BY <1>1, <1>5
  <2>2. CASE i <= Len(p) - 1
    BY <1>1, <1>2, <1>4, <2>1, <2>2
  <2>3. CASE ~(i <= Len(p) - 1)
    <3>1. i + 1 - Len(p) = i - (Len(p) - 1)
      BY <1>1
    <3> QED BY <1>1, <1>2, <1>4, <2>1, <2>3, <3>1
  <2> QED BY <2>2, <2>3
<1>7. Tail(p \o s) = Tail(p) \o s
  <2>1. Len(Tail(p \o s)) = Len(Tail(p) \o s)
    BY <1>1, <1>4, <1>5
  <2>2. \A i \in 1 .. Len(Tail(p \o s)) : Tail(p \o s)[i] = (Tail(p) \o s)[i]
    BY <1>1, <1>5, <1>6
  <2> QED BY <1>4, <1>5, <2>1, <2>2, SeqEqual
<1>8. Head(p \o s) = Head(p)
  BY <1>1, <1>2
<1> QED BY <1>3, <1>7, <1>8

(* A listener takes the first message that is there, and a second one if    *)
(* it lost the first.                                                       *)
LEMMA TakenFirst ==
  ASSUME NEW S, NEW queue \in Seq(S), NEW sock \in Seq(S), sock # <<>>,
         NEW q, q = queue \o sock, NEW r \in Taken(queue, sock)
  PROVE  /\ q # <<>>
         /\ \/ /\ r.lost = <<>> /\ r.got = <<Head(q)>>
               /\ r.queue \o r.sock = Tail(q)
            \/ /\ r.lost = <<Head(q)>> /\ r.got = <<>>
               /\ r.queue \o r.sock = Tail(q)
            \/ /\ r.lost = <<Head(q)>> /\ Tail(q) # <<>>
               /\ r.got = <<Head(Tail(q))>>
               /\ r.queue \o r.sock = Tail(Tail(q))
<1>1. CASE queue = <<>>
  <2>1. PICK n \in 1 .. Len(sock) :
          r = [lost |-> <<>>, got |-> First(sock),
               queue |-> SubSeq(sock, 2, n),
               sock |-> SubSeq(sock, n + 1, Len(sock))]
    BY <1>1 DEF Taken
  <2>2. q = sock
    BY <1>1, ConcatEmptySeq
  <2>3. SubSeq(sock, 2, n) \o SubSeq(sock, n + 1, Len(sock)) = Tail(sock)
    <3>1. Len(sock) \in Nat \ {0}
      BY EmptySeq
    <3>2. /\ 2 \in 1 .. Len(sock) + 1 /\ n \in 2 - 1 .. Len(sock)
          /\ Len(sock) \in n .. Len(sock)
      BY <3>1
    <3>3. SubSeq(sock, 2, n) \o SubSeq(sock, n + 1, Len(sock))
            = SubSeq(sock, 2, Len(sock))
      BY <3>2, ConcatAdjacentSubSeq
    <3> QED BY <3>3, TailIsSubSeq
  <2> QED BY <2>1, <2>2, <2>3 DEF First
<1>2. CASE queue # <<>>
  <2>1. r = [lost |-> First(queue), got |-> First(Rest(queue)),
             queue |-> Rest(Rest(queue)), sock |-> sock]
    BY <1>2 DEF Taken
  <2>2. /\ First(queue) = <<Head(q)>> /\ q # <<>>
        /\ Tail(q) = Tail(queue) \o sock
        /\ Rest(queue) = Tail(queue) /\ Tail(queue) \in Seq(S)
    BY <1>2, TailOfJoined, HeadTailProperties DEF First, Rest
  <2>3. CASE Tail(queue) = <<>>
    <3>1. Rest(<<>>) = <<>> /\ First(<<>>) = <<>>
      BY DEF Rest, First
    <3> QED BY <2>1, <2>2, <2>3, <3>1
  <2>4. CASE Tail(queue) # <<>>
    <3> DEFINE t == Tail(queue)
    <3>1. t \in Seq(S) /\ t # <<>> /\ Tail(q) = t \o sock
      BY <2>2, <2>4
    <3> HIDE DEF t
    <3>2. /\ t \o sock # <<>> /\ Head(t \o sock) = Head(t)
          /\ Tail(t \o sock) = Tail(t) \o sock
      BY <3>1, TailOfJoined
    <3>3. First(t) = <<Head(t)>> /\ Rest(t) = Tail(t)
      BY <3>1 DEF First, Rest
    <3>4. r.lost = <<Head(q)>> /\ r.got = First(t) /\ r.queue = Rest(t)
          /\ r.sock = sock
      BY <2>1, <2>2 DEF t
    <3> QED BY <2>2, <3>1, <3>2, <3>3, <3>4
  <2> QED BY <2>3, <2>4
<1> QED BY <1>1, <1>2

(* t is q without its element k.                                           *)
Without(q, k, t) ==
  /\ k \in 1 .. Len(q) /\ Len(q) \in Nat /\ Len(t) = Len(q) - 1
  /\ \A j \in 1 .. Len(t) : t[j] = IF j < k THEN q[j] ELSE q[j + 1]

(* A blocking call takes the one message that it waits for.                *)
LEMMA AwaitedRest ==
  ASSUME NEW S, NEW queue \in Seq(S), NEW sock \in Seq(S),
         NEW i \in 1 .. Len(sock), NEW r \in Awaited(queue, sock, i)
  PROVE  Without(queue \o sock, Len(queue) + i, r.queue \o r.sock)
<1> DEFINE q == queue \o sock
           t == r.queue \o r.sock
           k == Len(queue) + i
<1>1. PICK n \in i .. Len(sock) :
        r = [queue |-> queue \o SubSeq(sock, 1, i - 1) \o SubSeq(sock, i + 1, n),
             sock |-> SubSeq(sock, n + 1, Len(sock))]
  BY DEF Awaited
<1> DEFINE A == SubSeq(sock, 1, i - 1)
           B == SubSeq(sock, i + 1, n)
           C == SubSeq(sock, n + 1, Len(sock))
           u == queue \o A
           v == u \o B
<1>2. /\ Len(sock) \in Nat /\ Len(queue) \in Nat
      /\ i \in Nat \ {0} /\ i <= Len(sock) /\ n \in Nat /\ i <= n /\ n <= Len(sock)
  BY LenProperties
<1>3. A \in Seq(S) /\ B \in Seq(S) /\ C \in Seq(S)
  <2>1. /\ 1 \in Nat \ {0} /\ i - 1 \in 0 .. Len(sock)
        /\ i + 1 \in Nat \ {0} /\ n \in 0 .. Len(sock)
        /\ n + 1 \in Nat \ {0} /\ Len(sock) \in 0 .. Len(sock)
    BY <1>2
  <2> QED BY <2>1, PieceType
<1>4. /\ Len(A) = i - 1 /\ \A j \in 1 .. i - 1 : A[j] = sock[j]
      /\ Len(B) = n - i /\ \A j \in 1 .. n - i : B[j] = sock[i + j]
      /\ Len(C) = Len(sock) - n /\ \A j \in 1 .. Len(sock) - n : C[j] = sock[n + j]
  <2>1. /\ Len(A) = i - 1 /\ \A j \in 1 .. i - 1 : A[j] = sock[1 + j - 1]
    BY <1>2
  <2>2. /\ Len(B) = n - i
        /\ \A j \in 1 .. n - i : B[j] = sock[(i + 1) + j - 1]
    BY <1>2
  <2>3. /\ Len(C) = Len(sock) - n
        /\ \A j \in 1 .. Len(sock) - n : C[j] = sock[(n + 1) + j - 1]
    BY <1>2
  <2>4. /\ \A j \in 1 .. i - 1 : 1 + j - 1 = j
        /\ \A j \in 1 .. n - i : (i + 1) + j - 1 = i + j
        /\ \A j \in 1 .. Len(sock) - n : (n + 1) + j - 1 = n + j
    BY <1>2
  <2> QED BY <2>1, <2>2, <2>3, <2>4
<1>5. t = v \o C
  BY <1>1
<1>6. \A x, y \in Seq(S) :
        /\ x \o y \in Seq(S) /\ Len(x \o y) = Len(x) + Len(y)
        /\ \A j \in 1 .. Len(x) + Len(y) :
             (x \o y)[j] = IF j <= Len(x) THEN x[j] ELSE y[j - Len(x)]
  BY ConcatProperties
<1> HIDE DEF A, B, C
<1>7. /\ u \in Seq(S) /\ Len(u) = k - 1
      /\ \A j \in 1 .. k - 1 : u[j] = IF j <= Len(queue) THEN queue[j] ELSE A[j - Len(queue)]
  <2>1. u \in Seq(S) /\ Len(u) = Len(queue) + Len(A)
        /\ \A j \in 1 .. Len(queue) + Len(A) :
             u[j] = IF j <= Len(queue) THEN queue[j] ELSE A[j - Len(queue)]
    BY <1>3, <1>6
  <2>2. Len(queue) + Len(A) = k - 1
    BY <1>2, <1>4
  <2> QED BY <2>1, <2>2
<1> HIDE DEF u
<1>8. /\ v \in Seq(S) /\ Len(v) = k - 1 + (n - i)
      /\ \A j \in 1 .. k - 1 + (n - i) : v[j] = IF j <= k - 1 THEN u[j] ELSE B[j - (k - 1)]
  <2>1. v \in Seq(S) /\ Len(v) = Len(u) + Len(B)
        /\ \A j \in 1 .. Len(u) + Len(B) :
             v[j] = IF j <= Len(u) THEN u[j] ELSE B[j - Len(u)]
    BY <1>3, <1>6, <1>7
  <2> QED BY <1>4, <1>7, <2>1
<1> HIDE DEF v
<1> DEFINE m == k - 1 + (n - i)
<1>9. /\ Len(t) = m + (Len(sock) - n)
      /\ \A j \in 1 .. m + (Len(sock) - n) : t[j] = IF j <= m THEN v[j] ELSE C[j - m]
  <2>1. Len(v \o C) = Len(v) + Len(C)
        /\ \A j \in 1 .. Len(v) + Len(C) :
             (v \o C)[j] = IF j <= Len(v) THEN v[j] ELSE C[j - Len(v)]
    BY <1>3, <1>6, <1>8
  <2> QED BY <1>4, <1>5, <1>8, <2>1
<1>10. /\ Len(q) = Len(queue) + Len(sock)
       /\ \A j \in 1 .. Len(queue) + Len(sock) :
            q[j] = IF j <= Len(queue) THEN queue[j] ELSE sock[j - Len(queue)]
  BY ConcatProperties
<1> HIDE DEF q, t
<1>11. k \in 1 .. Len(q) /\ Len(t) = Len(q) - 1 /\ Len(q) \in Nat
  BY <1>2, <1>9, <1>10
<1>12. ASSUME NEW j \in 1 .. Len(t)
       PROVE  t[j] = IF j < k THEN q[j] ELSE q[j + 1]
  <2>1. /\ j \in 1 .. m + (Len(sock) - n) /\ j \in Nat /\ k \in Nat /\ m \in Nat
        /\ j \in 1 .. Len(queue) + Len(sock) /\ j + 1 \in 1 .. Len(queue) + Len(sock)
    BY <1>2, <1>9
  <2>2. CASE j < k
    <3>1. j <= m /\ j <= k - 1 /\ j \in 1 .. k - 1 /\ j \in 1 .. m
      BY <1>2, <2>1, <2>2
    <3>2. t[j] = u[j]
      BY <1>8, <1>9, <2>1, <3>1
    <3>3. CASE j <= Len(queue)
      BY <1>7, <1>10, <2>1, <2>2, <3>1, <3>2, <3>3
    <3>4. CASE ~(j <= Len(queue))
      <4>1. j - Len(queue) \in 1 .. i - 1
        BY <1>2, <2>1, <2>2, <3>4
      <4> QED BY <1>4, <1>7, <1>10, <2>1, <2>2, <3>1, <3>2, <3>4, <4>1
    <3> QED BY <3>3, <3>4
  <2>3. CASE ~(j < k) /\ j <= m
    <3>1. /\ ~(j <= k - 1) /\ ~(j + 1 <= Len(queue)) /\ j \in 1 .. m
          /\ j - (k - 1) \in 1 .. n - i
          /\ i + (j - (k - 1)) = (j + 1) - Len(queue)
      BY <1>2, <2>1, <2>3
    <3>2. t[j] = B[j - (k - 1)] /\ q[j + 1] = sock[(j + 1) - Len(queue)]
      BY <1>8, <1>9, <1>10, <2>1, <2>3, <3>1
    <3>3. B[j - (k - 1)] = sock[i + (j - (k - 1))]
      BY <1>4, <3>1
    <3> QED BY <2>3, <3>1, <3>2, <3>3
  <2>4. CASE ~(j <= m)
    <3>1. /\ ~(j < k) /\ ~(j + 1 <= Len(queue))
          /\ j - m \in 1 .. Len(sock) - n
          /\ n + (j - m) = (j + 1) - Len(queue)
      BY <1>2, <2>1, <2>4
    <3>2. t[j] = C[j - m] /\ q[j + 1] = sock[(j + 1) - Len(queue)]
      BY <1>9, <1>10, <2>1, <2>4, <3>1
    <3>3. C[j - m] = sock[n + (j - m)]
      BY <1>4, <3>1
    <3> QED BY <3>1, <3>2, <3>3
  <2> QED BY <2>2, <2>3, <2>4
<1>13. Without(q, k, t)
  <2> HIDE DEF k
  <2> QED BY <1>11, <1>12 DEF Without
<1> QED BY <1>13 DEF q, t

-------------------------------------------------------------------------------
(* What is marked in a queue: the elements of M, none or at most one.      *)

Lacks(q, M) == \A i \in 1 .. Len(q) : q[i] \notin M
Single(q, M) == \A i, j \in 1 .. Len(q) : q[i] \in M /\ q[j] \in M => i = j

(* The empty queue, and a queue of one.                                    *)
LEMMA ShortMarks ==
  ASSUME NEW M
  PROVE  /\ Lacks(<<>>, M) /\ Single(<<>>, M)
         /\ \A x : Single(<<x>>, M) /\ (Lacks(<<x>>, M) <=> x \notin M)
<1>1. Len(<<>>) = 0 /\ \A x : Len(<<x>>) = 1 /\ <<x>>[1] = x
  OBVIOUS
<1> QED BY <1>1 DEF Lacks, Single

(* Two queues, one behind the other.                                       *)
LEMMA JoinedMarks ==
  ASSUME NEW S, NEW p \in Seq(S), NEW s \in Seq(S), NEW M
  PROVE  /\ Lacks(p \o s, M) <=> Lacks(p, M) /\ Lacks(s, M)
         /\ Single(p, M) /\ Lacks(s, M) => Single(p \o s, M)
         /\ Lacks(p, M) /\ Single(s, M) => Single(p \o s, M)
<1> DEFINE q == p \o s
           m == Len(p)
           n == Len(s)
<1>1. /\ m \in Nat /\ n \in Nat /\ Len(q) = m + n
      /\ \A i \in 1 .. m + n : q[i] = IF i <= m THEN p[i] ELSE s[i - m]
  BY LenProperties, ConcatProperties
<1> HIDE DEF q
<1>2. \A i \in 1 .. m : i \in 1 .. m + n /\ q[i] = p[i]
  BY <1>1
<1>3. \A i \in 1 .. n : m + i \in 1 .. m + n /\ q[m + i] = s[i]
  <2> TAKE i \in 1 .. n
  <2>1. m + i \in 1 .. m + n /\ ~(m + i <= m) /\ (m + i) - m = i
    BY <1>1
  <2> QED BY <1>1, <2>1
<1>4. \A i \in 1 .. m + n : \/ i \in 1 .. m /\ q[i] = p[i]
                            \/ i - m \in 1 .. n /\ q[i] = s[i - m]
  BY <1>1
<1>5. Lacks(q, M) <=> Lacks(p, M) /\ Lacks(s, M)
  BY <1>1, <1>2, <1>3, <1>4 DEF Lacks
<1>6. Single(p, M) /\ Lacks(s, M) => Single(q, M)
  BY <1>1, <1>4 DEF Lacks, Single
<1>7. Lacks(p, M) /\ Single(s, M) => Single(q, M)
  <2> SUFFICES ASSUME Lacks(p, M), Single(s, M),
                      NEW i \in 1 .. m + n, NEW j \in 1 .. m + n,
                      q[i] \in M, q[j] \in M
               PROVE  i = j
    BY <1>1 DEF Single
  <2>1. i - m \in 1 .. n /\ s[i - m] \in M /\ j - m \in 1 .. n /\ s[j - m] \in M
    BY <1>4 DEF Lacks
  <2>2. i - m = j - m
    BY <2>1 DEF Single
  <2> QED BY <1>1, <2>2
<1> QED BY <1>5, <1>6, <1>7 DEF q

(* And back: at most one in both is at most one in each, and in only one.  *)
LEMMA JoinedSingle ==
  ASSUME NEW S, NEW p \in Seq(S), NEW s \in Seq(S), NEW M, Single(p \o s, M)
  PROVE  Single(p, M) /\ Single(s, M) /\ (Lacks(p, M) \/ Lacks(s, M))
<1> DEFINE q == p \o s
           m == Len(p)
           n == Len(s)
<1>1. /\ m \in Nat /\ n \in Nat /\ Len(q) = m + n
      /\ \A i \in 1 .. m + n : q[i] = IF i <= m THEN p[i] ELSE s[i - m]
  BY LenProperties, ConcatProperties
<1>2. Single(q, M)
  OBVIOUS
<1> HIDE DEF q
<1>3. \A i \in 1 .. m : i \in 1 .. m + n /\ q[i] = p[i]
  BY <1>1
<1>4. \A i \in 1 .. n : m + i \in 1 .. m + n /\ q[m + i] = s[i]
  <2> TAKE i \in 1 .. n
  <2>1. m + i \in 1 .. m + n /\ ~(m + i <= m) /\ (m + i) - m = i
    BY <1>1
  <2> QED BY <1>1, <2>1
<1>5. Lacks(p, M) \/ Lacks(s, M)
  <2> SUFFICES ASSUME NEW i \in 1 .. m, p[i] \in M, NEW j \in 1 .. n, s[j] \in M
               PROVE  FALSE
    BY DEF Lacks
  <2>1. i = m + j
    BY <1>1, <1>2, <1>3, <1>4 DEF Single
  <2> QED BY <1>1, <2>1
<1>6. Single(p, M)
  BY <1>1, <1>2, <1>3 DEF Single
<1>7. Single(s, M)
  <2>1. \A i, j \in 1 .. n : m + i = m + j => i = j
    BY <1>1
  <2> QED BY <1>1, <1>2, <1>4, <2>1 DEF Single
<1> QED BY <1>5, <1>6, <1>7

(* The first element is taken off.                                         *)
LEMMA TailMarks ==
  ASSUME NEW S, NEW q \in Seq(S), q # <<>>, NEW M
  PROVE  /\ Lacks(q, M) => Head(q) \notin M /\ Lacks(Tail(q), M)
         /\ Single(q, M) => /\ Single(Tail(q), M)
                            /\ Head(q) \in M => Lacks(Tail(q), M)
<1>1. /\ Len(q) \in Nat /\ Len(q) > 0 /\ Head(q) = q[1]
      /\ Len(Tail(q)) = Len(q) - 1
      /\ \A i \in 1 .. Len(q) - 1 : Tail(q)[i] = q[i + 1]
  BY EmptySeq, LenProperties, HeadTailProperties
<1> DEFINE t == Tail(q)
<1>2. /\ 1 \in 1 .. Len(q)
      /\ \A i \in 1 .. Len(t) : i + 1 \in 1 .. Len(q) /\ i + 1 # 1 /\ t[i] = q[i + 1]
  BY <1>1
<1>3. \A i, j \in 1 .. Len(t) : i + 1 = j + 1 => i = j
  OBVIOUS
<1> HIDE DEF t
<1>4. Lacks(q, M) => Head(q) \notin M /\ Lacks(t, M)
  BY <1>1, <1>2 DEF Lacks
<1>5. Single(q, M) => Single(t, M)
  BY <1>2, <1>3 DEF Single
<1>6. Single(q, M) /\ Head(q) \in M => Lacks(t, M)
  BY <1>1, <1>2 DEF Lacks, Single
<1> QED BY <1>4, <1>5, <1>6 DEF t

(* One element is taken out.                                               *)
LEMMA WithoutMarks ==
  ASSUME NEW q, NEW k, NEW t, Without(q, k, t), NEW M
  PROVE  /\ Lacks(q, M) => Lacks(t, M)
         /\ Single(q, M) => Single(t, M) /\ (q[k] \in M => Lacks(t, M))
<1> DEFINE from(j) == IF j < k THEN j ELSE j + 1
<1>1. \A j \in 1 .. Len(t) : from(j) \in 1 .. Len(q) /\ from(j) # k /\ t[j] = q[from(j)]
  BY DEF Without
<1>2. \A i, j \in 1 .. Len(t) : from(i) = from(j) => i = j
  BY DEF Without
<1>3. k \in 1 .. Len(q)
  BY DEF Without
<1> HIDE DEF from
<1>4. Lacks(q, M) => Lacks(t, M)
  BY <1>1 DEF Lacks
<1>5. Single(q, M) => Single(t, M)
  BY <1>1, <1>2 DEF Single
<1>6. Single(q, M) /\ q[k] \in M => Lacks(t, M)
  BY <1>1, <1>3 DEF Lacks, Single
<1> QED BY <1>4, <1>5, <1>6

(* The elements change where they are, and none becomes marked.            *)
LEMMA ChangedMarks ==
  ASSUME NEW q, NEW s, NEW M, Len(s) = Len(q),
         \A i \in 1 .. Len(q) : s[i] \in M => q[i] \in M
  PROVE  /\ Lacks(q, M) => Lacks(s, M)
         /\ Single(q, M) => Single(s, M)
BY DEF Lacks, Single
===============================================================================
