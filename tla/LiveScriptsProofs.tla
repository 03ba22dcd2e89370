--------------------------- MODULE LiveScriptsProofs ---------------------------
(***************************************************************************)
(* A test gives back the account it opened and a drill its slab, unless a  *)
(* fault or a stranger came between, for any size of the slab, any number  *)
(* of users, faults and strangers.  Every step of every program is given a *)
(* view that fits (LiveScriptsLemmas); the inductive invariant says that a *)
(* script that runs is at a step whose view holds.                         *)
(***************************************************************************)
EXTENDS LiveScriptsLemmas

(* A step in front of A whose exception, or jump, leads behind A.          *)
LEMMA Over ==
  ASSUME NEW e, NEW n, NEW u, NEW v, NEW w, NEW A, NEW s \in StepType,
         Leads(e, n, v, A, w), s.catch = n + 1, n + 1 # RETURN, Sound(s, u, v, w)
  PROVE  Leads(e, n + 1, u, <<s>> \o A, w)
<1>1. A \in Seq(StepType) /\ n \in Nat /\ Len(A) = n
  BY DEF Leads
<1>2. PICK f : f[1] = v /\ f[n + 1] = w /\ Annotated(A, f, e)
  BY DEF Leads
<1> DEFINE C == <<s>> \o A
           h == [j \in 1 .. n + 2 |-> IF j = 1 THEN u ELSE f[j - 1]]
<1>3. /\ C \in Seq(StepType) /\ Len(C) = n + 1 /\ C[1] = s
      /\ \A j \in 1 .. n + 1 : j # 1 => C[j] = A[j - 1] /\ A[j - 1] \in StepType
  BY <1>1
<1>4. h[1] = u /\ h[2] = v /\ h[n + 2] = w /\ \A j \in 1 .. n + 2 : j # 1 => h[j] = f[j - 1]
  BY <1>1, <1>2
<1> HIDE DEF C, h
<1>5. ASSUME NEW j \in 1 .. n + 1
      PROVE  /\ C[j].catch \in {0, RETURN} \/ j + C[j].catch \in 1 .. n + 2
             /\ Sound(C[j], h[j], h[j + 1], Target(C, h, e, j))
  <2>1. CASE j = 1
    <3>1. s.catch # 0 /\ s.catch # RETURN /\ 1 + s.catch = n + 2 /\ n + 2 \in 1 .. n + 2
      BY <1>1 DEF RETURN
    <3>2. Target(C, h, e, 1) = w
      BY <3>1, <1>3, <1>4 DEF Target
    <3> QED BY <2>1, <3>1, <3>2, <1>3, <1>4
  <2>2. CASE j # 1
    <3> DEFINE i == j - 1
    <3>1. i \in 1 .. n /\ j \in 1 .. n + 2 /\ j + 1 \in 1 .. n + 2 /\ j + 1 # 1 /\ (j + 1) - 1 = i + 1
      BY <2>2, <1>1
    <3>2. C[j] = A[i] /\ A[i].catch \in Int
      BY <2>2, <1>3 DEF StepType
    <3>3. A[i].catch \in {0, RETURN} \/ i + A[i].catch \in 1 .. n + 1
      BY <3>1, <1>1, <1>2 DEF Annotated
    <3>4. A[i].catch \in {0, RETURN}
          \/ (j + A[i].catch \in 1 .. n + 2 /\ j + A[i].catch # 1 /\ (j + A[i].catch) - 1 = i + A[i].catch)
      BY <3>1, <3>2, <3>3, <1>1
    <3>5. Target(C, h, e, j) = Target(A, f, e, i)
      BY <3>2, <3>4, <1>4 DEF Target
    <3>6. h[j] = f[i] /\ h[j + 1] = f[i + 1]
      BY <3>1, <2>2, <1>4
    <3>7. Sound(A[i], f[i], f[i + 1], Target(A, f, e, i))
      BY <3>1, <1>1, <1>2 DEF Annotated
    <3> QED BY <3>2, <3>4, <3>5, <3>6, <3>7
  <2> QED BY <2>1, <2>2
<1>8. (n + 1) + 1 = n + 2
  BY <1>1
<1>6. Annotated(C, h, e)
  BY <1>3, <1>5, <1>8 DEF Annotated
<1>7. Leads(e, n + 1, u, C, w)
  <2>1. (n + 1) + 1 = n + 2 /\ n + 1 \in Nat
    BY <1>1
  <2> QED BY <1>1, <1>3, <1>4, <1>6, <2>1 DEF Leads
<1> QED BY <1>7 DEF C

(* Two parts of which the first ends in a jump over the second.            *)
LEMMA Either ==
  ASSUME NEW e, NEW m, NEW n, NEW v, NEW w, NEW x, NEW y, NEW A, NEW B, NEW s \in StepType, NEW g \in StepType,
         Leads(e, m, x, A, w), Leads(e, n, y, B, w), m + n < 90,
         s.catch = m + 2, Sound(s, v, x, y), g.catch = n + 1, Sound(g, w, y, w)
  PROVE  Leads(e, m + n + 2, v, <<s>> \o A \o <<g>> \o B, w)
<1>1. A \in Seq(StepType) /\ m \in Nat /\ Len(A) = m /\ B \in Seq(StepType) /\ n \in Nat /\ Len(B) = n
  BY DEF Leads
<1>2. PICK f : f[1] = x /\ f[m + 1] = w /\ Annotated(A, f, e)
  BY DEF Leads
<1>3. PICK k : k[1] = y /\ k[n + 1] = w /\ Annotated(B, k, e)
  BY DEF Leads
<1> DEFINE C == <<s>> \o A \o <<g>> \o B
           h == [j \in 1 .. m + n + 3 |-> IF j = 1 THEN v ELSE IF j <= m + 2 THEN f[j - 1] ELSE k[j - (m + 2)]]
<1>4. /\ C \in Seq(StepType) /\ Len(C) = m + n + 2 /\ C[1] = s /\ C[m + 2] = g
      /\ \A j \in 2 .. m + 1 : C[j] = A[j - 1] /\ A[j - 1] \in StepType
      /\ \A j \in m + 3 .. m + n + 2 : C[j] = B[j - (m + 2)] /\ B[j - (m + 2)] \in StepType
  <2> DEFINE P == <<s>> \o A
             Q == P \o <<g>>
  <2>1. P \in Seq(StepType) /\ Len(P) = m + 1 /\ P[1] = s
        /\ \A j \in 2 .. m + 1 : P[j] = A[j - 1] /\ A[j - 1] \in StepType
    BY <1>1
  <2> HIDE DEF P
  <2>2. Q \in Seq(StepType) /\ Len(Q) = m + 2 /\ Q[m + 2] = g /\ \A j \in 1 .. m + 1 : Q[j] = P[j]
    BY <2>1, <1>1
  <2> HIDE DEF Q
  <2>3. C = Q \o B
    BY DEF Q, P
  <2>4. /\ Q \o B \in Seq(StepType) /\ Len(Q \o B) = m + n + 2
        /\ \A j \in 1 .. m + 2 : (Q \o B)[j] = Q[j]
        /\ \A j \in m + 3 .. m + n + 2 : (Q \o B)[j] = B[j - (m + 2)] /\ B[j - (m + 2)] \in StepType
    BY <2>2, <1>1
  <2> HIDE DEF C
  <2>5. 1 \in 1 .. m + 1 /\ \A j \in 1 .. m + 1 : j \in 1 .. m + 2
    BY <1>1
  <2>6. m + 2 \in 1 .. m + 2 /\ \A j \in 2 .. m + 1 : j \in 1 .. m + 1
    BY <1>1
  <2> QED BY <2>1, <2>2, <2>3, <2>4, <2>5, <2>6
<1>5. /\ h[1] = v /\ h[2] = x /\ h[m + 2] = w /\ h[m + 3] = y /\ h[m + n + 3] = w
      /\ \A j \in 2 .. m + 2 : h[j] = f[j - 1]
      /\ \A j \in m + 3 .. m + n + 3 : h[j] = k[j - (m + 2)]
  <2>1. \A j \in 2 .. m + 2 : h[j] = f[j - 1]
    BY <1>1
  <2>2. \A j \in m + 3 .. m + n + 3 : h[j] = k[j - (m + 2)]
    BY <1>1
  <2>3. h[1] = v
    BY <1>1
  <2> HIDE DEF h
  <2>4. h[2] = f[1] /\ h[m + 2] = f[m + 1]
    BY <2>1, <1>1
  <2>5. h[m + 3] = k[1] /\ h[m + n + 3] = k[n + 1]
    BY <2>2, <1>1
  <2> QED BY <2>1, <2>2, <2>3, <2>4, <2>5, <1>2, <1>3
<1> HIDE DEF C, h
<1>6. ASSUME NEW j \in 1 .. m + n + 2
      PROVE  /\ C[j].catch \in {0, RETURN} \/ j + C[j].catch \in 1 .. m + n + 3
             /\ Sound(C[j], h[j], h[j + 1], Target(C, h, e, j))
  <2>1. CASE j = 1
    <3>1. s.catch # 0 /\ s.catch # RETURN /\ 1 + s.catch = m + 3 /\ m + 3 \in 1 .. m + n + 3
      BY <1>1 DEF RETURN
    <3>2. Target(C, h, e, 1) = y
      BY <3>1, <1>4, <1>5 DEF Target
    <3> QED BY <2>1, <3>1, <3>2, <1>4, <1>5
  <2>2. CASE j = m + 2
    <3>1. g.catch # 0 /\ g.catch # RETURN /\ (m + 2) + g.catch = m + n + 3 /\ m + n + 3 \in 1 .. m + n + 3
      BY <1>1 DEF RETURN
    <3>2. Target(C, h, e, m + 2) = w
      BY <3>1, <1>4, <1>5 DEF Target
    <3>3. (m + 2) + 1 = m + 3
      BY <1>1
    <3> QED BY <2>2, <3>1, <3>2, <3>3, <1>4, <1>5
  <2>3. CASE j \in 2 .. m + 1
    <3> DEFINE i == j - 1
    <3>1. i \in 1 .. m /\ j \in 2 .. m + 2 /\ j + 1 \in 2 .. m + 2 /\ (j + 1) - 1 = i + 1
      BY <2>3, <1>1
    <3>2. C[j] = A[i] /\ A[i].catch \in Int
      BY <2>3, <1>4 DEF StepType
    <3>3. A[i].catch \in {0, RETURN} \/ i + A[i].catch \in 1 .. m + 1
      BY <3>1, <1>1, <1>2 DEF Annotated
    <3>4. A[i].catch \in {0, RETURN}
          \/ (j + A[i].catch \in 2 .. m + 2 /\ j + A[i].catch \in 1 .. m + n + 3 /\ (j + A[i].catch) - 1 = i + A[i].catch)
      <4> DEFINE c == A[i].catch
      <4>1. c \in Int /\ (c \in {0, RETURN} \/ (j - 1) + c \in 1 .. m + 1) /\ j \in Int
        BY <3>1, <3>2, <3>3
      <4> HIDE DEF c
      <4>2. c \in {0, RETURN} \/ (j + c \in 2 .. m + 2 /\ j + c \in 1 .. m + n + 3 /\ (j + c) - 1 = (j - 1) + c)
        BY <4>1, <1>1
      <4> QED BY <4>2 DEF c
    <3>5. Target(C, h, e, j) = Target(A, f, e, i)
      BY <3>2, <3>4, <1>5 DEF Target
    <3>6. h[j] = f[i] /\ h[j + 1] = f[i + 1]
      BY <3>1, <1>5
    <3>7. Sound(A[i], f[i], f[i + 1], Target(A, f, e, i))
      BY <3>1, <1>1, <1>2 DEF Annotated
    <3> QED BY <3>2, <3>4, <3>5, <3>6, <3>7
  <2>4. CASE j \in m + 3 .. m + n + 2
    <3> DEFINE i == j - (m + 2)
    <3>1. i \in 1 .. n /\ j \in m + 3 .. m + n + 3 /\ j + 1 \in m + 3 .. m + n + 3 /\ (j + 1) - (m + 2) = i + 1
      BY <2>4, <1>1
    <3>2. C[j] = B[i] /\ B[i].catch \in Int
      BY <2>4, <1>4 DEF StepType
    <3>3. B[i].catch \in {0, RETURN} \/ i + B[i].catch \in 1 .. n + 1
      BY <3>1, <1>1, <1>3 DEF Annotated
    <3>4. B[i].catch \in {0, RETURN}
          \/ (j + B[i].catch \in m + 3 .. m + n + 3 /\ j + B[i].catch \in 1 .. m + n + 3
              /\ (j + B[i].catch) - (m + 2) = i + B[i].catch)
      <4> DEFINE c == B[i].catch
      <4>1. c \in Int /\ (c \in {0, RETURN} \/ (j - (m + 2)) + c \in 1 .. n + 1) /\ j \in Int
        BY <3>1, <3>2, <3>3
      <4> HIDE DEF c
      <4>2. c \in {0, RETURN} \/ (j + c \in m + 3 .. m + n + 3 /\ j + c \in 1 .. m + n + 3
                                  /\ (j + c) - (m + 2) = (j - (m + 2)) + c)
        BY <4>1, <1>1
      <4> QED BY <4>2 DEF c
    <3>5. Target(C, h, e, j) = Target(B, k, e, i)
      BY <3>2, <3>4, <1>5 DEF Target
    <3>6. h[j] = k[i] /\ h[j + 1] = k[i + 1]
      BY <3>1, <1>5
    <3>7. Sound(B[i], k[i], k[i + 1], Target(B, k, e, i))
      BY <3>1, <1>1, <1>3 DEF Annotated
    <3> QED BY <3>2, <3>4, <3>5, <3>6, <3>7
  <2>5. j = 1 \/ j = m + 2 \/ j \in 2 .. m + 1 \/ j \in m + 3 .. m + n + 2
    BY <1>1
  <2> QED BY <2>1, <2>2, <2>3, <2>4, <2>5
<1>7. Annotated(C, h, e)
  <2>1. (m + n + 2) + 1 = m + n + 3
    BY <1>1
  <2> QED BY <1>4, <1>6, <2>1 DEF Annotated
<1>8. Leads(e, m + n + 2, v, C, w)
  <2>1. (m + n + 2) + 1 = m + n + 3 /\ m + n + 2 \in Nat
    BY <1>1
  <2> QED BY <1>4, <1>5, <1>7, <2>1 DEF Leads
<1> QED BY <1>8 DEF C

(* Sequences of several steps.                                             *)
Longer(A, B, n, s) ==
  B \in Seq(StepType) /\ Len(B) = n + 1 /\ B[n + 1] = s /\ \A i \in 1 .. n : B[i] = A[i]

LEMMA Further ==
  ASSUME NEW e, NEW n, NEW u, NEW v, NEW w, NEW A, NEW B, NEW s,
         Leads(e, n, u, A, v), Goes(e, s, v, w), Longer(A, B, n, s)
  PROVE  Leads(e, n + 1, u, B, w)
<1> DEFINE C == A \o <<s>>
<1>1. A \in Seq(StepType) /\ n \in Nat /\ Len(A) = n /\ s \in StepType
  BY DEF Leads, Goes
<1>2. C \in Seq(StepType) /\ Len(C) = n + 1 /\ C[n + 1] = s /\ \A i \in 1 .. n : C[i] = A[i]
  BY <1>1
<1>3. Leads(e, n + 1, u, C, w)
  BY Single, Chain
<1> HIDE DEF C
<1>4. \A i \in 1 .. n + 1 : C[i] = B[i]
  <2>1. \A i \in 1 .. n + 1 : i \in 1 .. n \/ i = n + 1
    BY <1>1
  <2> QED BY <1>2, <2>1 DEF Longer
<1>5. C = B
  BY <1>2, <1>4, SeqEqual DEF Longer
<1> QED BY <1>3, <1>5

LEMMA Two ==
  ASSUME NEW e, NEW v1, NEW v2, NEW v3, NEW s1, NEW s2, Goes(e, s1, v1, v2), Goes(e, s2, v2, v3)
  PROVE  Leads(e, 2, v1, <<s1, s2>>, v3)
<1> DEFINE A == <<s1>>
           B == <<s1, s2>>
<1>1. Leads(e, 1, v1, A, v2) /\ Goes(e, s2, v2, v3)
  BY Single
<1>2. s1 \in StepType /\ s2 \in StepType
  BY DEF Goes
<1>3. Longer(A, B, 1, s2) /\ 1 + 1 = 2
  BY <1>2 DEF Longer
<1> HIDE DEF A, B
<1>4. Leads(e, 1 + 1, v1, B, v3)
  BY <1>1, <1>3, Further
<1>5. Leads(e, 2, v1, B, v3)
  BY <1>3, <1>4
<1> QED BY <1>5 DEF B

LEMMA Three ==
  ASSUME NEW e, NEW v1, NEW v2, NEW v3, NEW v4, NEW s1, NEW s2, NEW s3, Goes(e, s1, v1, v2),
         Goes(e, s2, v2, v3), Goes(e, s3, v3, v4)
  PROVE  Leads(e, 3, v1, <<s1, s2, s3>>, v4)
<1> DEFINE A == <<s1, s2>>
           B == <<s1, s2, s3>>
<1>1. Leads(e, 2, v1, A, v3) /\ Goes(e, s3, v3, v4)
  BY Two
<1>2. s1 \in StepType /\ s2 \in StepType /\ s3 \in StepType
  BY DEF Goes
<1>3. Longer(A, B, 2, s3) /\ 2 + 1 = 3
  BY <1>2 DEF Longer
<1> HIDE DEF A, B
<1>4. Leads(e, 2 + 1, v1, B, v4)
  BY <1>1, <1>3, Further
<1>5. Leads(e, 3, v1, B, v4)
  BY <1>3, <1>4
<1> QED BY <1>5 DEF B

LEMMA Four ==
  ASSUME NEW e, NEW v1, NEW v2, NEW v3, NEW v4, NEW v5, NEW s1, NEW s2, NEW s3, NEW s4,
         Goes(e, s1, v1, v2), Goes(e, s2, v2, v3), Goes(e, s3, v3, v4), Goes(e, s4, v4, v5)
  PROVE  Leads(e, 4, v1, <<s1, s2, s3, s4>>, v5)
<1> DEFINE A == <<s1, s2, s3>>
           B == <<s1, s2, s3, s4>>
<1>1. Leads(e, 3, v1, A, v4) /\ Goes(e, s4, v4, v5)
  BY Three
<1>2. s1 \in StepType /\ s2 \in StepType /\ s3 \in StepType /\ s4 \in StepType
  BY DEF Goes
<1>3. Longer(A, B, 3, s4) /\ 3 + 1 = 4
  BY <1>2 DEF Longer
<1> HIDE DEF A, B
<1>4. Leads(e, 3 + 1, v1, B, v5)
  BY <1>1, <1>3, Further
<1>5. Leads(e, 4, v1, B, v5)
  BY <1>3, <1>4
<1> QED BY <1>5 DEF B

LEMMA Five ==
  ASSUME NEW e, NEW v1, NEW v2, NEW v3, NEW v4, NEW v5, NEW v6, NEW s1, NEW s2, NEW s3, NEW s4, NEW s5,
         Goes(e, s1, v1, v2), Goes(e, s2, v2, v3), Goes(e, s3, v3, v4), Goes(e, s4, v4, v5),
         Goes(e, s5, v5, v6)
  PROVE  Leads(e, 5, v1, <<s1, s2, s3, s4, s5>>, v6)
<1> DEFINE A == <<s1, s2, s3, s4>>
           B == <<s1, s2, s3, s4, s5>>
<1>1. Leads(e, 4, v1, A, v5) /\ Goes(e, s5, v5, v6)
  BY Four
<1>2. s1 \in StepType /\ s2 \in StepType /\ s3 \in StepType /\ s4 \in StepType /\ s5 \in StepType
  BY DEF Goes
<1>3. Longer(A, B, 4, s5) /\ 4 + 1 = 5
  BY <1>2 DEF Longer
<1> HIDE DEF A, B
<1>4. Leads(e, 4 + 1, v1, B, v6)
  BY <1>1, <1>3, Further
<1>5. Leads(e, 5, v1, B, v6)
  BY <1>3, <1>4
<1> QED BY <1>5 DEF B

LEMMA Six ==
  ASSUME NEW e, NEW v1, NEW v2, NEW v3, NEW v4, NEW v5, NEW v6, NEW v7, NEW s1, NEW s2, NEW s3, NEW s4,
         NEW s5, NEW s6, Goes(e, s1, v1, v2), Goes(e, s2, v2, v3), Goes(e, s3, v3, v4),
         Goes(e, s4, v4, v5), Goes(e, s5, v5, v6), Goes(e, s6, v6, v7)
  PROVE  Leads(e, 6, v1, <<s1, s2, s3, s4, s5, s6>>, v7)
<1> DEFINE A == <<s1, s2, s3, s4, s5>>
           B == <<s1, s2, s3, s4, s5, s6>>
<1>1. Leads(e, 5, v1, A, v6) /\ Goes(e, s6, v6, v7)
  BY Five
<1>2. s1 \in StepType /\ s2 \in StepType /\ s3 \in StepType /\ s4 \in StepType /\ s5 \in StepType /\ s6 \in StepType
  BY DEF Goes
<1>3. Longer(A, B, 5, s6) /\ 5 + 1 = 6
  BY <1>2 DEF Longer
<1> HIDE DEF A, B
<1>4. Leads(e, 5 + 1, v1, B, v7)
  BY <1>1, <1>3, Further
<1>5. Leads(e, 6, v1, B, v7)
  BY <1>3, <1>4
<1> QED BY <1>5 DEF B

LEMMA Seven ==
  ASSUME NEW e, NEW v1, NEW v2, NEW v3, NEW v4, NEW v5, NEW v6, NEW v7, NEW v8, NEW s1, NEW s2, NEW s3,
         NEW s4, NEW s5, NEW s6, NEW s7, Goes(e, s1, v1, v2), Goes(e, s2, v2, v3), Goes(e, s3, v3, v4),
         Goes(e, s4, v4, v5), Goes(e, s5, v5, v6), Goes(e, s6, v6, v7), Goes(e, s7, v7, v8)
  PROVE  Leads(e, 7, v1, <<s1, s2, s3, s4, s5, s6, s7>>, v8)
<1> DEFINE A == <<s1, s2, s3, s4, s5, s6>>
           B == <<s1, s2, s3, s4, s5, s6, s7>>
<1>1. Leads(e, 6, v1, A, v7) /\ Goes(e, s7, v7, v8)
  BY Six
<1>2. s1 \in StepType /\ s2 \in StepType /\ s3 \in StepType /\ s4 \in StepType /\ s5 \in StepType /\ s6 \in StepType /\ s7 \in StepType
  BY DEF Goes
<1>3. Longer(A, B, 6, s7) /\ 6 + 1 = 7
  BY <1>2 DEF Longer
<1> HIDE DEF A, B
<1>4. Leads(e, 6 + 1, v1, B, v8)
  BY <1>1, <1>3, Further
<1>5. Leads(e, 7, v1, B, v8)
  BY <1>3, <1>4
<1> QED BY <1>5 DEF B

LEMMA Eight ==
  ASSUME NEW e, NEW v1, NEW v2, NEW v3, NEW v4, NEW v5, NEW v6, NEW v7, NEW v8, NEW v9, NEW s1, NEW s2,
         NEW s3, NEW s4, NEW s5, NEW s6, NEW s7, NEW s8, Goes(e, s1, v1, v2), Goes(e, s2, v2, v3),
         Goes(e, s3, v3, v4), Goes(e, s4, v4, v5), Goes(e, s5, v5, v6), Goes(e, s6, v6, v7),
         Goes(e, s7, v7, v8), Goes(e, s8, v8, v9)
  PROVE  Leads(e, 8, v1, <<s1, s2, s3, s4, s5, s6, s7, s8>>, v9)
<1> DEFINE A == <<s1, s2, s3, s4, s5, s6, s7>>
           B == <<s1, s2, s3, s4, s5, s6, s7, s8>>
<1>1. Leads(e, 7, v1, A, v8) /\ Goes(e, s8, v8, v9)
  BY Seven
<1>2. s1 \in StepType /\ s2 \in StepType /\ s3 \in StepType /\ s4 \in StepType /\ s5 \in StepType /\ s6 \in StepType /\ s7 \in StepType /\ s8 \in StepType
  BY DEF Goes
<1>3. Longer(A, B, 7, s8) /\ 7 + 1 = 8
  BY <1>2 DEF Longer
<1> HIDE DEF A, B
<1>4. Leads(e, 7 + 1, v1, B, v9)
  BY <1>1, <1>3, Further
<1>5. Leads(e, 8, v1, B, v9)
  BY <1>3, <1>4
<1> QED BY <1>5 DEF B

LEMMA Nine ==
  ASSUME NEW e, NEW v1, NEW v2, NEW v3, NEW v4, NEW v5, NEW v6, NEW v7, NEW v8, NEW v9, NEW v10, NEW s1,
         NEW s2, NEW s3, NEW s4, NEW s5, NEW s6, NEW s7, NEW s8, NEW s9, Goes(e, s1, v1, v2),
         Goes(e, s2, v2, v3), Goes(e, s3, v3, v4), Goes(e, s4, v4, v5), Goes(e, s5, v5, v6),
         Goes(e, s6, v6, v7), Goes(e, s7, v7, v8), Goes(e, s8, v8, v9), Goes(e, s9, v9, v10)
  PROVE  Leads(e, 9, v1, <<s1, s2, s3, s4, s5, s6, s7, s8, s9>>, v10)
<1> DEFINE A == <<s1, s2, s3, s4, s5, s6, s7, s8>>
           B == <<s1, s2, s3, s4, s5, s6, s7, s8, s9>>
<1>1. Leads(e, 8, v1, A, v9) /\ Goes(e, s9, v9, v10)
  BY Eight
<1>2. s1 \in StepType /\ s2 \in StepType /\ s3 \in StepType /\ s4 \in StepType /\ s5 \in StepType /\ s6 \in StepType /\ s7 \in StepType /\ s8 \in StepType /\ s9 \in StepType
  BY DEF Goes
<1>3. Longer(A, B, 8, s9) /\ 8 + 1 = 9
  BY <1>2 DEF Longer
<1> HIDE DEF A, B
<1>4. Leads(e, 8 + 1, v1, B, v10)
  BY <1>1, <1>3, Further
<1>5. Leads(e, 9, v1, B, v10)
  BY <1>3, <1>4
<1> QED BY <1>5 DEF B

-----------------------------------------------------------------------------
(***************************************************************************)
(* What the steps of a test do to its account.                             *)
(***************************************************************************)
Flat(cap, price, ready, know)    == Own(cap, {0}, {}, price, ready, know)
Held(cap, x, q, p, ready, know)  == Own(cap, {x}, {q}, {p}, ready, know)

Off(w) == w.kind \in {"own", "idle", "dead"}

LEMMA Views ==
  /\ Off(Gone) /\ Off(Dead) /\ \A mark : Off(Idle(mark))
  /\ \A cap, pos, at, price, ready, know :
       Off(Own(cap, pos, at, price, ready, know)) /\ Own(cap, pos, at, price, ready, know).kind = "own"
  /\ \A cap, price, ready, know :
       Off(Flat(cap, price, ready, know)) /\ Flat(cap, price, ready, know).kind = "own"
  /\ \A cap, x, q, p, ready, know :
       Off(Held(cap, x, q, p, ready, know)) /\ Held(cap, x, q, p, ready, know).kind = "own"
  /\ Gone.kind = "own"
BY DEF Off, Own, Gone, Dead, Idle, Flat, Held

(* The accounts a view allows.                                             *)
LEMMA AgreesOwn ==
  ASSUME NEW cap, NEW pos, NEW at, NEW price, NEW ready, NEW know, NEW a, NEW k, NEW p
  PROVE  /\ Agrees(Own(cap, pos, at, price, ready, know), a, k, p) <=>
              /\ a.capital \in cap /\ a.pos \in pos /\ (a.pos # 0 => a.at \in at) /\ p \in price
              /\ ready => a.pnl # "warming"
              /\ know = "now" => k.owner = PAYER /\ k.pos = a.pos /\ k.capital = a.capital
              /\ know = "then" => (a.pos # 0 => k.pos = a.pos)
         /\ Allows(Own(cap, pos, at, price, ready, know), a, k, p)
              <=> Agrees(Own(cap, pos, at, price, ready, know), a, k, p)
BY DEF Agrees, Own, Allows

OwnSure == {"PushOraclePrice", "KeeperCrank", "DepositCollateral", "Read", "Look", "Wait"}
OwnOps  == OwnSure \cup {"TradeCpi", "Unwind", "WithdrawCollateral", "WithdrawSeen", "CloseAccount"} \cup OwnTests

(* A refusal a test does not get over needs nothing of the view it leads to.*)
Faced(s, a, k, p, off) == Borne(s, a, k) => Allows(off, a, k, p)

LEMMA NotBorne ==
  ASSUME NEW s, NEW a, NEW k,
         \/ s.catch \in {0, RETURN}
         \/ s.catch = 1 /\ s.op \in {"TradeCpi", "CloseAccount"}
         \/ s.op = "TradeCpi" /\ a.pos # 0
  PROVE  ~ Borne(s, a, k)
BY DEF Borne, RETURN

(* One kind of step at a time.                                             *)
LEMMA Effects ==
  ASSUME NEW s, NEW a, NEW k, NEW p, NEW on, NEW off
  PROVE  /\ s.op = "PushOraclePrice" => (OwnEffect(s, a, k, p, on, off) <=> Allows(on, a, k, s.n))
         /\ s.op = "KeeperCrank" => (OwnEffect(s, a, k, p, on, off) <=>
              /\ Allows(on, Settled(a, p), k, p)
              /\ Settled(a, p).pos # 0 /\ Settled(a, p).capital = 0
                   => Allows(on, [Settled(a, p) EXCEPT !.pos = 0], k, p))
         /\ s.op = "DepositCollateral" =>
              (OwnEffect(s, a, k, p, on, off) <=> Allows(on, [a EXCEPT !.capital = @ + s.n], k, p))
         /\ s.op = "TradeCpi" => (OwnEffect(s, a, k, p, on, off) <=>
              Trades(a, k, p, s.n, on, off) /\ Faced(s, a, k, p, off))
         /\ s.op = "Unwind" =>
              (OwnEffect(s, a, k, p, on, off) <=>
                 IF k.pos # 0 THEN Trades(a, k, p, -k.pos, on, off) ELSE Allows(on, a, k, p))
         /\ s.op = "WithdrawCollateral" => (OwnEffect(s, a, k, p, on, off) <=>
              Pays(a, k, p, s.n, on, off) /\ Faced(s, a, k, p, off))
         /\ s.op = "WithdrawSeen" =>
              (OwnEffect(s, a, k, p, on, off) <=>
                 /\ IF k.capital > 0 THEN Pays(a, k, p, k.capital - s.n, on, off) ELSE Allows(on, a, k, p)
                 /\ Faced(s, a, k, p, off))
         /\ s.op = "CloseAccount" =>
              (OwnEffect(s, a, k, p, on, off) <=>
                 /\ (Touched(a, p).pos = 0 /\ Touched(a, p).pnl = "none") \/ Allows(off, a, k, p)
                 /\ Faced(s, a, k, p, off))
         /\ s.op \in {"Read", "Look"} => (OwnEffect(s, a, k, p, on, off) <=> Allows(on, a, a, p))
         /\ s.op = "Wait" => (OwnEffect(s, a, k, p, on, off) <=> Allows(on, Warm(a), k, p))
         /\ s.op \in OwnTests =>
              (OwnEffect(s, a, k, p, on, off) <=>
                 IF Jumps(s, k) THEN Allows(off, a, k, p) ELSE Allows(on, a, k, p))
BY DEF OwnEffect, OwnTests, Borne, Faced

LEMMA OwnBy ==
  ASSUME NEW s, NEW v, NEW on, NEW off, s.op \in OwnOps, s.slot = OWN, Off(off), s.op # "Go" => on.kind = "own",
         s.op = "PushOraclePrice" => s.n \in Prices, s.op = "DepositCollateral" => s.n \in Nat,
         \A a, k \in Account, p \in Prices :
           a.owner = PAYER /\ Agrees(v, a, k, p) => OwnEffect(s, a, k, p, on, off)
  PROVE  OwnStep(s, v, on, off)
BY DEF OwnStep, OwnOps, OwnSure, Off

LEMMA FromGone ==
  ASSUME NEW s, s.op \in OwnOps, s.slot = OWN, NEW on, NEW off, Off(off), s.op # "Go" => on.kind = "own",
         s.op = "PushOraclePrice" => s.n \in Prices, s.op = "DepositCollateral" => s.n \in Nat
  PROVE  OwnStep(s, Gone, on, off)
<1>1. ASSUME NEW a \in Account, NEW k \in Account, NEW p \in Prices, a.owner = PAYER /\ Agrees(Gone, a, k, p)
      PROVE  OwnEffect(s, a, k, p, on, off)
  BY <1>1 DEF Gone, Agrees, Own
<1>2. \A a, k \in Account, p \in Prices :
        a.owner = PAYER /\ Agrees(Gone, a, k, p) => OwnEffect(s, a, k, p, on, off)
  BY <1>1
<1> QED BY <1>2, OwnBy

(* A flat account is not settled; one that is settled at the price neither.*)
LEMMA SettledFlat ==
  ASSUME NEW a \in Account, NEW p \in Prices, a.pos = 0 \/ a.at = p
  PROVE  /\ Settled(a, p) \in Account /\ Settled(a, p).owner = a.owner /\ Settled(a, p).capital = a.capital
         /\ Settled(a, p).pos = a.pos /\ Settled(a, p).at = p /\ Settled(a, p).pnl = a.pnl
<1>1. a.pos * (p - a.at) = 0
  BY DEF Account, Prices
<1>2. Settled(a, p) = [a EXCEPT !.at = p, !.capital = a.capital, !.pnl = a.pnl]
  <2> DEFINE g == a.pos * (p - a.at)
  <2>1. Settled(a, p) = [a EXCEPT !.at = p, !.capital = IF g < 0 THEN Floor(@ + g) ELSE @,
                                  !.pnl = IF g > 0 THEN "warming" ELSE @]
    BY DEF Settled
  <2>2. g = 0
    BY <1>1
  <2> HIDE DEF g
  <2> QED BY <2>1, <2>2 DEF Account
<1> QED BY <1>2, SettledAccount DEF Account

LEMMA TouchedFlat ==
  ASSUME NEW a \in Account, NEW p \in Prices, a.pos = 0 \/ a.at = p
  PROVE  LET t == Touched(a, p)
         IN  /\ t \in Account /\ t.owner = a.owner /\ t.pos = a.pos /\ t.at = p
             /\ a.capital <= t.capital /\ t.capital <= a.capital + 1
             /\ a.pnl # "warming" => t.pnl = "none"
             /\ t.pnl = "warming" => a.pnl = "warming"
<1> DEFINE b == Settled(a, p)
           c == [b EXCEPT !.pnl = "none", !.capital = b.capital + 1]
<1>1. /\ b \in Account /\ b.owner = a.owner /\ b.capital = a.capital /\ b.pos = a.pos /\ b.at = p
      /\ b.pnl = a.pnl
  BY SettledFlat
<1>2. Touched(a, p) = IF b.pnl = "ripe" THEN c ELSE b
  BY <1>1 DEF Touched, Account
<1> HIDE DEF b
<1>3. b.capital + 1 \in Nat /\ b.pnl \in {"none", "warming", "ripe"}
  BY <1>1 DEF Account
<1>4. c \in Account /\ c.owner = b.owner /\ c.pos = b.pos /\ c.at = b.at /\ c.capital = b.capital + 1
      /\ c.pnl = "none"
  BY <1>1, <1>3 DEF Account
<1> HIDE DEF c
<1>5. b.capital <= b.capital + 1 /\ b.capital <= b.capital
  BY <1>1 DEF Account
<1> QED BY <1>1, <1>2, <1>3, <1>4, <1>5

(* A position is opened, closed or flipped where the account is settled.   *)
LEMMA SwappedFlat ==
  ASSUME NEW a \in Account, NEW p \in Prices, a.pos = 0 \/ a.at = p, NEW d \in Int
  PROVE  LET b == Swapped(a, p, d)
         IN  b.capital = a.capital /\ b.pos = a.pos + d /\ b.at = p /\ b.pnl = a.pnl
<1>1. a.pos + d \in Int
  BY DEF Account
<1> QED BY <1>1, SettledFlat DEF Swapped, Account

LEMMA Push1 ==
  ASSUME NEW s, s.op = "PushOraclePrice", s.slot = OWN, s.n \in Prices, NEW off, Off(off),
         NEW cap, NEW pos, NEW at, NEW price, NEW ready, NEW know
  PROVE  OwnStep(s, Own(cap, pos, at, price, ready, know),
                 Own(cap, pos, at, {s.n}, ready, know), off)
<1> DEFINE v  == Own(cap, pos, at, price, ready, know)
           on == Own(cap, pos, at, {s.n}, ready, know)
<1>1. ASSUME NEW a \in Account, NEW k \in Account, NEW q \in Prices, a.owner = PAYER, Agrees(v, a, k, q)
      PROVE  OwnEffect(s, a, k, q, on, off)
  <2>1. Allows(on, a, k, s.n)
    BY <1>1, AgreesOwn
  <2> QED BY <2>1, Effects
<1>2. s.op \in OwnOps /\ Off(off) /\ on.kind = "own"
  BY Views DEF OwnOps, OwnSure, OwnTests, Own
<1> HIDE DEF v, on
<1>3. OwnStep(s, v, on, off)
  BY <1>1, <1>2, OwnBy
<1> QED BY <1>3 DEF v, on

LEMMA Read1 ==
  ASSUME NEW s, s.op \in {"Read", "Look"}, s.slot = OWN, NEW off, Off(off),
         NEW cap, NEW pos, NEW at, NEW price, NEW ready, NEW know
  PROVE  OwnStep(s, Own(cap, pos, at, price, ready, know),
                 Own(cap, pos, at, price, ready, "now"), off)
<1> DEFINE v  == Own(cap, pos, at, price, ready, know)
           on == Own(cap, pos, at, price, ready, "now")
<1>1. ASSUME NEW a \in Account, NEW k \in Account, NEW q \in Prices, a.owner = PAYER, Agrees(v, a, k, q)
      PROVE  OwnEffect(s, a, k, q, on, off)
  <2>1. Allows(on, a, a, q)
    BY <1>1, AgreesOwn
  <2> QED BY <2>1, Effects
<1>2. s.op \in OwnOps /\ Off(off) /\ on.kind = "own"
  BY Views DEF OwnOps, OwnSure, OwnTests, Own
<1> HIDE DEF v, on
<1>3. OwnStep(s, v, on, off)
  BY <1>1, <1>2, OwnBy
<1> QED BY <1>3 DEF v, on

LEMMA Wait1 ==
  ASSUME NEW s, s.op = "Wait", s.slot = OWN, NEW off, Off(off),
         NEW cap, NEW pos, NEW at, NEW price, NEW ready, NEW know
  PROVE  OwnStep(s, Own(cap, pos, at, price, ready, know),
                 Own(cap, pos, at, price, TRUE, know), off)
<1> DEFINE v  == Own(cap, pos, at, price, ready, know)
           on == Own(cap, pos, at, price, TRUE, know)
<1>1. ASSUME NEW a \in Account, NEW k \in Account, NEW q \in Prices, a.owner = PAYER, Agrees(v, a, k, q)
      PROVE  OwnEffect(s, a, k, q, on, off)
  <2>1. Warm(a).capital = a.capital /\ Warm(a).pos = a.pos /\ Warm(a).at = a.at /\ Warm(a).pnl # "warming"
    BY DEF Warm, Account
  <2> DEFINE b == Warm(a)
  <2>3. b.capital = a.capital /\ b.pos = a.pos /\ b.at = a.at /\ (TRUE => b.pnl # "warming")
    BY <2>1
  <2> HIDE DEF b
  <2>4. Allows(on, b, k, q)
    BY <1>1, <2>3, AgreesOwn DEF Agrees, Own, Allows
  <2>2. Allows(on, Warm(a), k, q)
    BY <2>4 DEF b
  <2> QED BY <2>2, Effects
<1>2. s.op \in OwnOps /\ Off(off) /\ on.kind = "own"
  BY Views DEF OwnOps, OwnSure, OwnTests, Own
<1> HIDE DEF v, on
<1>3. OwnStep(s, v, on, off)
  BY <1>1, <1>2, OwnBy
<1> QED BY <1>3 DEF v, on

LEMMA Deposit1 ==
  ASSUME NEW s, s.op = "DepositCollateral", s.slot = OWN, s.n \in Nat, NEW off, Off(off), NEW c \in Nat,
         NEW price, NEW ready
  PROVE  OwnStep(s, Flat({c}, price, ready, "no"),
                 Flat({c + s.n}, price, ready, "no"), off)
<1> DEFINE v  == Flat({c}, price, ready, "no")
           on == Flat({c + s.n}, price, ready, "no")
<1>1. ASSUME NEW a \in Account, NEW k \in Account, NEW q \in Prices, a.owner = PAYER, Agrees(v, a, k, q)
      PROVE  OwnEffect(s, a, k, q, on, off)
  <2> DEFINE b == [a EXCEPT !.capital = @ + s.n]
  <2>1. b.capital = a.capital + s.n /\ b.pos = a.pos /\ b.pnl = a.pnl
    BY DEF Account
  <2> HIDE DEF b
  <2>2. Allows(on, b, k, q)
    BY <1>1, <2>1, AgreesOwn DEF Flat
  <2> QED BY <2>2, Effects DEF b
<1>2. s.op \in OwnOps /\ Off(off) /\ on.kind = "own"
  BY Views DEF OwnOps, OwnSure, OwnTests, Own
<1> HIDE DEF v, on
<1>3. OwnStep(s, v, on, off)
  BY <1>1, <1>2, OwnBy
<1> QED BY <1>3 DEF v, on

LEMMA Crank1 ==
  ASSUME NEW s, s.op = "KeeperCrank", s.slot = OWN, NEW off, Off(off), NEW cap, NEW price, NEW ready, NEW know
  PROVE  OwnStep(s, Flat(cap, price, ready, know),
                 Flat(cap, price, ready, know), off)
<1> DEFINE v  == Flat(cap, price, ready, know)
           on == Flat(cap, price, ready, know)
<1>1. ASSUME NEW a \in Account, NEW k \in Account, NEW q \in Prices, a.owner = PAYER, Agrees(v, a, k, q)
      PROVE  OwnEffect(s, a, k, q, on, off)
  <2>1. a.pos = 0
    BY <1>1, AgreesOwn DEF Flat
  <2> DEFINE u == Settled(a, q)
  <2>2. u.capital = a.capital /\ u.pos = 0 /\ u.pnl = a.pnl
    BY <2>1, SettledFlat
  <2> HIDE DEF u
  <2>3. Allows(on, u, k, q)
    BY <1>1, <2>1, <2>2, AgreesOwn DEF Flat
  <2> QED BY <2>2, <2>3, Effects DEF u
<1>2. s.op \in OwnOps /\ Off(off) /\ on.kind = "own"
  BY Views DEF OwnOps, OwnSure, OwnTests, Own
<1> HIDE DEF v, on
<1>3. OwnStep(s, v, on, off)
  BY <1>1, <1>2, OwnBy
<1> QED BY <1>3 DEF v, on

LEMMA Opens1 ==
  ASSUME NEW s, s.op = "TradeCpi", s.slot = OWN, s.n \in Int, NEW off, Off(off), NEW c \in Nat,
         NEW p \in Prices, NEW ready, NEW know, Abs(s.n) <= LEVERAGE * c,
         s.catch \in {0, 1, RETURN} \/ off = Flat({c}, {p}, ready, know)
  PROVE  OwnStep(s, Flat({c}, {p}, ready, know),
                 Held({c}, s.n, p, p, ready, "no"), off)
<1> DEFINE v  == Flat({c}, {p}, ready, know)
           on == Held({c}, s.n, p, p, ready, "no")
<1>1. ASSUME NEW a \in Account, NEW k \in Account, NEW q \in Prices, a.owner = PAYER, Agrees(v, a, k, q)
      PROVE  OwnEffect(s, a, k, q, on, off)
  <2>1. a.pos = 0 /\ a.capital = c /\ (ready => a.pnl # "warming") /\ q = p
    BY <1>1, AgreesOwn DEF Flat
  <2> DEFINE b == Swapped(a, q, s.n)
  <2>2. b.capital = c /\ b.pos = s.n /\ b.at = p /\ b.pnl = a.pnl
    BY <2>1, SwappedFlat
  <2>3. Accepted(a, q, s.n)
    BY <2>2 DEF Covered, Accepted
  <2> HIDE DEF b
  <2>4. Allows(on, b, k, q)
    BY <2>1, <2>2, AgreesOwn DEF Held
  <2>5. Trades(a, k, q, s.n, on, off)
    BY <2>3, <2>4 DEF Trades, b
  <2>6. Allows(v, a, k, q)
    BY <1>1, AgreesOwn DEF Flat
  <2>7. Faced(s, a, k, q, off)
    BY <2>6, NotBorne DEF Faced
  <2> QED BY <2>5, <2>7, Effects
<1>2. s.op \in OwnOps /\ Off(off) /\ on.kind = "own"
  BY Views DEF OwnOps, OwnSure, OwnTests, Own
<1> HIDE DEF v, on
<1>3. OwnStep(s, v, on, off)
  BY <1>1, <1>2, OwnBy
<1> QED BY <1>3 DEF v, on

LEMMA Closes1 ==
  ASSUME NEW s, s.op = "TradeCpi", s.slot = OWN, NEW x \in Int, s.n = -x, NEW off, Off(off), NEW cap,
         NEW p \in Prices, NEW ready, NEW know, s.catch \in {0, 1, RETURN} \/ x # 0
  PROVE  OwnStep(s, Held(cap, x, p, p, ready, know),
                 Flat(cap, {p}, ready, "no"), off)
<1> DEFINE v  == Held(cap, x, p, p, ready, know)
           on == Flat(cap, {p}, ready, "no")
<1>1. ASSUME NEW a \in Account, NEW k \in Account, NEW q \in Prices, a.owner = PAYER, Agrees(v, a, k, q)
      PROVE  OwnEffect(s, a, k, q, on, off)
  <2>1. a.pos = x /\ a.capital \in cap /\ (ready => a.pnl # "warming") /\ q = p /\ (a.pos = 0 \/ a.at = q)
        /\ s.n \in Int
    BY <1>1, AgreesOwn DEF Held
  <2> DEFINE b == Swapped(a, q, s.n)
  <2>2. b.capital = a.capital /\ b.pos = a.pos + s.n /\ b.at = q /\ b.pnl = a.pnl
    BY <2>1, SwappedFlat
  <2>3. b.pos = 0 /\ a.pos + s.n = 0
    BY <2>1, <2>2
  <2>4. Accepted(a, q, s.n)
    BY <2>1, <2>3 DEF Abs, Accepted
  <2> HIDE DEF b
  <2>5. Allows(on, b, k, q)
    <3>1. b.capital \in cap /\ (ready => b.pnl # "warming") /\ (b.pos # 0 => b.at \in {p}) /\ q \in {p}
      BY <2>1, <2>2
    <3> QED BY <3>1, <2>3, AgreesOwn DEF Held, Flat
  <2>6. Trades(a, k, q, s.n, on, off)
    BY <2>4, <2>5 DEF Trades, b
  <2>7. Faced(s, a, k, q, off)
    BY <2>1, NotBorne DEF Faced
  <2> QED BY <2>6, <2>7, Effects
<1>2. s.op \in OwnOps /\ Off(off) /\ on.kind = "own"
  BY Views DEF OwnOps, OwnSure, OwnTests, Own
<1> HIDE DEF v, on
<1>3. OwnStep(s, v, on, off)
  BY <1>1, <1>2, OwnBy
<1> QED BY <1>3 DEF v, on

LEMMA Flips1 ==
  ASSUME NEW s, s.op = "TradeCpi", s.slot = OWN, NEW x \in Int, s.n = -2 * x, NEW off, Off(off), NEW cap,
         NEW p \in Prices, NEW ready, NEW know, s.catch \in {0, 1, RETURN}
  PROVE  OwnStep(s, Held(cap, x, p, p, ready, know),
                 Held(cap, -x, p, p, ready, "no"), off)
<1> DEFINE v  == Held(cap, x, p, p, ready, know)
           on == Held(cap, -x, p, p, ready, "no")
<1>1. ASSUME NEW a \in Account, NEW k \in Account, NEW q \in Prices, a.owner = PAYER, Agrees(v, a, k, q)
      PROVE  OwnEffect(s, a, k, q, on, off)
  <2>1. a.pos = x /\ a.capital \in cap /\ (ready => a.pnl # "warming") /\ q = p /\ (a.pos = 0 \/ a.at = q)
        /\ s.n \in Int
    BY <1>1, AgreesOwn DEF Held
  <2> DEFINE b == Swapped(a, q, s.n)
  <2>2. b.capital = a.capital /\ b.pos = a.pos + s.n /\ b.at = q /\ b.pnl = a.pnl
    BY <2>1, SwappedFlat
  <2>3. b.pos = -x /\ a.pos + s.n = -x
    BY <2>1, <2>2
  <2>4. Accepted(a, q, s.n)
    BY <2>1, <2>3 DEF Abs, Accepted
  <2> HIDE DEF b
  <2>5. Allows(on, b, k, q)
    <3>1. b.capital \in cap /\ (ready => b.pnl # "warming") /\ (b.pos # 0 => b.at \in {p}) /\ q \in {p}
      BY <2>1, <2>2
    <3> QED BY <3>1, <2>3, AgreesOwn DEF Held, Flat
  <2>6. Trades(a, k, q, s.n, on, off)
    BY <2>4, <2>5 DEF Trades, b
  <2>7. Faced(s, a, k, q, off)
    BY <2>1, NotBorne DEF Faced
  <2> QED BY <2>6, <2>7, Effects
<1>2. s.op \in OwnOps /\ Off(off) /\ on.kind = "own"
  BY Views DEF OwnOps, OwnSure, OwnTests, Own
<1> HIDE DEF v, on
<1>3. OwnStep(s, v, on, off)
  BY <1>1, <1>2, OwnBy
<1> QED BY <1>3 DEF v, on

LEMMA Refuses1 ==
  ASSUME NEW s, s.op = "TradeCpi", s.slot = OWN, s.n \in Int, NEW on, on.kind = "own", NEW c \in Nat,
         NEW p \in Prices, NEW ready, NEW know, Abs(s.n) > LEVERAGE * c
  PROVE  OwnStep(s, Flat({c}, {p}, ready, know), on, Flat({c}, {p}, ready, know))
<1> DEFINE v == Flat({c}, {p}, ready, know)
<1>1. ASSUME NEW a \in Account, NEW k \in Account, NEW q \in Prices, a.owner = PAYER, Agrees(v, a, k, q)
      PROVE  OwnEffect(s, a, k, q, on, v)
  <2>1. a.pos = 0 /\ a.capital = c
    BY <1>1, AgreesOwn DEF Flat
  <2> DEFINE b == Swapped(a, q, s.n)
  <2>2. b.capital = c /\ b.pos = s.n
    BY <2>1, SwappedFlat
  <2>3. ~ Covered(b)
    BY <2>2 DEF Covered, LEVERAGE, Abs
  <2>4. Abs(a.pos + s.n) > Abs(a.pos)
    BY <2>1 DEF Abs, LEVERAGE
  <2>5. ~ Accepted(a, q, s.n)
    BY <2>3, <2>4 DEF Accepted
  <2>6. Allows(v, a, k, q)
    BY <1>1, AgreesOwn DEF Flat
  <2>7. Trades(a, k, q, s.n, on, v)
    BY <2>5, <2>6 DEF Trades
  <2> QED BY <2>6, <2>7, Effects DEF Faced
<1>2. s.op \in OwnOps /\ Off(v)
  BY Views DEF OwnOps
<1> HIDE DEF v
<1>3. OwnStep(s, v, on, v)
  BY <1>1, <1>2, OwnBy
<1> QED BY <1>3 DEF v

(* Nothing is withdrawn that is not there; what a position needs stays.     *)
LEMMA PaidFlat ==
  ASSUME NEW a \in Account, NEW p \in Prices, a.pos = 0 \/ a.at = p, NEW n \in Int, n <= a.capital + 1
  PROVE  LET b == Paid(a, p, n)
             t == Touched(a, p)
         IN  /\ b.capital = t.capital - n /\ b.pos = a.pos /\ b.at = p /\ b.pnl = t.pnl
             /\ t.capital \in {a.capital, a.capital + 1}
             /\ b.pnl = "warming" => a.pnl = "warming"
<1> DEFINE t == Touched(a, p)
<1>1. t \in Account /\ t.pos = a.pos /\ t.at = p /\ a.capital <= t.capital /\ t.capital <= a.capital + 1
      /\ (t.pnl = "warming" => a.pnl = "warming")
  BY TouchedFlat
<1>2. Paid(a, p, n) = [t EXCEPT !.capital = t.capital - n]
  BY <1>1 DEF Paid, Account
<1> HIDE DEF t
<1>3. t.capital \in Nat /\ a.capital \in Nat
  BY <1>1 DEF Account
<1>4. t.capital \in {a.capital, a.capital + 1}
  BY <1>1, <1>3
<1> DEFINE b == [t EXCEPT !.capital = t.capital - n]
<1>5. b.capital = t.capital - n /\ b.pos = t.pos /\ b.at = t.at /\ b.pnl = t.pnl
  BY <1>1 DEF Account
<1> HIDE DEF b
<1> QED BY <1>1, <1>2, <1>4, <1>5 DEF t, b

LEMMA Withdraws1 ==
  ASSUME NEW s, s.op = "WithdrawCollateral", s.slot = OWN, s.n \in Nat, NEW off, Off(off),
         NEW cap, \A c \in cap : s.n <= c, NEW price, NEW ready, NEW know,
         s.catch \in {0, RETURN} \/ off = Flat(Nat, price, ready, "no")
  PROVE  OwnStep(s, Flat(cap, price, ready, know),
                 Flat(Nat, price, ready, "no"), off)
<1> DEFINE v  == Flat(cap, price, ready, know)
           on == Flat(Nat, price, ready, "no")
<1>1. ASSUME NEW a \in Account, NEW k \in Account, NEW q \in Prices, a.owner = PAYER, Agrees(v, a, k, q)
      PROVE  OwnEffect(s, a, k, q, on, off)
  <2>1. a.pos = 0 /\ a.capital \in cap /\ (ready => a.pnl # "warming") /\ q \in price /\ a.capital \in Nat
    BY <1>1, AgreesOwn DEF Flat, Account
  <2>2. s.n \in Int /\ s.n <= a.capital /\ s.n <= a.capital + 1
    BY <2>1
  <2> DEFINE n == s.n
           b == Paid(a, q, n)
           t == Touched(a, q)
  <2>3. b.capital = t.capital - n /\ b.pos = 0 /\ t.capital \in {a.capital, a.capital + 1}
        /\ (b.pnl = "warming" => a.pnl = "warming")
    BY <2>1, <2>2, PaidFlat
  <2>4. n \in Int /\ n <= a.capital
    BY <2>2
  <2> HIDE DEF n, b, t
  <2>5. b.capital \in Nat /\ t.capital >= n
    BY <2>1, <2>3, <2>4
  <2>6. Payable(a, q, n)
    BY <2>3, <2>5 DEF Payable, Covered, Abs, LEVERAGE, b, t
  <2>7. Allows(on, b, k, q)
    BY <2>1, <2>3, <2>5, AgreesOwn DEF Flat
  <2>8. Pays(a, k, q, n, on, off)
    BY <2>6, <2>7 DEF Pays, b
  <2>9. Allows(on, a, k, q)
    BY <2>1, AgreesOwn DEF Flat
  <2>10. Faced(s, a, k, q, off)
    BY <2>9, NotBorne DEF Faced
  <2> QED BY <2>8, <2>10, Effects DEF n
<1>2. s.op \in OwnOps /\ Off(off) /\ on.kind = "own"
  BY Views DEF OwnOps, OwnSure, OwnTests, Own
<1> HIDE DEF v, on
<1>3. OwnStep(s, v, on, off)
  BY <1>1, <1>2, OwnBy
<1> QED BY <1>3 DEF v, on

LEMMA Draws1 ==
  ASSUME NEW s, s.op = "WithdrawSeen", s.slot = OWN, s.n \in Nat, NEW off, Off(off),
         NEW cap, NEW price, NEW ready,
         s.catch \in {0, RETURN} \/ off \in {Flat(Nat, price, ready, "no"), Flat(cap, price, ready, "now")}
  PROVE  OwnStep(s, Flat(cap, price, ready, "now"),
                 Flat(Nat, price, ready, "no"), off)
<1> DEFINE v  == Flat(cap, price, ready, "now")
           on == Flat(Nat, price, ready, "no")
<1>1. ASSUME NEW a \in Account, NEW k \in Account, NEW q \in Prices, a.owner = PAYER, Agrees(v, a, k, q)
      PROVE  OwnEffect(s, a, k, q, on, off)
  <2>1. a.pos = 0 /\ a.capital \in cap /\ (ready => a.pnl # "warming") /\ q \in price /\ a.capital \in Nat
    BY <1>1, AgreesOwn DEF Flat, Account
  <2>9. k.capital = a.capital
    BY <1>1, AgreesOwn DEF Flat
  <2>2. k.capital - s.n \in Int /\ k.capital - s.n <= a.capital /\ k.capital - s.n <= a.capital + 1
    BY <2>1, <2>9
  <2> DEFINE n == k.capital - s.n
           b == Paid(a, q, n)
           t == Touched(a, q)
  <2>3. b.capital = t.capital - n /\ b.pos = 0 /\ t.capital \in {a.capital, a.capital + 1}
        /\ (b.pnl = "warming" => a.pnl = "warming")
    BY <2>1, <2>2, PaidFlat
  <2>4. n \in Int /\ n <= a.capital
    BY <2>2
  <2> HIDE DEF n, b, t
  <2>5. b.capital \in Nat /\ t.capital >= n
    BY <2>1, <2>3, <2>4
  <2>6. Payable(a, q, n)
    BY <2>3, <2>5 DEF Payable, Covered, Abs, LEVERAGE, b, t
  <2>7. Allows(on, b, k, q)
    BY <2>1, <2>3, <2>5, AgreesOwn DEF Flat
  <2>8. Pays(a, k, q, n, on, off)
    BY <2>6, <2>7 DEF Pays, b
  <2>10. Allows(on, a, k, q)
    BY <2>1, AgreesOwn DEF Flat
  <2>11. Allows(v, a, k, q)
    BY <1>1, AgreesOwn DEF Flat
  <2>12. Faced(s, a, k, q, off)
    BY <2>10, <2>11, NotBorne DEF Faced
  <2> QED BY <2>8, <2>10, <2>12, Effects DEF n
<1>2. s.op \in OwnOps /\ Off(off) /\ on.kind = "own"
  BY Views DEF OwnOps, OwnSure, OwnTests, Own
<1> HIDE DEF v, on
<1>3. OwnStep(s, v, on, off)
  BY <1>1, <1>2, OwnBy
<1> QED BY <1>3 DEF v, on

(* One unit of position needs one unit of capital.                         *)
LEMMA Keeps1 ==
  ASSUME NEW s, s.op = "WithdrawCollateral", s.slot = OWN, s.n \in Nat,
         NEW cap, \A c \in cap : c \in Nat /\ c # 0, NEW p \in Prices, NEW ready, NEW know
  PROVE  OwnStep(s, Held(cap, 1, p, p, ready, know),
                 Held(Nat \ {0}, 1, p, p, ready, "no"), Held(Nat \ {0}, 1, p, p, ready, "no"))
<1> DEFINE v  == Held(cap, 1, p, p, ready, know)
           on == Held(Nat \ {0}, 1, p, p, ready, "no")
<1>1. ASSUME NEW a \in Account, NEW k \in Account, NEW q \in Prices, a.owner = PAYER, Agrees(v, a, k, q)
      PROVE  OwnEffect(s, a, k, q, on, Held(Nat \ {0}, 1, p, p, ready, "no"))
  <2>0. a.pos = 1 /\ a.capital \in cap /\ (ready => a.pnl # "warming") /\ q = p /\ (a.pos # 0 => a.at = q)
    BY <1>1, AgreesOwn DEF Held
  <2>1. a.pos = 1 /\ a.capital \in Nat \ {0} /\ (ready => a.pnl # "warming") /\ q = p /\ a.at = q
    <3>1. 1 # 0 /\ (a.capital \in cap => a.capital \in Nat \ {0})
      OBVIOUS
    <3> QED BY <2>0, <3>1
  <2>2. Allows(on, a, k, q)
    BY <2>1, AgreesOwn DEF Held
  <2> DEFINE b == Paid(a, q, s.n)
             t == Touched(a, q)
  <2>3. ASSUME Payable(a, q, s.n) PROVE Allows(on, b, k, q)
    <3>1. t.capital >= s.n /\ t.capital \in {a.capital, a.capital + 1}
      <4>1. t \in Account /\ a.capital <= t.capital /\ t.capital <= a.capital + 1
        BY <2>1, TouchedFlat
      <4>2. t.capital >= s.n
        BY <2>3 DEF Payable
      <4> HIDE DEF t
      <4> QED BY <2>1, <4>1, <4>2 DEF Account
    <3>2. s.n <= a.capital + 1
      <4> HIDE DEF t
      <4> QED BY <2>1, <3>1
    <3>3. b.capital = t.capital - s.n /\ b.pos = a.pos /\ b.at = q /\ (b.pnl = "warming" => a.pnl = "warming")
      BY <2>1, <3>2, PaidFlat
    <3>4. Covered(b)
      BY <2>3 DEF Payable
    <3> HIDE DEF b, t
    <3>5. b.capital \in Nat /\ b.capital # 0
      BY <2>1, <3>1, <3>3, <3>4 DEF Covered, Abs, LEVERAGE
    <3> QED BY <2>1, <3>3, <3>5, AgreesOwn DEF Held
  <2>4. Pays(a, k, q, s.n, on, on)
    BY <2>2, <2>3 DEF Pays, b
  <2> QED BY <2>2, <2>4, Effects DEF Faced
<1>2. s.op \in OwnOps /\ Off(Held(Nat \ {0}, 1, p, p, ready, "no")) /\ on.kind = "own"
  BY Views DEF OwnOps, OwnSure, OwnTests, Own
<1> HIDE DEF v, on
<1>3. OwnStep(s, v, on, Held(Nat \ {0}, 1, p, p, ready, "no"))
  BY <1>1, <1>2, OwnBy
<1> QED BY <1>3 DEF v, on

(* A flat account whose gain has warmed up is closed; another one may be.  *)
LEMMA Ends1 ==
  ASSUME NEW s, s.op = "CloseAccount", s.slot = OWN, s.catch \in {0, 1, RETURN}, NEW off, Off(off), NEW cap, NEW price,
         NEW know
  PROVE  OwnStep(s, Flat(cap, price, TRUE, know),
                 Gone, off)
<1> DEFINE v  == Flat(cap, price, TRUE, know)
           on == Gone
<1>1. ASSUME NEW a \in Account, NEW k \in Account, NEW q \in Prices, a.owner = PAYER, Agrees(v, a, k, q)
      PROVE  OwnEffect(s, a, k, q, on, off)
  <2>1. a.pos = 0 /\ a.pnl # "warming"
    BY <1>1 DEF Flat, Agrees, Own
  <2>2. Touched(a, q).pos = 0 /\ Touched(a, q).pnl = "none"
    BY <2>1, TouchedFlat
  <2>3. Faced(s, a, k, q, off)
    BY NotBorne DEF Faced
  <2> QED BY <2>2, <2>3, Effects
<1>2. s.op \in OwnOps /\ Off(off) /\ on.kind = "own"
  BY Views DEF OwnOps, OwnSure, OwnTests, Own
<1> HIDE DEF v, on
<1>3. OwnStep(s, v, on, off)
  BY <1>1, <1>2, OwnBy
<1> QED BY <1>3 DEF v, on

LEMMA MayEnd1 ==
  ASSUME NEW s, s.op = "CloseAccount", s.slot = OWN, NEW cap, NEW pos, NEW at, NEW price, NEW ready, NEW know
  PROVE  OwnStep(s, Own(cap, pos, at, price, ready, know),
                 Gone, Own(cap, pos, at, price, ready, know))
<1> DEFINE v  == Own(cap, pos, at, price, ready, know)
           on == Gone
<1>1. ASSUME NEW a \in Account, NEW k \in Account, NEW q \in Prices, a.owner = PAYER, Agrees(v, a, k, q)
      PROVE  OwnEffect(s, a, k, q, on, Own(cap, pos, at, price, ready, know))
  <2>1. Allows(v, a, k, q)
    BY <1>1, AgreesOwn
  <2> QED BY <2>1, Effects DEF Faced
<1>2. s.op \in OwnOps /\ Off(Own(cap, pos, at, price, ready, know)) /\ on.kind = "own"
  BY Views DEF OwnOps, OwnSure, OwnTests, Own
<1> HIDE DEF v, on
<1>3. OwnStep(s, v, on, Own(cap, pos, at, price, ready, know))
  BY <1>1, <1>2, OwnBy
<1> QED BY <1>3 DEF v, on

(* What was read of a position is what unwinds it.                         *)
LEMMA Unwinds1 ==
  ASSUME NEW s, s.op = "Unwind", s.slot = OWN, NEW x \in Int, x # 0, NEW off, Off(off), NEW cap,
         NEW p \in Prices, NEW ready
  PROVE  OwnStep(s, Held(cap, x, p, p, ready, "now"),
                 Flat(cap, {p}, ready, "no"), off)
<1> DEFINE v  == Held(cap, x, p, p, ready, "now")
           on == Flat(cap, {p}, ready, "no")
<1>1. ASSUME NEW a \in Account, NEW k \in Account, NEW q \in Prices, a.owner = PAYER, Agrees(v, a, k, q)
      PROVE  OwnEffect(s, a, k, q, on, off)
  <2>1. a.pos = x /\ a.capital \in cap /\ (ready => a.pnl # "warming") /\ q = p /\ a.at = q /\ k.pos = x
    BY <1>1, AgreesOwn DEF Held
  <2> DEFINE b == Swapped(a, q, -k.pos)
  <2>2. b.capital = a.capital /\ b.pos = a.pos + -k.pos /\ b.at = q /\ b.pnl = a.pnl
    BY <2>1, SwappedFlat
  <2>3. b.pos = 0 /\ a.pos + -k.pos = 0
    BY <2>1, <2>2
  <2>4. Accepted(a, q, -k.pos)
    BY <2>1, <2>3 DEF Abs, Accepted
  <2> HIDE DEF b
  <2>5. Allows(on, b, k, q)
    BY <2>1, <2>2, <2>3, AgreesOwn DEF Flat
  <2>6. Trades(a, k, q, -k.pos, on, off)
    BY <2>4, <2>5 DEF Trades, b
  <2> QED BY <2>1, <2>6, Effects
<1>2. s.op \in OwnOps /\ Off(off) /\ on.kind = "own"
  BY Views DEF OwnOps, OwnSure, OwnTests, Own
<1> HIDE DEF v, on
<1>3. OwnStep(s, v, on, off)
  BY <1>1, <1>2, OwnBy
<1> QED BY <1>3 DEF v, on

(* The jumps that are not taken, and those that may be.                    *)
LEMMA Jump1 ==
  ASSUME NEW s, s.slot = OWN, s.op \in OwnTests, NEW off, Off(off), NEW cap, NEW pos, NEW at, NEW price, NEW ready,
         \/ s.op = "NotFunded" /\ cap = {DEPOSIT}
         \/ s.op = "NotFilled" /\ pos = {SIZE}
         \/ s.op = "Open" /\ pos = {0}
         \/ s.op = "Gone"
  PROVE  OwnStep(s, Own(cap, pos, at, price, ready, "now"), Own(cap, pos, at, price, ready, "now"), off)
<1> DEFINE v == Own(cap, pos, at, price, ready, "now")
<1>1. ASSUME NEW a \in Account, NEW k \in Account, NEW q \in Prices, a.owner = PAYER, Agrees(v, a, k, q)
      PROVE  OwnEffect(s, a, k, q, v, off)
  <2>1. a.capital \in cap /\ a.pos \in pos /\ k.owner = PAYER /\ k.pos = a.pos /\ k.capital = a.capital
    BY <1>1, AgreesOwn
  <2>2. ~ Jumps(s, k)
    BY <2>1, Wallets DEF Jumps, NoAccount
  <2>3. Allows(v, a, k, q)
    BY <1>1, AgreesOwn
  <2> QED BY <2>2, <2>3, Effects
<1>2. s.op \in OwnOps /\ v.kind = "own"
  BY Views DEF OwnOps
<1> HIDE DEF v
<1>3. OwnStep(s, v, v, off)
  BY <1>1, <1>2, OwnBy DEF OwnTests
<1> QED BY <1>3 DEF v

LEMMA MayJump1 ==
  ASSUME NEW s, s.slot = OWN, s.op \in OwnTests, NEW cap, NEW pos, NEW at, NEW price, NEW ready, NEW know, NEW on,
         s.op = "Go" \/ on = Own(cap, pos, at, price, ready, know)
  PROVE  OwnStep(s, Own(cap, pos, at, price, ready, know), on, Own(cap, pos, at, price, ready, know))
<1> DEFINE v == Own(cap, pos, at, price, ready, know)
<1>1. ASSUME NEW a \in Account, NEW k \in Account, NEW q \in Prices, a.owner = PAYER, Agrees(v, a, k, q)
      PROVE  OwnEffect(s, a, k, q, on, v)
  <2>1. Allows(v, a, k, q)
    BY <1>1, AgreesOwn
  <2>2. s.op = "Go" => Jumps(s, k)
    BY DEF Jumps
  <2>3. s.op = "Go" \/ Allows(on, a, k, q)
    BY <2>1
  <2>4. IF Jumps(s, k) THEN Allows(v, a, k, q) ELSE Allows(on, a, k, q)
    BY <2>1, <2>2, <2>3
  <2> HIDE DEF v
  <2> QED BY <2>4, Effects
<1>2. s.op \in OwnOps /\ v.kind = "own" /\ Off(v)
  BY Views DEF OwnOps
<1> HIDE DEF v
<1>3. OwnStep(s, v, on, v)
  BY <1>1, <1>2, OwnBy DEF OwnTests, v
<1> QED BY <1>3 DEF v

(* A crank where the price has moved.                                      *)
LEMMA SettledMoved ==
  ASSUME NEW a \in Account, NEW p \in Prices, NEW g \in Int, a.pos * (p - a.at) = g
  PROVE  /\ Settled(a, p).pos = a.pos /\ Settled(a, p).at = p /\ Settled(a, p) \in Account
         /\ Settled(a, p).capital = IF g < 0 THEN Floor(a.capital + g) ELSE a.capital
         /\ g <= 0 => Settled(a, p).pnl = a.pnl
<1> DEFINE c == IF g < 0 THEN Floor(a.capital + g) ELSE a.capital
           l == IF g > 0 THEN "warming" ELSE a.pnl
<1>1. Settled(a, p) = [a EXCEPT !.at = p, !.capital = c, !.pnl = l]
  BY DEF Settled, Account
<1>2. g <= 0 => l = a.pnl
  OBVIOUS
<1> HIDE DEF c, l
<1>3. Settled(a, p).capital = c /\ Settled(a, p).pnl = l
  BY <1>1 DEF Account
<1> QED BY <1>2, <1>3, SettledAccount DEF c

LEMMA Gains1 ==
  ASSUME NEW s, s.op = "KeeperCrank", s.slot = OWN, NEW off, Off(off), NEW c \in Nat, c # 0,
         NEW x \in Int, NEW q \in Prices, NEW p \in Prices, NEW g \in Nat, x * (p - q) = g, NEW ready, NEW know
  PROVE  OwnStep(s, Held({c}, x, q, p, ready, know),
                 Held({c}, x, p, p, FALSE, know), off)
<1> DEFINE v  == Held({c}, x, q, p, ready, know)
           on == Held({c}, x, p, p, FALSE, know)
<1>1. ASSUME NEW a \in Account, NEW k \in Account, NEW qq \in Prices, a.owner = PAYER, Agrees(v, a, k, qq)
      PROVE  OwnEffect(s, a, k, qq, on, off)
  <2>1. a.pos = x /\ a.capital = c /\ qq = p /\ (a.pos = 0 \/ a.at = q)
        /\ (know = "now" => k.owner = PAYER /\ k.pos = x /\ k.capital = c) /\ (know = "then" => (x # 0 => k.pos = x))
    BY <1>1, AgreesOwn DEF Held
  <2>2. a.pos * (p - a.at) = g
    <3>1. CASE a.at = q
      BY <2>1, <3>1
    <3>2. CASE a.pos = 0
      <4>1. x = 0 /\ p - q \in Int /\ p - a.at \in Int
        BY <2>1, <3>2 DEF Prices, Account
      <4> QED BY <2>1, <4>1
    <3> QED BY <2>1, <3>1, <3>2
  <2> DEFINE u == Settled(a, qq)
  <2>3. u.pos = x /\ u.at = p /\ u.capital = c
    BY <2>1, <2>2, SettledMoved
  <2> HIDE DEF u
  <2>4. Allows(on, u, k, qq)
    BY <2>1, <2>3 DEF Held, Agrees, Own, Allows
  <2> QED BY <2>3, <2>4, Effects DEF u
<1>2. s.op \in OwnOps /\ Off(off) /\ on.kind = "own"
  BY Views DEF OwnOps, OwnSure, OwnTests, Own
<1> HIDE DEF v, on
<1>3. OwnStep(s, v, on, off)
  BY <1>1, <1>2, OwnBy
<1> QED BY <1>3 DEF v, on

LEMMA Loses1 ==
  ASSUME NEW s, s.op = "KeeperCrank", s.slot = OWN, NEW off, Off(off), NEW c \in Nat,
         NEW x \in Int, x # 0, NEW q \in Prices, NEW p \in Prices, NEW g \in Int, x * (p - q) = g, g < 0, c + g > 0,
         NEW ready, NEW know
  PROVE  OwnStep(s, Held({c}, x, q, p, ready, know),
                 Held({c + g}, x, p, p, ready, "no"), off)
<1> DEFINE v  == Held({c}, x, q, p, ready, know)
           on == Held({c + g}, x, p, p, ready, "no")
<1>1. ASSUME NEW a \in Account, NEW k \in Account, NEW qq \in Prices, a.owner = PAYER, Agrees(v, a, k, qq)
      PROVE  OwnEffect(s, a, k, qq, on, off)
  <2>1. a.pos = x /\ a.capital = c /\ qq = p /\ a.at = q /\ (ready => a.pnl # "warming")
    BY <1>1, AgreesOwn DEF Held
  <2>2. a.pos * (p - a.at) = g
    BY <2>1
  <2> DEFINE u == Settled(a, qq)
  <2>3. u.pos = x /\ u.at = p /\ u.capital = Floor(c + g) /\ u.pnl = a.pnl
    BY <2>1, <2>2, SettledMoved
  <2>4. u.capital = c + g /\ u.capital # 0
    BY <2>3 DEF Floor
  <2> HIDE DEF u
  <2>5. Allows(on, u, k, qq)
    BY <2>1, <2>3, <2>4, AgreesOwn DEF Held
  <2> QED BY <2>4, <2>5, Effects DEF u
<1>2. s.op \in OwnOps /\ Off(off) /\ on.kind = "own"
  BY Views DEF OwnOps, OwnSure, OwnTests, Own
<1> HIDE DEF v, on
<1>3. OwnStep(s, v, on, off)
  BY <1>1, <1>2, OwnBy
<1> QED BY <1>3 DEF v, on

(* A position that is under water may be liquidated, before and after the  *)
(* price has recovered; what was read of it then fits it or it is flat.    *)
LEMMA Sinks1 ==
  ASSUME NEW s, s.op = "KeeperCrank", s.slot = OWN, NEW off, Off(off), NEW ready
  PROVE  OwnStep(s, Own({2}, {3}, {0}, {-2}, ready, "now"),
                 Own({0}, {0, 3}, {-2}, {-2}, FALSE, "then"), off)
<1> DEFINE v  == Own({2}, {3}, {0}, {-2}, ready, "now")
           on == Own({0}, {0, 3}, {-2}, {-2}, FALSE, "then")
<1>1. ASSUME NEW a \in Account, NEW k \in Account, NEW q \in Prices, a.owner = PAYER, Agrees(v, a, k, q)
      PROVE  OwnEffect(s, a, k, q, on, off)
  <2>1. a.capital = 2 /\ a.pos = 3 /\ q = -2 /\ (a.pos # 0 => a.at = 0) /\ k.pos = a.pos
    BY <1>1, AgreesOwn
  <2> DEFINE u == Settled(a, q)
             w == [u EXCEPT !.pos = 0]
  <2>2. a.pos * (q - a.at) \in Int /\ a.pos * (q - a.at) = -6
    BY <2>1 DEF Account, Prices
  <2>3. u.pos = a.pos /\ u.at = q /\ u \in Account /\ u.capital = 0
    BY <2>1, <2>2, SettledMoved DEF Floor
  <2>4. w.pos = 0 /\ w.capital = 0
    BY <2>3 DEF Account
  <2> HIDE DEF u, w
  <2>5. Allows(on, u, k, q)
    BY <2>1, <2>3 DEF Agrees, Own, Allows
  <2>6. Allows(on, w, k, q)
    BY <2>1, <2>4 DEF Agrees, Own, Allows
  <2> QED BY <2>5, <2>6, Effects DEF u, w
<1>2. s.op \in OwnOps /\ Off(off) /\ on.kind = "own"
  BY Views DEF OwnOps, OwnSure, OwnTests, Own
<1> HIDE DEF v, on
<1>3. OwnStep(s, v, on, off)
  BY <1>1, <1>2, OwnBy
<1> QED BY <1>3 DEF v, on

LEMMA Rises1 ==
  ASSUME NEW s, s.op = "KeeperCrank", s.slot = OWN, NEW off, Off(off), NEW ready
  PROVE  OwnStep(s, Own({0}, {0, 3}, {-2}, {0}, ready, "now"),
                 Own({0}, {0, 3}, {0}, {0}, FALSE, "then"), off)
<1> DEFINE v  == Own({0}, {0, 3}, {-2}, {0}, ready, "now")
           on == Own({0}, {0, 3}, {0}, {0}, FALSE, "then")
<1>1. ASSUME NEW a \in Account, NEW k \in Account, NEW q \in Prices, a.owner = PAYER, Agrees(v, a, k, q)
      PROVE  OwnEffect(s, a, k, q, on, off)
  <2>1. a.capital = 0 /\ a.pos \in {0, 3} /\ q = 0 /\ (a.pos # 0 => a.at = -2) /\ k.pos = a.pos
    BY <1>1, AgreesOwn
  <2> DEFINE u == Settled(a, q)
             w == [u EXCEPT !.pos = 0]
  <2>2. a.pos * (q - a.at) \in Int /\ a.pos * (q - a.at) \in {0, 6}
    BY <2>1 DEF Account, Prices
  <2>3. u.pos = a.pos /\ u.at = q /\ u \in Account /\ u.capital = 0
    BY <2>1, <2>2, SettledMoved DEF Floor
  <2>4. w.pos = 0 /\ w.capital = 0
    BY <2>3 DEF Account
  <2> HIDE DEF u, w
  <2>5. Allows(on, u, k, q)
    BY <2>1, <2>3 DEF Agrees, Own, Allows
  <2>6. Allows(on, w, k, q)
    BY <2>1, <2>4 DEF Agrees, Own, Allows
  <2> QED BY <2>5, <2>6, Effects DEF u, w
<1>2. s.op \in OwnOps /\ Off(off) /\ on.kind = "own"
  BY Views DEF OwnOps, OwnSure, OwnTests, Own
<1> HIDE DEF v, on
<1>3. OwnStep(s, v, on, off)
  BY <1>1, <1>2, OwnBy
<1> QED BY <1>3 DEF v, on

LEMMA Salvages1 ==
  ASSUME NEW s, s.op = "Unwind", s.slot = OWN
  PROVE  OwnStep(s, Own({0}, {0, 3}, {0}, {0}, FALSE, "then"),
                 Flat({0}, {0}, FALSE, "no"), Flat({0}, {0}, FALSE, "no"))
<1> DEFINE v  == Own({0}, {0, 3}, {0}, {0}, FALSE, "then")
           on == Flat({0}, {0}, FALSE, "no")
<1>1. ASSUME NEW a \in Account, NEW k \in Account, NEW q \in Prices, a.owner = PAYER, Agrees(v, a, k, q)
      PROVE  OwnEffect(s, a, k, q, on, Flat({0}, {0}, FALSE, "no"))
  <2>1. a.capital = 0 /\ a.pos \in {0, 3} /\ q = 0 /\ (a.pos = 0 \/ a.at = q) /\ (a.pos # 0 => k.pos = a.pos)
    BY <1>1 DEF Agrees, Own
  <2>2. k.pos \in Int /\ -k.pos \in Int
    BY DEF Account
  <2> DEFINE d == -k.pos
             b == Swapped(a, q, d)
  <2>3. b.capital = 0 /\ b.pos = a.pos + d /\ b.at = q
    BY <2>1, <2>2, SwappedFlat
  <2>4. ASSUME k.pos # 0, Accepted(a, q, d) PROVE b.pos = 0
    <3>1. CASE a.pos # 0
      BY <2>1, <2>2, <2>3, <3>1
    <3>2. CASE a.pos = 0
      <4>1. Abs(a.pos + d) > Abs(a.pos)
        BY <2>2, <2>4, <3>2 DEF Abs
      <4>2. Covered(b)
        BY <2>4, <4>1 DEF Accepted
      <4> HIDE DEF b
      <4>3. b.pos \in Int /\ LEVERAGE * b.capital = 0
        BY <2>2, <2>3, <3>2 DEF LEVERAGE
      <4> HIDE DEF d
      <4> QED BY <4>2, <4>3 DEF Covered, Abs
    <3> QED BY <3>1, <3>2
  <2>5. a.pos = 0 => Allows(on, a, k, q)
    BY <2>1 DEF Agrees, Own, Allows, Flat
  <2>6. b.pos = 0 => Allows(on, b, k, q)
    <3> HIDE DEF b
    <3> QED BY <2>1, <2>3 DEF Agrees, Own, Allows, Flat
  <2>7. k.pos # 0 => Trades(a, k, q, d, on, on)
    <3>1. CASE Accepted(a, q, d)
      BY <2>4, <2>6, <3>1 DEF Trades
    <3>2. CASE ~ Accepted(a, q, d)
      <4>1. k.pos # 0 => a.pos = 0
        <5>1. ASSUME k.pos # 0, a.pos # 0 PROVE Accepted(a, q, d)
          <6>1. a.pos + d = 0 /\ a.pos = 3
            BY <2>1, <2>2, <5>1
          <6> HIDE DEF d
          <6> QED BY <6>1 DEF Accepted, Abs
        <5> QED BY <3>2, <5>1
      <4> QED BY <2>5, <3>2, <4>1 DEF Trades
    <3> QED BY <3>1, <3>2
  <2>8. k.pos = 0 => a.pos = 0
    BY <2>1
  <2> QED BY <2>5, <2>7, <2>8, Effects
<1>2. s.op \in OwnOps /\ Off(Flat({0}, {0}, FALSE, "no")) /\ on.kind = "own"
  BY Views DEF OwnOps, OwnSure, OwnTests, Own
<1> HIDE DEF v, on
<1>3. OwnStep(s, v, on, Flat({0}, {0}, FALSE, "no"))
  BY <1>1, <1>2, OwnBy
<1> QED BY <1>3 DEF v, on

(* The steps as the scripts write them.                                    *)
LEMMA StepIs ==
  ASSUME NEW op, NEW slot \in Int, NEW n \in Int, NEW c \in Int
  PROVE  /\ op \in OpNames => Step(op, slot, n, c) \in StepType
         /\ Step(op, slot, n, c).op = op /\ Step(op, slot, n, c).slot = slot
         /\ Step(op, slot, n, c).n = n /\ Step(op, slot, n, c).catch = c
BY DEF Step, StepType

LEMMA Writing ==
  ASSUME NEW op, NEW slot, NEW n
  PROVE  /\ Do(op, slot, n) = Step(op, slot, n, 0) /\ Try(op, slot, n) = Step(op, slot, n, 1)
         /\ Caught(Do(op, slot, n)) = Step(op, slot, n, 1)
         /\ Caught(Step(op, slot, n, 0)) = Step(op, slot, n, 1)
         /\ \A c, d : [Step(op, slot, n, d) EXCEPT !.catch = c] = Step(op, slot, n, c)
         /\ If(op, n) = Step(op, OWN, 0, n) /\ Go(n) = Step("Go", OWN, 0, n)
BY DEF Do, Try, Caught, Step, If, Go

LEMMA Numbers == OWN \in Int /\ RETURN \in Int /\ RETURN # 0 /\ RETURN # 1 /\ LP \in Int
BY DEF OWN, RETURN, LP

LEMMA OwnGoes ==
  ASSUME NEW e, Off(e), NEW op \in OwnOps, NEW n \in Int, NEW c \in {0, 1, RETURN}, NEW v, v.kind = "own", NEW w, Off(w),
         op \in OwnTests => c # 0,
         \A off : Off(off) => OwnStep(Step(op, OWN, n, c), v, w, off)
  PROVE  Goes(e, Step(op, OWN, n, c), v, w)
<1> DEFINE s == Step(op, OWN, n, c)
<1>1. op \in OpNames /\ op # "Take" /\ (op \in Tests => op \in OwnTests)
  BY DEF OwnOps, OwnSure, OwnTests, Tests, OpNames, Instructions, Reads
<1>2. s \in StepType /\ s.op = op /\ s.catch = c
  BY <1>1, StepIs, Numbers
<1>3. Off(Dead)
  BY Views
<1> HIDE DEF s
<1>4. Sound(s, v, w, IF s.catch = 0 THEN Dead ELSE IF s.catch = RETURN THEN e ELSE w)
  BY <1>1, <1>2, <1>3 DEF Sound, s
<1>5. Goes(e, s, v, w)
  BY <1>2, <1>4 DEF Goes
<1> QED BY <1>5 DEF s

LEMMA OwnTries ==
  ASSUME NEW e, NEW op \in OwnOps, NEW n \in Int, NEW v, v.kind = "own", NEW w, OwnStep(Step(op, OWN, n, 1), v, w, w)
  PROVE  Goes(e, Step(op, OWN, n, 1), v, w)
<1> DEFINE s == Step(op, OWN, n, 1)
<1>1. op \in OpNames /\ op # "Take" /\ (op \in Tests => op \in OwnTests)
  BY DEF OwnOps, OwnSure, OwnTests, Tests, OpNames, Instructions, Reads
<1>2. s \in StepType /\ s.op = op /\ s.catch = 1
  BY <1>1, StepIs, Numbers
<1> HIDE DEF s
<1>3. Sound(s, v, w, w)
  BY <1>2 DEF Sound, s
<1>4. Goes(e, s, v, w)
  BY <1>2, <1>3, Numbers DEF Goes
<1> QED BY <1>4 DEF s

LEMMA PushGoes ==
  ASSUME NEW e, Off(e), NEW c \in {0, 1},
         NEW n \in Prices, NEW cap, NEW pos, NEW at, NEW price, NEW ready, NEW know
  PROVE  Goes(e, Step("PushOraclePrice", OWN, n, c), Own(cap, pos, at, price, ready, know),
              Own(cap, pos, at, {n}, ready, know))
<1>3. "PushOraclePrice" \in OwnOps /\ n \in Int
  BY DEF OwnOps, OwnSure, OwnTests, Prices
<1>1. Step("PushOraclePrice", OWN, n, c).op = "PushOraclePrice" /\ Step("PushOraclePrice", OWN, n, c).slot = OWN /\ Step("PushOraclePrice", OWN, n, c).n = n
  BY <1>3, StepIs, Numbers
<1>2. ASSUME NEW off, Off(off)
      PROVE  OwnStep(Step("PushOraclePrice", OWN, n, c), Own(cap, pos, at, price, ready, know),
                     Own(cap, pos, at, {n}, ready, know), off)
  BY <1>1, <1>2, Push1 DEF OwnTests
<1>4. Own(cap, pos, at, price, ready, know).kind = "own" /\ Off(Own(cap, pos, at, {n}, ready, know))
  BY Views DEF Own, Off, Flat, Held
<1>5. c \in {0, 1, RETURN} /\ ("PushOraclePrice" \in OwnTests => c # 0)
  BY Numbers DEF OwnOps, OwnSure, OwnTests
<1> QED BY <1>2, <1>3, <1>4, <1>5, OwnGoes

LEMMA ReadGoes ==
  ASSUME NEW e, Off(e), NEW op \in {"Read", "Look"}, NEW c \in {0, 1},
         NEW cap, NEW pos, NEW at, NEW price, NEW ready, NEW know
  PROVE  Goes(e, Step(op, OWN, 0, c), Own(cap, pos, at, price, ready, know),
              Own(cap, pos, at, price, ready, "now"))
<1>3. op \in OwnOps /\ 0 \in Int
  BY DEF OwnOps, OwnSure, OwnTests, Prices
<1>1. Step(op, OWN, 0, c).op = op /\ Step(op, OWN, 0, c).slot = OWN /\ Step(op, OWN, 0, c).n = 0
  BY <1>3, StepIs, Numbers
<1>2. ASSUME NEW off, Off(off)
      PROVE  OwnStep(Step(op, OWN, 0, c), Own(cap, pos, at, price, ready, know),
                     Own(cap, pos, at, price, ready, "now"), off)
  BY <1>1, <1>2, Read1 DEF OwnTests
<1>4. Own(cap, pos, at, price, ready, know).kind = "own" /\ Off(Own(cap, pos, at, price, ready, "now"))
  BY Views DEF Own, Off, Flat, Held
<1>5. c \in {0, 1, RETURN} /\ (op \in OwnTests => c # 0)
  BY Numbers DEF OwnOps, OwnSure, OwnTests
<1> QED BY <1>2, <1>3, <1>4, <1>5, OwnGoes

LEMMA WaitGoes ==
  ASSUME NEW e, Off(e), NEW c \in {0, 1},
         NEW cap, NEW pos, NEW at, NEW price, NEW ready, NEW know
  PROVE  Goes(e, Step("Wait", OWN, 0, c), Own(cap, pos, at, price, ready, know),
              Own(cap, pos, at, price, TRUE, know))
<1>3. "Wait" \in OwnOps /\ 0 \in Int
  BY DEF OwnOps, OwnSure, OwnTests, Prices
<1>1. Step("Wait", OWN, 0, c).op = "Wait" /\ Step("Wait", OWN, 0, c).slot = OWN /\ Step("Wait", OWN, 0, c).n = 0
  BY <1>3, StepIs, Numbers
<1>2. ASSUME NEW off, Off(off)
      PROVE  OwnStep(Step("Wait", OWN, 0, c), Own(cap, pos, at, price, ready, know),
                     Own(cap, pos, at, price, TRUE, know), off)
  BY <1>1, <1>2, Wait1 DEF OwnTests
<1>4. Own(cap, pos, at, price, ready, know).kind = "own" /\ Off(Own(cap, pos, at, price, TRUE, know))
  BY Views DEF Own, Off, Flat, Held
<1>5. c \in {0, 1, RETURN} /\ ("Wait" \in OwnTests => c # 0)
  BY Numbers DEF OwnOps, OwnSure, OwnTests
<1> QED BY <1>2, <1>3, <1>4, <1>5, OwnGoes

LEMMA CrankGoes ==
  ASSUME NEW e, Off(e), NEW c \in {0, 1},
         NEW cap, NEW price, NEW ready, NEW know
  PROVE  Goes(e, Step("KeeperCrank", OWN, 0, c), Flat(cap, price, ready, know),
              Flat(cap, price, ready, know))
<1>3. "KeeperCrank" \in OwnOps /\ 0 \in Int
  BY DEF OwnOps, OwnSure, OwnTests, Prices
<1>1. Step("KeeperCrank", OWN, 0, c).op = "KeeperCrank" /\ Step("KeeperCrank", OWN, 0, c).slot = OWN /\ Step("KeeperCrank", OWN, 0, c).n = 0
  BY <1>3, StepIs, Numbers
<1>2. ASSUME NEW off, Off(off)
      PROVE  OwnStep(Step("KeeperCrank", OWN, 0, c), Flat(cap, price, ready, know),
                     Flat(cap, price, ready, know), off)
  BY <1>1, <1>2, Crank1 DEF OwnTests
<1>4. Flat(cap, price, ready, know).kind = "own" /\ Off(Flat(cap, price, ready, know))
  BY Views DEF Own, Off, Flat, Held
<1>5. c \in {0, 1, RETURN} /\ ("KeeperCrank" \in OwnTests => c # 0)
  BY Numbers DEF OwnOps, OwnSure, OwnTests
<1> QED BY <1>2, <1>3, <1>4, <1>5, OwnGoes

LEMMA OpensGoes ==
  ASSUME NEW e, Off(e), NEW c \in {0, 1, RETURN},
         NEW n \in Int, NEW k \in Nat, NEW p \in Prices, NEW ready, NEW know, Abs(n) <= LEVERAGE * k
  PROVE  Goes(e, Step("TradeCpi", OWN, n, c), Flat({k}, {p}, ready, know),
              Held({k}, n, p, p, ready, "no"))
<1>3. "TradeCpi" \in OwnOps /\ n \in Int
  BY DEF OwnOps, OwnSure, OwnTests, Prices
<1>1. Step("TradeCpi", OWN, n, c).op = "TradeCpi" /\ Step("TradeCpi", OWN, n, c).slot = OWN /\ Step("TradeCpi", OWN, n, c).n = n
      /\ Step("TradeCpi", OWN, n, c).catch = c
  BY <1>3, StepIs, Numbers
<1>2. ASSUME NEW off, Off(off)
      PROVE  OwnStep(Step("TradeCpi", OWN, n, c), Flat({k}, {p}, ready, know),
                     Held({k}, n, p, p, ready, "no"), off)
  BY <1>1, <1>2, Opens1, Numbers DEF OwnTests
<1>4. Flat({k}, {p}, ready, know).kind = "own" /\ Off(Held({k}, n, p, p, ready, "no"))
  BY Views DEF Own, Off, Flat, Held
<1>5. c \in {0, 1, RETURN} /\ ("TradeCpi" \in OwnTests => c # 0)
  BY Numbers DEF OwnOps, OwnSure, OwnTests
<1> QED BY <1>2, <1>3, <1>4, <1>5, OwnGoes

LEMMA ClosesGoes ==
  ASSUME NEW e, Off(e), NEW c \in {0, 1},
         NEW x \in Int, NEW n \in Int, n = -x, NEW cap, NEW p \in Prices, NEW ready, NEW know
  PROVE  Goes(e, Step("TradeCpi", OWN, n, c), Held(cap, x, p, p, ready, know),
              Flat(cap, {p}, ready, "no"))
<1>3. "TradeCpi" \in OwnOps /\ n \in Int
  BY DEF OwnOps, OwnSure, OwnTests, Prices
<1>1. Step("TradeCpi", OWN, n, c).op = "TradeCpi" /\ Step("TradeCpi", OWN, n, c).slot = OWN /\ Step("TradeCpi", OWN, n, c).n = n
      /\ Step("TradeCpi", OWN, n, c).catch = c
  BY <1>3, StepIs, Numbers
<1>2. ASSUME NEW off, Off(off)
      PROVE  OwnStep(Step("TradeCpi", OWN, n, c), Held(cap, x, p, p, ready, know),
                     Flat(cap, {p}, ready, "no"), off)
  BY <1>1, <1>2, Closes1, Numbers DEF OwnTests
<1>4. Held(cap, x, p, p, ready, know).kind = "own" /\ Off(Flat(cap, {p}, ready, "no"))
  BY Views DEF Own, Off, Flat, Held
<1>5. c \in {0, 1, RETURN} /\ ("TradeCpi" \in OwnTests => c # 0)
  BY Numbers DEF OwnOps, OwnSure, OwnTests
<1> QED BY <1>2, <1>3, <1>4, <1>5, OwnGoes

LEMMA FlipsGoes ==
  ASSUME NEW e, Off(e), NEW c \in {0, 1},
         NEW x \in Int, NEW n \in Int, n = -2 * x, NEW cap, NEW p \in Prices, NEW ready, NEW know
  PROVE  Goes(e, Step("TradeCpi", OWN, n, c), Held(cap, x, p, p, ready, know),
              Held(cap, -x, p, p, ready, "no"))
<1>3. "TradeCpi" \in OwnOps /\ n \in Int
  BY DEF OwnOps, OwnSure, OwnTests, Prices
<1>1. Step("TradeCpi", OWN, n, c).op = "TradeCpi" /\ Step("TradeCpi", OWN, n, c).slot = OWN /\ Step("TradeCpi", OWN, n, c).n = n
      /\ Step("TradeCpi", OWN, n, c).catch = c
  BY <1>3, StepIs, Numbers
<1>2. ASSUME NEW off, Off(off)
      PROVE  OwnStep(Step("TradeCpi", OWN, n, c), Held(cap, x, p, p, ready, know),
                     Held(cap, -x, p, p, ready, "no"), off)
  BY <1>1, <1>2, Flips1, Numbers DEF OwnTests
<1>4. Held(cap, x, p, p, ready, know).kind = "own" /\ Off(Held(cap, -x, p, p, ready, "no"))
  BY Views DEF Own, Off, Flat, Held
<1>5. c \in {0, 1, RETURN} /\ ("TradeCpi" \in OwnTests => c # 0)
  BY Numbers DEF OwnOps, OwnSure, OwnTests
<1> QED BY <1>2, <1>3, <1>4, <1>5, OwnGoes

LEMMA WithdrawsGoes ==
  ASSUME NEW e, Off(e), NEW c \in {0, 1},
         NEW n \in Nat, NEW cap, \A k \in cap : n <= k, NEW price, NEW ready, NEW know
  PROVE  Goes(e, Step("WithdrawCollateral", OWN, n, c), Flat(cap, price, ready, know),
              Flat(Nat, price, ready, "no"))
<1>3. "WithdrawCollateral" \in OwnOps /\ n \in Int
  BY DEF OwnOps, OwnSure, OwnTests, Prices
<1>1. Step("WithdrawCollateral", OWN, n, c).op = "WithdrawCollateral" /\ Step("WithdrawCollateral", OWN, n, c).slot = OWN /\ Step("WithdrawCollateral", OWN, n, c).n = n
      /\ Step("WithdrawCollateral", OWN, n, c).catch = c
  BY <1>3, StepIs, Numbers
<1>2. ASSUME NEW off, Off(off), c \in {0, RETURN} \/ off = Flat(Nat, price, ready, "no")
      PROVE  OwnStep(Step("WithdrawCollateral", OWN, n, c), Flat(cap, price, ready, know),
                     Flat(Nat, price, ready, "no"), off)
  BY <1>1, <1>2, Withdraws1 DEF OwnTests
<1>4. Flat(cap, price, ready, know).kind = "own" /\ Off(Flat(Nat, price, ready, "no"))
  BY Views DEF Own, Off, Flat, Held
<1>5. c \in {0, 1, RETURN} /\ ("WithdrawCollateral" \in OwnTests => c # 0)
  BY Numbers DEF OwnOps, OwnSure, OwnTests
<1>6. CASE c = 1
  BY <1>2, <1>3, <1>4, <1>6, OwnTries
<1>7. CASE c # 1
  <2>1. c \in {0, RETURN}
    BY <1>7
  <2> QED BY <1>2, <1>3, <1>4, <1>5, <2>1, OwnGoes
<1> QED BY <1>6, <1>7

LEMMA DrawsGoes ==
  ASSUME NEW e, Off(e), NEW c \in {0, 1, RETURN},
         NEW n \in Nat, NEW cap, NEW price, NEW ready
  PROVE  Goes(e, Step("WithdrawSeen", OWN, n, c), Flat(cap, price, ready, "now"),
              Flat(Nat, price, ready, "no"))
<1>3. "WithdrawSeen" \in OwnOps /\ n \in Int
  BY DEF OwnOps, OwnSure, OwnTests, Prices
<1>1. Step("WithdrawSeen", OWN, n, c).op = "WithdrawSeen" /\ Step("WithdrawSeen", OWN, n, c).slot = OWN /\ Step("WithdrawSeen", OWN, n, c).n = n
      /\ Step("WithdrawSeen", OWN, n, c).catch = c
  BY <1>3, StepIs, Numbers
<1>2. ASSUME NEW off, Off(off), c \in {0, RETURN} \/ off = Flat(Nat, price, ready, "no")
      PROVE  OwnStep(Step("WithdrawSeen", OWN, n, c), Flat(cap, price, ready, "now"),
                     Flat(Nat, price, ready, "no"), off)
  BY <1>1, <1>2, Draws1 DEF OwnTests
<1>4. Flat(cap, price, ready, "now").kind = "own" /\ Off(Flat(Nat, price, ready, "no"))
  BY Views DEF Own, Off, Flat, Held
<1>5. c \in {0, 1, RETURN} /\ ("WithdrawSeen" \in OwnTests => c # 0)
  BY Numbers DEF OwnOps, OwnSure, OwnTests
<1>6. CASE c = 1
  <2>1. OwnStep(Step("WithdrawSeen", OWN, n, 1), Flat(cap, price, ready, "now"), Flat(Nat, price, ready, "no"),
                Flat(Nat, price, ready, "no"))
    BY <1>2, <1>4, <1>6
  <2>2. Goes(e, Step("WithdrawSeen", OWN, n, 1), Flat(cap, price, ready, "now"), Flat(Nat, price, ready, "no"))
    BY <2>1, <1>3, <1>4, OwnTries
  <2> QED BY <1>6, <2>2
<1>7. CASE c # 1
  <2>1. c \in {0, RETURN}
    BY <1>7
  <2> QED BY <1>2, <1>3, <1>4, <1>5, <2>1, OwnGoes
<1> QED BY <1>6, <1>7

LEMMA KeepsGoes ==
  ASSUME NEW e,
         NEW n \in Nat, NEW cap, \A k \in cap : k \in Nat /\ k # 0, NEW p \in Prices, NEW ready, NEW know
  PROVE  Goes(e, Step("WithdrawCollateral", OWN, n, 1), Held(cap, 1, p, p, ready, know),
              Held(Nat \ {0}, 1, p, p, ready, "no"))
<1>3. "WithdrawCollateral" \in OwnOps /\ n \in Int
  BY DEF OwnOps, OwnSure, OwnTests, Prices
<1>1. Step("WithdrawCollateral", OWN, n, 1).op = "WithdrawCollateral" /\ Step("WithdrawCollateral", OWN, n, 1).slot = OWN /\ Step("WithdrawCollateral", OWN, n, 1).n = n
  BY <1>3, StepIs, Numbers
<1>2. OwnStep(Step("WithdrawCollateral", OWN, n, 1), Held(cap, 1, p, p, ready, know),
              Held(Nat \ {0}, 1, p, p, ready, "no"), Held(Nat \ {0}, 1, p, p, ready, "no"))
  BY <1>1, Keeps1
<1> QED BY <1>2, <1>3, Views, OwnTries DEF OwnOps, OwnSure, OwnTests

LEMMA EndsGoes ==
  ASSUME NEW e, Off(e), NEW c \in {0, 1},
         NEW cap, NEW price, NEW know
  PROVE  Goes(e, Step("CloseAccount", OWN, 0, c), Flat(cap, price, TRUE, know),
              Gone)
<1>3. "CloseAccount" \in OwnOps /\ 0 \in Int
  BY DEF OwnOps, OwnSure, OwnTests, Prices
<1>1. Step("CloseAccount", OWN, 0, c).op = "CloseAccount" /\ Step("CloseAccount", OWN, 0, c).slot = OWN /\ Step("CloseAccount", OWN, 0, c).n = 0
      /\ Step("CloseAccount", OWN, 0, c).catch = c
  BY <1>3, StepIs, Numbers
<1>2. ASSUME NEW off, Off(off)
      PROVE  OwnStep(Step("CloseAccount", OWN, 0, c), Flat(cap, price, TRUE, know),
                     Gone, off)
  <2> DEFINE s == Step("CloseAccount", OWN, 0, c)
  <2>1. s.op = "CloseAccount" /\ s.slot = OWN /\ s.catch \in {0, 1, RETURN}
    BY <1>1
  <2> HIDE DEF s
  <2>2. OwnStep(s, Flat(cap, price, TRUE, know), Gone, off)
    BY <1>2, <2>1, Ends1
  <2> QED BY <2>2 DEF s
<1>4. Flat(cap, price, TRUE, know).kind = "own" /\ Off(Gone)
  BY Views DEF Own, Off, Flat, Held
<1>5. c \in {0, 1, RETURN} /\ ("CloseAccount" \in OwnTests => c # 0)
  BY Numbers DEF OwnOps, OwnSure, OwnTests
<1> QED BY <1>2, <1>3, <1>4, <1>5, OwnGoes

LEMMA UnwindsGoes ==
  ASSUME NEW e, Off(e), NEW c \in {0, 1},
         NEW x \in Int, x # 0, NEW cap, NEW p \in Prices, NEW ready
  PROVE  Goes(e, Step("Unwind", OWN, 0, c), Held(cap, x, p, p, ready, "now"),
              Flat(cap, {p}, ready, "no"))
<1>3. "Unwind" \in OwnOps /\ 0 \in Int
  BY DEF OwnOps, OwnSure, OwnTests, Prices
<1>1. Step("Unwind", OWN, 0, c).op = "Unwind" /\ Step("Unwind", OWN, 0, c).slot = OWN /\ Step("Unwind", OWN, 0, c).n = 0
  BY <1>3, StepIs, Numbers
<1>2. ASSUME NEW off, Off(off)
      PROVE  OwnStep(Step("Unwind", OWN, 0, c), Held(cap, x, p, p, ready, "now"),
                     Flat(cap, {p}, ready, "no"), off)
  BY <1>1, <1>2, Unwinds1 DEF OwnTests
<1>4. Held(cap, x, p, p, ready, "now").kind = "own" /\ Off(Flat(cap, {p}, ready, "no"))
  BY Views DEF Own, Off, Flat, Held
<1>5. c \in {0, 1, RETURN} /\ ("Unwind" \in OwnTests => c # 0)
  BY Numbers DEF OwnOps, OwnSure, OwnTests
<1> QED BY <1>2, <1>3, <1>4, <1>5, OwnGoes

LEMMA SalvagesGoes ==
  ASSUME NEW e
  PROVE  Goes(e, Step("Unwind", OWN, 0, 1), Own({0}, {0, 3}, {0}, {0}, FALSE, "then"),
              Flat({0}, {0}, FALSE, "no"))
<1>3. "Unwind" \in OwnOps /\ 0 \in Int
  BY DEF OwnOps, OwnSure, OwnTests, Prices
<1>1. Step("Unwind", OWN, 0, 1).op = "Unwind" /\ Step("Unwind", OWN, 0, 1).slot = OWN /\ Step("Unwind", OWN, 0, 1).n = 0
  BY <1>3, StepIs, Numbers
<1>2. OwnStep(Step("Unwind", OWN, 0, 1), Own({0}, {0, 3}, {0}, {0}, FALSE, "then"),
              Flat({0}, {0}, FALSE, "no"), Flat({0}, {0}, FALSE, "no"))
  BY <1>1, Salvages1
<1> QED BY <1>2, <1>3, Views, OwnTries DEF OwnOps, OwnSure, OwnTests, Own, Off, Flat

LEMMA GainsGoes ==
  ASSUME NEW e, Off(e), NEW c \in {0, 1},
         NEW k \in Nat, k # 0, NEW x \in Int, NEW q \in Prices, NEW p \in Prices, NEW g \in Nat, x * (p - q) = g,
         NEW ready, NEW know
  PROVE  Goes(e, Step("KeeperCrank", OWN, 0, c), Held({k}, x, q, p, ready, know),
              Held({k}, x, p, p, FALSE, know))
<1>3. "KeeperCrank" \in OwnOps /\ 0 \in Int
  BY DEF OwnOps, OwnSure, OwnTests, Prices
<1>1. Step("KeeperCrank", OWN, 0, c).op = "KeeperCrank" /\ Step("KeeperCrank", OWN, 0, c).slot = OWN /\ Step("KeeperCrank", OWN, 0, c).n = 0
  BY <1>3, StepIs, Numbers
<1>2. ASSUME NEW off, Off(off)
      PROVE  OwnStep(Step("KeeperCrank", OWN, 0, c), Held({k}, x, q, p, ready, know),
                     Held({k}, x, p, p, FALSE, know), off)
  BY <1>1, <1>2, Gains1 DEF OwnTests
<1>4. Held({k}, x, q, p, ready, know).kind = "own" /\ Off(Held({k}, x, p, p, FALSE, know))
  BY Views DEF Own, Off, Flat, Held
<1>5. c \in {0, 1, RETURN} /\ ("KeeperCrank" \in OwnTests => c # 0)
  BY Numbers DEF OwnOps, OwnSure, OwnTests
<1> QED BY <1>2, <1>3, <1>4, <1>5, OwnGoes

LEMMA LosesGoes ==
  ASSUME NEW e, Off(e), NEW c \in {0, 1},
         NEW k \in Nat, NEW x \in Int, x # 0, NEW q \in Prices, NEW p \in Prices, NEW g \in Int, x * (p - q) = g, g < 0,
         k + g > 0, NEW ready, NEW know
  PROVE  Goes(e, Step("KeeperCrank", OWN, 0, c), Held({k}, x, q, p, ready, know),
              Held({k + g}, x, p, p, ready, "no"))
<1>3. "KeeperCrank" \in OwnOps /\ 0 \in Int
  BY DEF OwnOps, OwnSure, OwnTests, Prices
<1>1. Step("KeeperCrank", OWN, 0, c).op = "KeeperCrank" /\ Step("KeeperCrank", OWN, 0, c).slot = OWN /\ Step("KeeperCrank", OWN, 0, c).n = 0
  BY <1>3, StepIs, Numbers
<1>2. ASSUME NEW off, Off(off)
      PROVE  OwnStep(Step("KeeperCrank", OWN, 0, c), Held({k}, x, q, p, ready, know),
                     Held({k + g}, x, p, p, ready, "no"), off)
  BY <1>1, <1>2, Loses1 DEF OwnTests
<1>4. Held({k}, x, q, p, ready, know).kind = "own" /\ Off(Held({k + g}, x, p, p, ready, "no"))
  BY Views DEF Own, Off, Flat, Held
<1>5. c \in {0, 1, RETURN} /\ ("KeeperCrank" \in OwnTests => c # 0)
  BY Numbers DEF OwnOps, OwnSure, OwnTests
<1> QED BY <1>2, <1>3, <1>4, <1>5, OwnGoes

LEMMA SinksGoes ==
  ASSUME NEW e, Off(e), NEW c \in {0, 1},
         NEW ready
  PROVE  Goes(e, Step("KeeperCrank", OWN, 0, c), Own({2}, {3}, {0}, {-2}, ready, "now"),
              Own({0}, {0, 3}, {-2}, {-2}, FALSE, "then"))
<1>3. "KeeperCrank" \in OwnOps /\ 0 \in Int
  BY DEF OwnOps, OwnSure, OwnTests, Prices
<1>1. Step("KeeperCrank", OWN, 0, c).op = "KeeperCrank" /\ Step("KeeperCrank", OWN, 0, c).slot = OWN /\ Step("KeeperCrank", OWN, 0, c).n = 0
  BY <1>3, StepIs, Numbers
<1>2. ASSUME NEW off, Off(off)
      PROVE  OwnStep(Step("KeeperCrank", OWN, 0, c), Own({2}, {3}, {0}, {-2}, ready, "now"),
                     Own({0}, {0, 3}, {-2}, {-2}, FALSE, "then"), off)
  BY <1>1, <1>2, Sinks1 DEF OwnTests
<1>4. Own({2}, {3}, {0}, {-2}, ready, "now").kind = "own" /\ Off(Own({0}, {0, 3}, {-2}, {-2}, FALSE, "then"))
  BY Views DEF Own, Off, Flat, Held
<1>5. c \in {0, 1, RETURN} /\ ("KeeperCrank" \in OwnTests => c # 0)
  BY Numbers DEF OwnOps, OwnSure, OwnTests
<1> QED BY <1>2, <1>3, <1>4, <1>5, OwnGoes

LEMMA RisesGoes ==
  ASSUME NEW e, Off(e), NEW c \in {0, 1},
         NEW ready
  PROVE  Goes(e, Step("KeeperCrank", OWN, 0, c), Own({0}, {0, 3}, {-2}, {0}, ready, "now"),
              Own({0}, {0, 3}, {0}, {0}, FALSE, "then"))
<1>3. "KeeperCrank" \in OwnOps /\ 0 \in Int
  BY DEF OwnOps, OwnSure, OwnTests, Prices
<1>1. Step("KeeperCrank", OWN, 0, c).op = "KeeperCrank" /\ Step("KeeperCrank", OWN, 0, c).slot = OWN /\ Step("KeeperCrank", OWN, 0, c).n = 0
  BY <1>3, StepIs, Numbers
<1>2. ASSUME NEW off, Off(off)
      PROVE  OwnStep(Step("KeeperCrank", OWN, 0, c), Own({0}, {0, 3}, {-2}, {0}, ready, "now"),
                     Own({0}, {0, 3}, {0}, {0}, FALSE, "then"), off)
  BY <1>1, <1>2, Rises1 DEF OwnTests
<1>4. Own({0}, {0, 3}, {-2}, {0}, ready, "now").kind = "own" /\ Off(Own({0}, {0, 3}, {0}, {0}, FALSE, "then"))
  BY Views DEF Own, Off, Flat, Held
<1>5. c \in {0, 1, RETURN} /\ ("KeeperCrank" \in OwnTests => c # 0)
  BY Numbers DEF OwnOps, OwnSure, OwnTests
<1> QED BY <1>2, <1>3, <1>4, <1>5, OwnGoes

LEMMA NotFundedGoes ==
  ASSUME NEW e, Off(e), NEW c \in {1, RETURN}, NEW cap, NEW pos, NEW at, NEW price, NEW ready,
         cap = {DEPOSIT}
  PROVE  Goes(e, Step("NotFunded", OWN, 0, c), Own(cap, pos, at, price, ready, "now"),
              Own(cap, pos, at, price, ready, "now"))
<1>3. "NotFunded" \in OwnOps /\ 0 \in Int
  BY DEF OwnOps, OwnSure, OwnTests, Prices
<1>1. Step("NotFunded", OWN, 0, c).op = "NotFunded" /\ Step("NotFunded", OWN, 0, c).slot = OWN /\ Step("NotFunded", OWN, 0, c).n = 0
  BY <1>3, StepIs, Numbers
<1>2. ASSUME NEW off, Off(off)
      PROVE  OwnStep(Step("NotFunded", OWN, 0, c), Own(cap, pos, at, price, ready, "now"),
                     Own(cap, pos, at, price, ready, "now"), off)
  BY <1>1, <1>2, Jump1 DEF OwnTests
<1>4. Own(cap, pos, at, price, ready, "now").kind = "own" /\ Off(Own(cap, pos, at, price, ready, "now"))
  BY Views DEF Own, Off, Flat, Held
<1>5. c \in {0, 1, RETURN} /\ ("NotFunded" \in OwnTests => c # 0)
  BY Numbers DEF OwnOps, OwnSure, OwnTests
<1> QED BY <1>2, <1>3, <1>4, <1>5, OwnGoes

LEMMA NotFilledGoes ==
  ASSUME NEW e, Off(e), NEW c \in {1, RETURN}, NEW cap, NEW pos, NEW at, NEW price, NEW ready,
         pos = {SIZE}
  PROVE  Goes(e, Step("NotFilled", OWN, 0, c), Own(cap, pos, at, price, ready, "now"),
              Own(cap, pos, at, price, ready, "now"))
<1>3. "NotFilled" \in OwnOps /\ 0 \in Int
  BY DEF OwnOps, OwnSure, OwnTests, Prices
<1>1. Step("NotFilled", OWN, 0, c).op = "NotFilled" /\ Step("NotFilled", OWN, 0, c).slot = OWN /\ Step("NotFilled", OWN, 0, c).n = 0
  BY <1>3, StepIs, Numbers
<1>2. ASSUME NEW off, Off(off)
      PROVE  OwnStep(Step("NotFilled", OWN, 0, c), Own(cap, pos, at, price, ready, "now"),
                     Own(cap, pos, at, price, ready, "now"), off)
  BY <1>1, <1>2, Jump1 DEF OwnTests
<1>4. Own(cap, pos, at, price, ready, "now").kind = "own" /\ Off(Own(cap, pos, at, price, ready, "now"))
  BY Views DEF Own, Off, Flat, Held
<1>5. c \in {0, 1, RETURN} /\ ("NotFilled" \in OwnTests => c # 0)
  BY Numbers DEF OwnOps, OwnSure, OwnTests
<1> QED BY <1>2, <1>3, <1>4, <1>5, OwnGoes

LEMMA OpenGoes ==
  ASSUME NEW e, Off(e), NEW c \in {1, RETURN}, NEW cap, NEW pos, NEW at, NEW price, NEW ready,
         pos = {0}
  PROVE  Goes(e, Step("Open", OWN, 0, c), Own(cap, pos, at, price, ready, "now"),
              Own(cap, pos, at, price, ready, "now"))
<1>3. "Open" \in OwnOps /\ 0 \in Int
  BY DEF OwnOps, OwnSure, OwnTests, Prices
<1>1. Step("Open", OWN, 0, c).op = "Open" /\ Step("Open", OWN, 0, c).slot = OWN /\ Step("Open", OWN, 0, c).n = 0
  BY <1>3, StepIs, Numbers
<1>2. ASSUME NEW off, Off(off)
      PROVE  OwnStep(Step("Open", OWN, 0, c), Own(cap, pos, at, price, ready, "now"),
                     Own(cap, pos, at, price, ready, "now"), off)
  BY <1>1, <1>2, Jump1 DEF OwnTests
<1>4. Own(cap, pos, at, price, ready, "now").kind = "own" /\ Off(Own(cap, pos, at, price, ready, "now"))
  BY Views DEF Own, Off, Flat, Held
<1>5. c \in {0, 1, RETURN} /\ ("Open" \in OwnTests => c # 0)
  BY Numbers DEF OwnOps, OwnSure, OwnTests
<1> QED BY <1>2, <1>3, <1>4, <1>5, OwnGoes

LEMMA StaysGoes ==
  ASSUME NEW e, Off(e), NEW c \in {1, RETURN},
         NEW cap, NEW pos, NEW at, NEW price, NEW ready
  PROVE  Goes(e, Step("Gone", OWN, 0, c), Own(cap, pos, at, price, ready, "now"),
              Own(cap, pos, at, price, ready, "now"))
<1>3. "Gone" \in OwnOps /\ 0 \in Int
  BY DEF OwnOps, OwnSure, OwnTests, Prices
<1>1. Step("Gone", OWN, 0, c).op = "Gone" /\ Step("Gone", OWN, 0, c).slot = OWN /\ Step("Gone", OWN, 0, c).n = 0
  BY <1>3, StepIs, Numbers
<1>2. ASSUME NEW off, Off(off)
      PROVE  OwnStep(Step("Gone", OWN, 0, c), Own(cap, pos, at, price, ready, "now"),
                     Own(cap, pos, at, price, ready, "now"), off)
  BY <1>1, <1>2, Jump1 DEF OwnTests
<1>4. Own(cap, pos, at, price, ready, "now").kind = "own" /\ Off(Own(cap, pos, at, price, ready, "now"))
  BY Views DEF Own, Off, Flat, Held
<1>5. c \in {0, 1, RETURN} /\ ("Gone" \in OwnTests => c # 0)
  BY Numbers DEF OwnOps, OwnSure, OwnTests
<1> QED BY <1>2, <1>3, <1>4, <1>5, OwnGoes

LEMMA FromGoneGoes ==
  ASSUME NEW e, Off(e), NEW op \in OwnOps, NEW c \in {0, 1, RETURN},
         NEW n \in Int, NEW w, w.kind = "own", op = "PushOraclePrice" => n \in Prices,
         op = "DepositCollateral" => n \in Nat, op \in OwnTests => c # 0
  PROVE  Goes(e, Step(op, OWN, n, c), Gone,
              w)
<1>3. op \in OwnOps /\ n \in Int
  BY DEF OwnOps, OwnSure, OwnTests, Prices
<1>1. Step(op, OWN, n, c).op = op /\ Step(op, OWN, n, c).slot = OWN /\ Step(op, OWN, n, c).n = n
  BY <1>3, StepIs, Numbers
<1>2. ASSUME NEW off, Off(off)
      PROVE  OwnStep(Step(op, OWN, n, c), Gone,
                     w, off)
  BY <1>1, <1>2, FromGone DEF OwnTests
<1>4. Gone.kind = "own" /\ Off(w)
  BY Views DEF Own, Off, Flat, Held
<1>5. c \in {0, 1, RETURN} /\ (op \in OwnTests => c # 0)
  BY Numbers DEF OwnOps, OwnSure, OwnTests
<1> QED BY <1>2, <1>3, <1>4, <1>5, OwnGoes

-----------------------------------------------------------------------------
(***************************************************************************)
(* The tests, from the idle script back to it.                             *)
(***************************************************************************)
Done == Idle(TRUE)

(* The test ends with its account closed, or never had one.                *)
Serves(A) == \E n \in 0 .. 98, w \in {Gone, Done} : Leads(Done, n, Done, A, w)

LEMMA OffDone == Off(Done)
BY Views DEF Done

LEMMA Words ==
  /\ \A p : Push(p) = Step("PushOraclePrice", OWN, p, 0)
  /\ crank = Step("KeeperCrank", OWN, 0, 0) /\ crankN = Step("KeeperCrank", OWN, 0, 1)
  /\ Read = Step("Read", OWN, 0, 0) /\ Look = Step("Look", OWN, 0, 0) /\ Wait = Step("Wait", OWN, 0, 0)
  /\ \A d : trade(d) = Step("TradeCpi", OWN, d, 0) /\ Caught(trade(d)) = Step("TradeCpi", OWN, d, 1)
  /\ \A n : Caught(withdraw(n)) = Step("WithdrawCollateral", OWN, n, 1)
  /\ WithdrawSeen = Step("WithdrawSeen", OWN, 0, 0) /\ Caught(WithdrawSeen) = Step("WithdrawSeen", OWN, 0, 1)
  /\ OrReturn(WithdrawSeen) = Step("WithdrawSeen", OWN, 0, RETURN)
  /\ OrReturn(WithdrawMost) = Step("WithdrawSeen", OWN, 1, RETURN)
  /\ \A d : OrReturn(trade(d)) = Step("TradeCpi", OWN, d, RETURN)
  /\ close = Step("CloseAccount", OWN, 0, 0) /\ Caught(close) = Step("CloseAccount", OWN, 0, 1)
  /\ Try("Unwind", OWN, 0) = Step("Unwind", OWN, 0, 1)
  /\ \A c, far : If(c, far) = Step(c, OWN, 0, far)
  /\ \A far : Go(far) = Step("Go", OWN, 0, far)
<1>1. /\ \A p : Push(p) = Step("PushOraclePrice", OWN, p, 0)
      /\ crank = Step("KeeperCrank", OWN, 0, 0) /\ crankN = Step("KeeperCrank", OWN, 0, 1)
  BY DEF Push, crank, crankN, Do, Try
<1>2. Read = Step("Read", OWN, 0, 0) /\ Look = Step("Look", OWN, 0, 0) /\ Wait = Step("Wait", OWN, 0, 0)
  BY DEF Read, Look, Wait, Do
<1>3. \A d : /\ trade(d) = Step("TradeCpi", OWN, d, 0) /\ Caught(trade(d)) = Step("TradeCpi", OWN, d, 1)
             /\ OrReturn(trade(d)) = Step("TradeCpi", OWN, d, RETURN)
  BY DEF trade, Do, Caught, OrReturn, Step
<1>4. \A n : Caught(withdraw(n)) = Step("WithdrawCollateral", OWN, n, 1)
  BY DEF withdraw, Do, Caught, Step
<1>5. /\ WithdrawSeen = Step("WithdrawSeen", OWN, 0, 0) /\ Caught(WithdrawSeen) = Step("WithdrawSeen", OWN, 0, 1)
      /\ OrReturn(WithdrawSeen) = Step("WithdrawSeen", OWN, 0, RETURN)
      /\ OrReturn(WithdrawMost) = Step("WithdrawSeen", OWN, 1, RETURN)
  BY DEF WithdrawSeen, WithdrawMost, Do, Caught, OrReturn, Step
<1>6. close = Step("CloseAccount", OWN, 0, 0) /\ Caught(close) = Step("CloseAccount", OWN, 0, 1)
  BY DEF close, Do, Caught, Step
<1>7. /\ Try("Unwind", OWN, 0) = Step("Unwind", OWN, 0, 1)
      /\ \A c, far : If(c, far) = Step(c, OWN, 0, far)
      /\ \A far : Go(far) = Step("Go", OWN, 0, far)
  BY DEF Try, If, Go
<1> QED BY <1>1, <1>2, <1>3, <1>4, <1>5, <1>6, <1>7

(* What a flat account goes through.                                       *)
LEMMA FlatSteps ==
  ASSUME NEW cap, NEW price, NEW ready, NEW know, \A k \in cap : k \in Nat
  PROVE  LET F == Flat(cap, price, ready, know)
             G == Flat(cap, price, ready, "now")
         IN  /\ \A p \in Prices : Goes(Done, Push(p), F, Flat(cap, {p}, ready, know))
             /\ Goes(Done, crank, F, F) /\ Goes(Done, crankN, F, F)
             /\ Goes(Done, Read, F, G) /\ Goes(Done, Look, F, G)
             /\ Goes(Done, Wait, F, Flat(cap, price, TRUE, know))
             /\ Goes(Done, Caught(withdraw(0)), F, Flat(Nat, price, ready, "no"))
             /\ Goes(Done, WithdrawSeen, G, Flat(Nat, price, ready, "no"))
             /\ Goes(Done, Caught(WithdrawSeen), G, Flat(Nat, price, ready, "no"))
             /\ Goes(Done, If("Open", RETURN), G, G)
             /\ Goes(Done, close, Flat(cap, price, TRUE, know), Gone)
             /\ Goes(Done, Caught(close), Flat(cap, price, TRUE, know), Gone)
<1> DEFINE F == Flat(cap, price, ready, know)
           G == Flat(cap, price, ready, "now")
<1>1. \A p \in Prices : Goes(Done, Push(p), F, Flat(cap, {p}, ready, know))
  BY OffDone, Words, PushGoes DEF Flat
<1>2. Goes(Done, crank, F, F) /\ Goes(Done, crankN, F, F)
  BY OffDone, Words, CrankGoes
<1>3. Goes(Done, Read, F, G) /\ Goes(Done, Look, F, G)
  BY OffDone, Words, ReadGoes DEF Flat
<1>4. Goes(Done, Wait, F, Flat(cap, price, TRUE, know))
  BY OffDone, Words, WaitGoes DEF Flat
<1>5. Goes(Done, Caught(withdraw(0)), F, Flat(Nat, price, ready, "no"))
  BY OffDone, Words, WithdrawsGoes
<1>6. Goes(Done, WithdrawSeen, G, Flat(Nat, price, ready, "no"))
      /\ Goes(Done, Caught(WithdrawSeen), G, Flat(Nat, price, ready, "no"))
  BY OffDone, Words, DrawsGoes
<1>7. Goes(Done, If("Open", RETURN), G, G)
  BY OffDone, Words, OpenGoes DEF Flat
<1>8. /\ Goes(Done, close, Flat(cap, price, TRUE, know), Gone)
      /\ Goes(Done, Caught(close), Flat(cap, price, TRUE, know), Gone)
  BY OffDone, Words, EndsGoes
<1> QED BY <1>1, <1>2, <1>3, <1>4, <1>5, <1>6, <1>7, <1>8, Zenon

(* What a position goes through.                                           *)
LEMMA HeldSteps ==
  ASSUME NEW cap, NEW x \in Int, NEW q, NEW p \in Prices, NEW ready, NEW know
  PROVE  LET H == Held(cap, x, q, p, ready, know)
             K == Held(cap, x, q, p, ready, "now")
         IN  /\ \A r \in Prices : Goes(Done, Push(r), H, Held(cap, x, q, r, ready, know))
             /\ Goes(Done, Read, H, K) /\ Goes(Done, Look, H, K)
             /\ Goes(Done, Wait, H, Held(cap, x, q, p, TRUE, know))
             /\ \A n \in Int : n = -x =>
                  /\ Goes(Done, trade(n), Held(cap, x, p, p, ready, know), Flat(cap, {p}, ready, "no"))
                  /\ Goes(Done, Caught(trade(n)), Held(cap, x, p, p, ready, know), Flat(cap, {p}, ready, "no"))
<1> DEFINE H == Held(cap, x, q, p, ready, know)
           K == Held(cap, x, q, p, ready, "now")
<1>1. \A r \in Prices : Goes(Done, Push(r), H, Held(cap, x, q, r, ready, know))
  BY OffDone, Words, PushGoes DEF Held
<1>2. Goes(Done, Read, H, K) /\ Goes(Done, Look, H, K)
  BY OffDone, Words, ReadGoes DEF Held
<1>3. Goes(Done, Wait, H, Held(cap, x, q, p, TRUE, know))
  BY OffDone, Words, WaitGoes DEF Held
<1>4. ASSUME NEW n \in Int, n = -x
      PROVE  /\ Goes(Done, trade(n), Held(cap, x, p, p, ready, know), Flat(cap, {p}, ready, "no"))
             /\ Goes(Done, Caught(trade(n)), Held(cap, x, p, p, ready, know), Flat(cap, {p}, ready, "no"))
  BY <1>4, OffDone, Words, ClosesGoes
<1> QED BY <1>1, <1>2, <1>3, <1>4, Zenon

LEMMA OpenSteps ==
  ASSUME NEW n \in Int, NEW k \in Nat, NEW p \in Prices, NEW ready, NEW know, Abs(n) <= LEVERAGE * k
  PROVE  /\ Goes(Done, trade(n), Flat({k}, {p}, ready, know), Held({k}, n, p, p, ready, "no"))
         /\ Goes(Done, Caught(trade(n)), Flat({k}, {p}, ready, know), Held({k}, n, p, p, ready, "no"))
BY OffDone, Words, OpensGoes

(* From an account that is gone: only what is not an instruction matters.  *)
LEMMA GoneSteps ==
  ASSUME NEW w, w.kind = "own"
  PROVE  /\ Goes(Done, Read, Gone, w) /\ Goes(Done, Wait, Gone, w) /\ Goes(Done, crankN, Gone, w)
         /\ \A p \in Prices : Goes(Done, Push(p), Gone, w)
         /\ \A d \in Int : Goes(Done, trade(d), Gone, w) /\ Goes(Done, Caught(trade(d)), Gone, w)
         /\ Goes(Done, Caught(withdraw(0)), Gone, w) /\ Goes(Done, Caught(close), Gone, w)
         /\ Goes(Done, Go(RETURN), Gone, w)
<1>1. /\ {"Read", "Wait", "KeeperCrank", "PushOraclePrice", "TradeCpi", "WithdrawCollateral", "CloseAccount", "Go"}
            \subseteq OwnOps
      /\ \A p \in Prices : p \in Int
  BY DEF OwnOps, OwnSure, OwnTests, Prices
<1>2. \A op \in OwnOps, c \in {0, 1, RETURN}, n \in Int :
        /\ op = "PushOraclePrice" => n \in Prices
        /\ op = "DepositCollateral" => n \in Nat
        /\ op \in OwnTests => c # 0
        => Goes(Done, Step(op, OWN, n, c), Gone, w)
  BY OffDone, FromGoneGoes
<1>3. /\ Goes(Done, Step("Read", OWN, 0, 0), Gone, w) /\ Goes(Done, Step("Wait", OWN, 0, 0), Gone, w)
      /\ Goes(Done, Step("KeeperCrank", OWN, 0, 1), Gone, w)
      /\ Goes(Done, Step("WithdrawCollateral", OWN, 0, 1), Gone, w)
      /\ Goes(Done, Step("CloseAccount", OWN, 0, 1), Gone, w)
  BY <1>1, <1>2 DEF OwnTests
<1>4. Goes(Done, Step("Go", OWN, 0, RETURN), Gone, w)
  BY <1>1, <1>2, Numbers
<1>5. \A p \in Prices : Goes(Done, Step("PushOraclePrice", OWN, p, 0), Gone, w)
  BY <1>1, <1>2 DEF OwnTests
<1>6. \A d \in Int : /\ Goes(Done, Step("TradeCpi", OWN, d, 0), Gone, w)
                     /\ Goes(Done, Step("TradeCpi", OWN, d, 1), Gone, w)
  BY <1>1, <1>2 DEF OwnTests
<1> QED BY <1>3, <1>4, <1>5, <1>6, Words

(* A script that is idle.                                                  *)
LEMMA IdleSteps ==
  ASSUME NEW mark \in BOOLEAN
  PROVE  /\ Goes(Done, Push(0), Idle(mark), Done)
         /\ Goes(Done, crankN, Idle(mark), Idle(mark)) /\ Goes(Done, Read, Idle(mark), Idle(mark))
         /\ Goes(Done, If("NoLp", RETURN), Done, Done)
<1> DEFINE P == Step("PushOraclePrice", OWN, 0, 0)
           K == Step("KeeperCrank", OWN, 0, 1)
           R == Step("Read", OWN, 0, 0)
           N == Step("NoLp", OWN, 0, RETURN)
<1>1. /\ P \in StepType /\ P.op = "PushOraclePrice" /\ P.n = 0 /\ P.catch = 0
      /\ K \in StepType /\ K.op = "KeeperCrank" /\ K.catch = 1
      /\ R \in StepType /\ R.op = "Read" /\ R.catch = 0
      /\ N \in StepType /\ N.op = "NoLp" /\ N.catch = RETURN
  BY StepIs, Numbers DEF OpNames, Instructions, Reads, Tests
<1> HIDE DEF P, K, R, N
<1>2. /\ Idle(mark).kind = "idle" /\ Idle(mark).mark = mark /\ Done.kind = "idle" /\ Done.mark = TRUE
      /\ Dead.kind = "dead"
  BY DEF Idle, Done, Dead
<1>3. Goes(Done, P, Idle(mark), Done)
  <2>1. IdleStep(P, Idle(mark), Done, Dead)
    BY <1>1, <1>2 DEF IdleStep, Prices
  <2> QED BY <1>1, <1>2, <2>1 DEF Goes, Sound, Tests
<1>4. Goes(Done, K, Idle(mark), Idle(mark))
  <2>1. IdleStep(K, Idle(mark), Idle(mark), Idle(mark))
    BY <1>1, <1>2 DEF IdleStep
  <2> QED BY <1>1, <1>2, <2>1, Numbers DEF Goes, Sound, Tests
<1>5. Goes(Done, R, Idle(mark), Idle(mark))
  <2>1. IdleStep(R, Idle(mark), Idle(mark), Dead)
    BY <1>1, <1>2 DEF IdleStep
  <2> QED BY <1>1, <1>2, <2>1 DEF Goes, Sound, Tests
<1>6. Goes(Done, N, Done, Done)
  <2>1. IdleStep(N, Done, Done, Done)
    BY <1>1, <1>2 DEF IdleStep
  <2> QED BY <1>1, <1>2, <2>1, Numbers DEF Goes, Sound, Tests
<1> QED BY <1>3, <1>4, <1>5, <1>6, Words DEF P, K, R, N

-----------------------------------------------------------------------------
(***************************************************************************)
(* The parts that the tests share.                                         *)
(***************************************************************************)
LEMMA PricesAre == {-2, -1, 0, 1} \subseteq Prices /\ Prices \subseteq Int
BY DEF Prices

(* A tuple and its parts.                                                  *)
Joins(a, b, c, d) ==
  /\ <<a, b>> = <<a>> \o <<b>> /\ <<b, c>> = <<b>> \o <<c>>
  /\ <<a, b, c>> = <<a, b>> \o <<c>> /\ <<a, b, c>> = <<a>> \o <<b, c>>
  /\ <<a, b, c, d>> = <<a, b, c>> \o <<d>>

LEMMA TuplesJoin ==
  ASSUME NEW a \in StepType, NEW b \in StepType, NEW c \in StepType, NEW d \in StepType
  PROVE  Joins(a, b, c, d)
<1> DEFINE S == StepType
<1>1. <<a, b, c>> \in Seq(S) /\ <<c>> \in Seq(S) /\ <<a>> \in Seq(S) /\ <<a, b>> \in Seq(S)
      /\ <<b, c>> \in Seq(S) /\ <<a, b, c, d>> \in Seq(S) /\ <<d>> \in Seq(S)
  OBVIOUS
<1>2. ASSUME NEW x \in S, NEW y \in S PROVE <<x, y>> = <<x>> \o <<y>>
  <2>1. <<x, y>> \in Seq(S) /\ <<x>> \in Seq(S) /\ <<y>> \in Seq(S)
    OBVIOUS
  <2>2. (<<x>> \o <<y>>) \in Seq(S) /\ Len(<<x>> \o <<y>>) = 2 /\ Len(<<x, y>>) = 2
    BY <2>1
  <2>3. ASSUME NEW i \in 1 .. 2 PROVE (<<x>> \o <<y>>)[i] = <<x, y>>[i]
    <3>1. i = 1 \/ i = 2
      OBVIOUS
    <3> QED BY <3>1, <2>1
  <2> QED BY <2>1, <2>2, <2>3, SeqEqual
<1>3. <<a, b, c>> = <<a, b>> \o <<c>>
  <2>1. (<<a, b>> \o <<c>>) \in Seq(S) /\ Len(<<a, b>> \o <<c>>) = 3 /\ Len(<<a, b, c>>) = 3
    BY <1>1
  <2>2. ASSUME NEW i \in 1 .. 3 PROVE (<<a, b>> \o <<c>>)[i] = <<a, b, c>>[i]
    <3>1. i = 1 \/ i = 2 \/ i = 3
      OBVIOUS
    <3> QED BY <3>1, <1>1
  <2> QED BY <1>1, <2>1, <2>2, SeqEqual
<1>4. <<a, b, c>> = <<a>> \o <<b, c>>
  <2>1. (<<a>> \o <<b, c>>) \in Seq(S) /\ Len(<<a>> \o <<b, c>>) = 3 /\ Len(<<a, b, c>>) = 3
    BY <1>1
  <2>2. ASSUME NEW i \in 1 .. 3 PROVE (<<a>> \o <<b, c>>)[i] = <<a, b, c>>[i]
    <3>1. i = 1 \/ i = 2 \/ i = 3
      OBVIOUS
    <3> QED BY <3>1, <1>1
  <2> QED BY <1>1, <2>1, <2>2, SeqEqual
<1>5. <<a, b, c, d>> = <<a, b, c>> \o <<d>>
  <2>1. (<<a, b, c>> \o <<d>>) \in Seq(S) /\ Len(<<a, b, c>> \o <<d>>) = 4 /\ Len(<<a, b, c, d>>) = 4
    BY <1>1
  <2>2. ASSUME NEW i \in 1 .. 4 PROVE (<<a, b, c>> \o <<d>>)[i] = <<a, b, c, d>>[i]
    <3>1. i = 1 \/ i = 2 \/ i = 3 \/ i = 4
      OBVIOUS
    <3> QED BY <3>1, <1>1
  <2> QED BY <1>1, <2>1, <2>2, SeqEqual
<1>6. <<a, b>> = <<a>> \o <<b>> /\ <<b, c>> = <<b>> \o <<c>>
  BY <1>2
<1> QED BY <1>3, <1>4, <1>5, <1>6 DEF Joins

(* An exception skips the steps A.                                         *)
LEMMA Skips ==
  ASSUME NEW n, NEW v, v.kind = "own", NEW x, NEW w, NEW A, Leads(Done, n, x, A, w), n < 90,
         NEW op \in OwnOps, NEW k \in Int, OwnStep(Step(op, OWN, k, n + 1), v, x, w)
  PROVE  Leads(Done, n + 1, v, <<Step(op, OWN, k, n + 1)>> \o A, w)
<1> DEFINE s == Step(op, OWN, k, n + 1)
<1>1. n \in Nat /\ n + 1 \in Int /\ n + 1 # RETURN /\ n + 1 # 0
  BY DEF Leads, RETURN
<1>2. op \in OpNames /\ op # "Take"
  BY DEF OwnOps, OwnSure, OwnTests, Tests, OpNames, Instructions, Reads
<1>3. s \in StepType /\ s.op = op /\ s.catch = n + 1
  BY <1>1, <1>2, StepIs, Numbers
<1> HIDE DEF s
<1>4. Sound(s, v, x, w)
  BY <1>1, <1>2, <1>3 DEF Sound, s
<1>5. Leads(Done, n + 1, v, <<s>> \o A, w)
  BY <1>1, <1>3, <1>4, Over
<1> QED BY <1>5 DEF s

(* A step that is refused, or not.                                         *)
LEMMA Tried ==
  ASSUME NEW m, NEW n, NEW v, v.kind = "own", NEW x, NEW y, NEW w, w.kind = "own", NEW done, NEW refused,
         Leads(Done, m, x, done, w), Leads(Done, n, y, refused, w), m + n < 90,
         NEW op \in OwnOps, NEW k \in Int, OwnStep(Step(op, OWN, k, m + 2), v, x, y)
  PROVE  Leads(Done, m + n + 2, v, TryElse(Step(op, OWN, k, 0), done, refused), w)
<1> DEFINE s == Step(op, OWN, k, m + 2)
           g == Step("Go", OWN, 0, n + 1)
<1>1. /\ m \in Nat /\ n \in Nat /\ m + 2 \in Int /\ m + 2 # 0 /\ n + 1 \in Int /\ n + 1 # 0
      /\ Len(done) = m /\ Len(refused) = n
  BY DEF Leads
<1>2. op \in OpNames /\ op # "Take" /\ "Go" \in OpNames /\ "Go" \in OwnTests
  BY DEF OwnOps, OwnSure, OwnTests, Tests, OpNames, Instructions, Reads
<1>3. /\ s \in StepType /\ s.op = op /\ s.catch = m + 2
      /\ g \in StepType /\ g.op = "Go" /\ g.catch = n + 1 /\ g.slot = OWN
  BY <1>1, <1>2, StepIs, Numbers
<1>4. TryElse(Step(op, OWN, k, 0), done, refused) = <<s>> \o done \o <<g>> \o refused
  <2>1. [Step(op, OWN, k, 0) EXCEPT !.catch = Len(done) + 2] = s
    BY <1>1 DEF Step
  <2>2. Go(Len(refused) + 1) = g
    BY <1>1 DEF Go
  <2> HIDE DEF s, g
  <2> QED BY <2>1, <2>2 DEF TryElse
<1>5. OwnStep(s, v, x, y)
  OBVIOUS
<1> HIDE DEF s, g
<1>6. Sound(s, v, x, y)
  BY <1>1, <1>2, <1>3, <1>5 DEF Sound
<1>7. OwnStep(g, w, y, w)
  BY <1>2, <1>3 DEF OwnStep, OwnEffect, Jumps, Allows, OwnTests
<1>8. Sound(g, w, y, w)
  BY <1>1, <1>3, <1>7 DEF Sound
<1> QED BY <1>3, <1>4, <1>6, <1>8, Either

Entered == Flat({2}, Prices, TRUE, "no")

(* Enter: the used slots, the new account, its index, the deposit.         *)
LEMMA EnterLeads ==
  ASSUME NEW v \in {Done, Sweep("start", TRUE)}
  PROVE  Leads(Done, 3 + 1, v, Enter, Entered)
<1> DEFINE R == Step("Read", OWN, 0, 0)
           I == Step("InitUser", OWN, 0, 0)
           F == Step("Found", OWN, 0, 0)
           D == Step("DepositCollateral", OWN, 2, 0)
           N == Flat({0}, Prices, TRUE, "no")
<1>1. /\ R \in StepType /\ R.op = "Read" /\ R.catch = 0
      /\ I \in StepType /\ I.op = "InitUser" /\ I.catch = 0
      /\ F \in StepType /\ F.op = "Found" /\ F.catch = 0
      /\ D \in StepType /\ D.op = "DepositCollateral" /\ D.catch = 0 /\ D.slot = OWN /\ D.n = 2
  BY StepIs, Numbers DEF OpNames, Instructions, Reads, Tests
<1>2. initUser = <<R, I, F>> /\ Enter = initUser \o <<D>>
  BY Writing DEF initUser, Enter, Read, DEPOSIT
<1> HIDE DEF R, I, F, D
<1>3. Dead.kind = "dead" /\ Asked.kind = "asked" /\ Fresher.kind = "fresh" /\ Off(Dead)
  BY DEF Dead, Asked, Fresher, Off
<1>4. Goes(Done, R, v, Asked)
  <2>1. CASE v = Done
    <3>1. v.kind = "idle" /\ v.mark = TRUE
      BY <2>1 DEF Done, Idle
    <3>2. IdleStep(R, v, Asked, Dead)
      BY <1>1, <1>3, <3>1 DEF IdleStep
    <3> QED BY <1>1, <3>1, <3>2 DEF Goes, Sound, Tests
  <2>2. CASE v = Sweep("start", TRUE)
    <3>1. v.kind = "sweep" /\ v.stage = "start" /\ v.mark = TRUE
      BY <2>2 DEF Sweep
    <3>2. SweepStep(R, v, Asked, Dead)
      BY <1>1, <1>3, <3>1 DEF SweepStep, RETURN
    <3> QED BY <1>1, <3>1, <3>2 DEF Goes, Sound, Tests
  <2> QED BY <2>1, <2>2
<1>5. Goes(Done, I, Asked, Fresher)
  <2>1. AskedStep(I, Fresher, Dead)
    BY <1>1, <1>3 DEF AskedStep
  <2> QED BY <1>1, <1>3, <2>1 DEF Goes, Sound, Tests
<1>6. Goes(Done, F, Fresher, N)
  <2>1. N.kind = "own"
    BY Views
  <2>2. ASSUME NEW a \in Account, NEW k \in Account, NEW p \in Prices, NewAccount(a)
        PROVE  Agrees(N, a, k, p)
    BY <2>2 DEF NewAccount, Agrees, Flat, Own
  <2>3. FreshStep(F, N, Dead)
    BY <1>1, <1>3, <2>1, <2>2 DEF FreshStep
  <2> QED BY <1>1, <1>3, <2>3 DEF Goes, Sound, Tests
<1>7. Goes(Done, D, N, Entered)
  <2>1. ASSUME NEW ready
        PROVE  OwnStep(D, Flat({0}, Prices, ready, "no"), Flat({0 + D.n}, Prices, ready, "no"), Dead)
    <3>1. 0 \in Nat /\ D.n \in Nat
      BY <1>1
    <3> QED BY <1>1, <1>3, <3>1, Deposit1
  <2>2. 0 + D.n = 2
    BY <1>1
  <2>3. OwnStep(D, N, Entered, Dead)
    BY <2>1, <2>2 DEF Entered
  <2>4. N.kind = "own"
    BY DEF Flat, Own
  <2> HIDE DEF N
  <2> QED BY <1>1, <2>3, <2>4 DEF Goes, Sound, Tests
<1> HIDE DEF N
<1>8. Leads(Done, 3, v, initUser, N)
  BY <1>2, <1>4, <1>5, <1>6, Three
<1>9. Leads(Done, 1, N, <<D>>, Entered)
  BY <1>7, Single
<1> QED BY <1>2, <1>8, <1>9, Chain

(* A fresh price and a crank, that may fail, for a flat account.           *)
LEMMA FreshLeads ==
  ASSUME NEW cap, NEW price, NEW ready, NEW know, \A k \in cap : k \in Nat, NEW p \in Prices
  PROVE  /\ Leads(Done, 2, Flat(cap, price, ready, know), Fresh(p), Flat(cap, {p}, ready, know))
         /\ Leads(Done, 2, Flat(cap, price, ready, know), Moved(p), Flat(cap, {p}, ready, know))
<1>1. Goes(Done, Push(p), Flat(cap, price, ready, know), Flat(cap, {p}, ready, know))
  BY FlatSteps
<1>2. /\ Goes(Done, crank, Flat(cap, {p}, ready, know), Flat(cap, {p}, ready, know))
      /\ Goes(Done, crankN, Flat(cap, {p}, ready, know), Flat(cap, {p}, ready, know))
  BY FlatSteps
<1> QED BY <1>1, <1>2, Two DEF Fresh, Moved

LEMMA MovedIdle ==
  ASSUME NEW mark \in BOOLEAN
  PROVE  Leads(Done, 2, Idle(mark), Moved(0), Done)
<1>1. Goes(Done, Push(0), Idle(mark), Done) /\ Goes(Done, crankN, Done, Done)
  BY IdleSteps DEF Done
<1> QED BY <1>1, Two DEF Moved

LEMMA MovedGone ==
  ASSUME NEW p \in Prices
  PROVE  Leads(Done, 2, Gone, Moved(p), Gone)
<1>1. Goes(Done, Push(p), Gone, Gone) /\ Goes(Done, crankN, Gone, Gone)
  BY GoneSteps, Views
<1> QED BY <1>1, Two DEF Moved

(* The price moves in favour of the position, or against it.               *)
LEMMA MovedGains ==
  ASSUME NEW k \in Nat, k # 0, NEW x \in Int, NEW p \in Prices, NEW g \in Nat, x * (p - 0) = g, NEW ready, NEW know
  PROVE  Leads(Done, 2, Held({k}, x, 0, 0, ready, know), Moved(p), Held({k}, x, p, p, FALSE, know))
<1>1. 0 \in Prices
  BY PricesAre
<1>2. Goes(Done, Push(p), Held({k}, x, 0, 0, ready, know), Held({k}, x, 0, p, ready, know))
  BY <1>1, HeldSteps
<1>3. Goes(Done, crankN, Held({k}, x, 0, p, ready, know), Held({k}, x, p, p, FALSE, know))
  BY <1>1, OffDone, Words, GainsGoes
<1> QED BY <1>2, <1>3, Two DEF Moved

LEMMA MovedLoses ==
  ASSUME NEW ready, NEW know
  PROVE  Leads(Done, 2, Held({2}, 1, 0, 0, ready, know), Moved(-1), Held({1}, 1, -1, -1, ready, "no"))
<1>1. 0 \in Prices /\ -1 \in Prices
  BY PricesAre
<1>2. Goes(Done, Push(-1), Held({2}, 1, 0, 0, ready, know), Held({2}, 1, 0, -1, ready, know))
  BY <1>1, OffDone, Words, PushGoes DEF Held
<1>3. Goes(Done, Step("KeeperCrank", OWN, 0, 1), Held({2}, 1, 0, -1, ready, know), Held({2 + (-1)}, 1, -1, -1, ready, "no"))
  <2>1. 2 \in Nat /\ 1 \in Int /\ 1 # 0 /\ -1 \in Int /\ 1 * ((-1) - 0) = -1 /\ -1 < 0 /\ 2 + (-1) > 0
    OBVIOUS
  <2> QED BY <1>1, <2>1, OffDone, LosesGoes
<1>4. 2 + (-1) = 1
  OBVIOUS
<1> QED BY <1>2, <1>3, <1>4, Words, Two DEF Moved

LEMMA MovedSinks ==
  ASSUME NEW ready
  PROVE  Leads(Done, 2, Held({2}, 3, 0, 0, ready, "now"), Moved(-2), Own({0}, {0, 3}, {-2}, {-2}, FALSE, "then"))
<1>1. 0 \in Prices /\ -2 \in Prices
  BY PricesAre
<1>2. Goes(Done, Push(-2), Held({2}, 3, 0, 0, ready, "now"), Held({2}, 3, 0, -2, ready, "now"))
  BY <1>1, OffDone, Words, PushGoes DEF Held
<1>3. Goes(Done, crankN, Held({2}, 3, 0, -2, ready, "now"), Own({0}, {0, 3}, {-2}, {-2}, FALSE, "then"))
  BY OffDone, Words, SinksGoes DEF Held
<1> QED BY <1>2, <1>3, Two DEF Moved

LEMMA MovedRises ==
  Leads(Done, 2, Own({0}, {0, 3}, {-2}, {-2}, FALSE, "now"), Moved(0), Own({0}, {0, 3}, {0}, {0}, FALSE, "then"))
<1>2. Goes(Done, Push(0), Own({0}, {0, 3}, {-2}, {-2}, FALSE, "now"), Own({0}, {0, 3}, {-2}, {0}, FALSE, "now"))
  BY PricesAre, OffDone, Words, PushGoes
<1>3. Goes(Done, crankN, Own({0}, {0, 3}, {-2}, {0}, FALSE, "now"), Own({0}, {0, 3}, {0}, {0}, FALSE, "then"))
  BY OffDone, Words, RisesGoes
<1> QED BY <1>2, <1>3, Two DEF Moved

(* cleanup, once the position is closed.                                   *)
LEMMA CleanupLeads ==
  ASSUME NEW n, NEW v, NEW unwind, NEW cap, NEW price, NEW ready, NEW know, \A k \in cap : k \in Nat,
         Leads(Done, n, v, unwind, Flat(cap, price, ready, know))
  PROVE  Leads(Done, n + 4, v, CleanupOf(unwind), Gone)
<1> DEFINE F == Flat(cap, price, TRUE, know)
           G == Flat(cap, price, TRUE, "now")
           H == Flat(Nat, price, TRUE, "no")
           R == Step("Read", OWN, 0, 1 + 1)
<1>1. Goes(Done, Wait, Flat(cap, price, ready, know), F)
  BY FlatSteps
<1>2. Goes(Done, Caught(WithdrawSeen), G, H)
  BY FlatSteps
<1>3. Goes(Done, Caught(close), H, Gone)
  <2>1. \A k \in Nat : k \in Nat
    OBVIOUS
  <2> QED BY <2>1, FlatSteps
<1>4. /\ R.op = "Read" /\ R.slot = OWN /\ R \in StepType /\ "Read" \in OwnOps /\ F.kind = "own" /\ Off(H)
      /\ Wait \in StepType /\ Caught(WithdrawSeen) \in StepType /\ Caught(close) \in StepType
  <2>1. 0 \in Int /\ 1 + 1 \in Int /\ "Read" \in OwnOps /\ "Read" \in OpNames
    BY DEF OwnOps, OwnSure, OpNames, Reads
  <2>2. R.op = "Read" /\ R.slot = OWN /\ R \in StepType
    BY <2>1, StepIs, Numbers
  <2>3. F.kind = "own" /\ Off(H)
    BY DEF Flat, Own, Off
  <2> QED BY <1>1, <1>2, <1>3, <2>1, <2>2, <2>3 DEF Goes
<1>5. OwnStep(R, F, G, H)
  <2>1. ASSUME NEW r, NEW off, Off(off)
        PROVE  OwnStep(R, Flat(cap, price, r, know), Flat(cap, price, r, "now"), off)
    <3> HIDE DEF R
    <3> QED BY <1>4, <2>1, Read1 DEF Flat
  <2> QED BY <1>4, <2>1
<1> HIDE DEF F, G, H, R
<1>6. Leads(Done, 1, G, <<Caught(WithdrawSeen)>>, H)
  BY <1>2, Single
<1>7. Leads(Done, 1 + 1, F, <<R>> \o <<Caught(WithdrawSeen)>>, H)
  <2>1. 0 \in Int /\ 1 < 90
    OBVIOUS
  <2> QED BY <1>4, <1>5, <1>6, <2>1, Skips DEF R
<1>8. Leads(Done, 1 + (1 + 1), Flat(cap, price, ready, know), <<Wait>> \o (<<R>> \o <<Caught(WithdrawSeen)>>), H)
  BY <1>1, <1>7, Single, Chain
<1>9. Leads(Done, (1 + (1 + 1)) + 1, Flat(cap, price, ready, know),
            (<<Wait>> \o (<<R>> \o <<Caught(WithdrawSeen)>>)) \o <<Caught(close)>>, Gone)
  <2>1. Leads(Done, 1, H, <<Caught(close)>>, Gone)
    BY <1>3, Single
  <2> QED BY <1>8, <2>1, Chain
<1>10. [Read EXCEPT !.catch = 2] = R
  BY DEF Read, Do, Step, R
<1>11. CleanupOf(unwind) = unwind \o ((<<Wait>> \o (<<R>> \o <<Caught(WithdrawSeen)>>)) \o <<Caught(close)>>)
  <2>1. <<Wait, R, Caught(WithdrawSeen), Caught(close)>>
          = (<<Wait>> \o (<<R>> \o <<Caught(WithdrawSeen)>>)) \o <<Caught(close)>>
    <3>1. Joins(Wait, R, Caught(WithdrawSeen), Caught(close))
      BY <1>4, TuplesJoin
    <3> QED BY <3>1 DEF Joins
  <2> QED BY <2>1, <1>10 DEF CleanupOf
<1>12. (1 + (1 + 1)) + 1 = 4
  OBVIOUS
<1> QED BY <1>9, <1>11, <1>12, Chain

LEMMA CleanupFlat ==
  ASSUME NEW cap, NEW price, NEW ready, NEW know, \A k \in cap : k \in Nat
  PROVE  Leads(Done, 0 + 4, Flat(cap, price, ready, know), Cleanup(0), Gone)
<1>1. Leads(Done, 0, Flat(cap, price, ready, know), <<>>, Flat(cap, price, ready, know))
  BY Nothing
<1>2. Leads(Done, 0 + 4, Flat(cap, price, ready, know), CleanupOf(<<>>), Gone)
  BY <1>1, CleanupLeads
<1> QED BY <1>2 DEF Cleanup

LEMMA CleanupHeld ==
  ASSUME NEW cap, \A k \in cap : k \in Nat, NEW x \in Int, x # 0, NEW p \in Prices, NEW ready, NEW know
  PROVE  /\ Leads(Done, 1 + 4, Held(cap, x, p, p, ready, know), Cleanup(x), Gone)
         /\ Leads(Done, 1 + 4, Held(cap, x, p, p, ready, "now"), CleanupSeen, Gone)
<1>1. Goes(Done, Caught(trade(-x)), Held(cap, x, p, p, ready, know), Flat(cap, {p}, ready, "no"))
  <2>1. \A n \in Int : n = -x =>
          Goes(Done, Caught(trade(n)), Held(cap, x, p, p, ready, know), Flat(cap, {p}, ready, "no"))
    BY HeldSteps
  <2>2. -x \in Int
    OBVIOUS
  <2> QED BY <2>1, <2>2
<1>2. Goes(Done, Try("Unwind", OWN, 0), Held(cap, x, p, p, ready, "now"), Flat(cap, {p}, ready, "no"))
  BY OffDone, Words, UnwindsGoes
<1>3. Leads(Done, 1 + 4, Held(cap, x, p, p, ready, know), CleanupOf(<<Caught(trade(-x))>>), Gone)
  BY <1>1, Single, CleanupLeads
<1>4. Leads(Done, 1 + 4, Held(cap, x, p, p, ready, "now"), CleanupOf(<<Try("Unwind", OWN, 0)>>), Gone)
  BY <1>2, Single, CleanupLeads
<1> QED BY <1>3, <1>4 DEF Cleanup, CleanupSeen

-----------------------------------------------------------------------------
(***************************************************************************)
(* test-comprehensive, test by test.                                       *)
(***************************************************************************)
LEMMA Amounts ==
  /\ (\A k \in {2} : k \in Nat) /\ (\A k \in {1} : k \in Nat) /\ (\A k \in Nat : k \in Nat)
  /\ (\A k \in Nat \ {0} : k \in Nat) /\ (\A k \in {2} : k \in Nat /\ k # 0) /\ (\A k \in Nat \ {0} : k \in Nat /\ k # 0)
  /\ SIZE = 1 /\ SIZE \in Int /\ SIZE # 0 /\ -SIZE \in Int /\ -SIZE # 0 /\ -SIZE = -SIZE
  /\ -2 * SIZE \in Int /\ -2 * SIZE = -2 * SIZE /\ -(-SIZE) = SIZE
  /\ Abs(SIZE) <= LEVERAGE * 2 /\ DEPOSIT = 2 /\ {2} = {DEPOSIT} /\ {SIZE} = {SIZE}
  /\ 2 \in Nat /\ 2 # 0 /\ 1 \in Nat /\ SIZE * (1 - 0) = 1
  /\ 0 \in Prices /\ 1 \in Prices /\ -1 \in Prices /\ -2 \in Prices
<1>1. /\ (\A k \in {2} : k \in Nat) /\ (\A k \in {1} : k \in Nat) /\ (\A k \in Nat : k \in Nat)
      /\ (\A k \in Nat \ {0} : k \in Nat)
  OBVIOUS
<1>2. (\A k \in {2} : k \in Nat /\ k # 0) /\ (\A k \in Nat \ {0} : k \in Nat /\ k # 0)
  OBVIOUS
<1>3. SIZE = 1
  BY DEF SIZE
<1>4. /\ SIZE \in Int /\ SIZE # 0 /\ -SIZE \in Int /\ -SIZE # 0 /\ -SIZE = -SIZE
      /\ -2 * SIZE \in Int /\ -2 * SIZE = -2 * SIZE /\ -(-SIZE) = SIZE /\ SIZE * (1 - 0) = 1
  <2>1. SIZE \in Int /\ SIZE # 0
    BY <1>3
  <2>2. -SIZE \in Int /\ -SIZE # 0
    BY <2>1
  <2>3. -2 * SIZE \in Int
    BY <2>1
  <2>4. -(-SIZE) = SIZE
    BY <2>1
  <2>5. SIZE * (1 - 0) = 1
    BY <1>3
  <2> QED BY <2>1, <2>2, <2>3, <2>4, <2>5
<1>5. Abs(SIZE) <= LEVERAGE * 2
  BY <1>3 DEF Abs, LEVERAGE
<1>6. DEPOSIT = 2 /\ {2} = {DEPOSIT} /\ {SIZE} = {SIZE} /\ 2 \in Nat /\ 2 # 0 /\ 1 \in Nat
  BY DEF DEPOSIT
<1>7. 0 \in Prices /\ 1 \in Prices /\ -1 \in Prices /\ -2 \in Prices
  BY PricesAre
<1> QED BY <1>1, <1>2, <1>3, <1>4, <1>5, <1>6, <1>7

(* A test that leads from the idle script to an account that is gone.      *)
LEMMA ServesBy ==
  ASSUME NEW n \in 0 .. 98, NEW w \in {Gone, Done}, NEW A, Leads(Done, n, Done, A, w)
  PROVE  Serves(A)
BY DEF Serves

LEMMA FullLifecycle ==
  Serves(testFullLifecycle)
<1>1. Leads(Done, 3 + 1, Done, Enter, Entered)
  BY EnterLeads
<1>2. Goes(Done, Look, Entered, Flat({2}, Prices, TRUE, "now"))
  BY Amounts, FlatSteps DEF Entered
<1>3. Goes(Done, If("NotFunded", RETURN), Flat({2}, Prices, TRUE, "now"), Flat({2}, Prices, TRUE, "now"))
  BY Amounts, OffDone, Words, NotFundedGoes DEF Flat
<1>4. Leads(Done, 2, Entered, <<Look, If("NotFunded", RETURN)>>, Flat({2}, Prices, TRUE, "now"))
  BY <1>2, <1>3, Two
<1>5. Leads(Done, 2, Flat({2}, Prices, TRUE, "now"), Fresh(0), Flat({2}, {0}, TRUE, "now"))
  BY Amounts, FreshLeads
<1>6. Goes(Done, trade(SIZE), Flat({2}, {0}, TRUE, "now"), Held({2}, SIZE, 0, 0, TRUE, "no"))
  BY Amounts, OpenSteps
<1>7. Goes(Done, Look, Held({2}, SIZE, 0, 0, TRUE, "no"), Held({2}, SIZE, 0, 0, TRUE, "now"))
  BY Amounts, HeldSteps
<1>8. Goes(Done, If("NotFilled", RETURN), Held({2}, SIZE, 0, 0, TRUE, "now"), Held({2}, SIZE, 0, 0, TRUE, "now"))
  BY Amounts, OffDone, Words, NotFilledGoes DEF Held
<1>9. Leads(Done, 3, Flat({2}, {0}, TRUE, "now"), <<trade(SIZE), Look, If("NotFilled", RETURN)>>, Held({2}, SIZE, 0, 0, TRUE, "now"))
  BY <1>6, <1>7, <1>8, Three
<1>10. Leads(Done, 2, Held({2}, SIZE, 0, 0, TRUE, "now"), Moved(1), Held({2}, SIZE, 1, 1, FALSE, "now"))
  BY Amounts, MovedGains
<1>11. Goes(Done, Read, Held({2}, SIZE, 1, 1, FALSE, "now"), Held({2}, SIZE, 1, 1, FALSE, "now"))
  BY Amounts, HeldSteps
<1>12. Goes(Done, trade(-SIZE), Held({2}, SIZE, 1, 1, FALSE, "now"), Flat({2}, {1}, FALSE, "no"))
  BY Amounts, HeldSteps
<1>13. Goes(Done, Look, Flat({2}, {1}, FALSE, "no"), Flat({2}, {1}, FALSE, "now"))
  BY Amounts, FlatSteps
<1>14. Goes(Done, Wait, Flat({2}, {1}, FALSE, "now"), Flat({2}, {1}, TRUE, "now"))
  BY Amounts, FlatSteps
<1>15. Goes(Done, Caught(withdraw(0)), Flat({2}, {1}, TRUE, "now"), Flat(Nat, {1}, TRUE, "no"))
  BY Amounts, FlatSteps
<1>16. Goes(Done, Look, Flat(Nat, {1}, TRUE, "no"), Flat(Nat, {1}, TRUE, "now"))
  BY Amounts, FlatSteps
<1>17. Goes(Done, WithdrawSeen, Flat(Nat, {1}, TRUE, "now"), Flat(Nat, {1}, TRUE, "no"))
  BY Amounts, FlatSteps
<1>18. Goes(Done, close, Flat(Nat, {1}, TRUE, "no"), Gone)
  BY Amounts, FlatSteps
<1>19. Goes(Done, Read, Gone, Gone)
  BY Amounts, GoneSteps, Views
<1>20. Leads(Done, 9, Held({2}, SIZE, 1, 1, FALSE, "now"), <<Read, trade(-SIZE), Look, Wait, Caught(withdraw(0)), Look, WithdrawSeen, close, Read>>, Gone)
  BY <1>11, <1>12, <1>13, <1>14, <1>15, <1>16, <1>17, <1>18, <1>19, Nine
<1>21. Leads(Done, (3 + 1) + 2, Done,
            Enter \o <<Look, If("NotFunded", RETURN)>>, Flat({2}, Prices, TRUE, "now"))
  BY <1>1, <1>4, Chain
<1>22. Leads(Done, ((3 + 1) + 2) + 2, Done,
            Enter \o <<Look, If("NotFunded", RETURN)>> \o Fresh(0), Flat({2}, {0}, TRUE, "now"))
  BY <1>21, <1>5, Chain
<1>23. Leads(Done, (((3 + 1) + 2) + 2) + 3, Done,
            Enter \o <<Look, If("NotFunded", RETURN)>> \o Fresh(0) \o <<trade(SIZE), Look, If("NotFilled", RETURN)>>, Held({2}, SIZE, 0, 0, TRUE, "now"))
  BY <1>22, <1>9, Chain
<1>24. Leads(Done, ((((3 + 1) + 2) + 2) + 3) + 2, Done,
            Enter \o <<Look, If("NotFunded", RETURN)>> \o Fresh(0) \o <<trade(SIZE), Look, If("NotFilled", RETURN)>> \o Moved(1), Held({2}, SIZE, 1, 1, FALSE, "now"))
  BY <1>23, <1>10, Chain
<1>25. Leads(Done, (((((3 + 1) + 2) + 2) + 3) + 2) + 9, Done,
            Enter \o <<Look, If("NotFunded", RETURN)>> \o Fresh(0) \o <<trade(SIZE), Look, If("NotFilled", RETURN)>> \o Moved(1) \o <<Read, trade(-SIZE), Look, Wait, Caught(withdraw(0)), Look, WithdrawSeen, close, Read>>, Gone)
  BY <1>24, <1>20, Chain
<1> DEFINE n == (((((3 + 1) + 2) + 2) + 3) + 2) + 9
<1>26. n \in 0 .. 98
  OBVIOUS
<1> HIDE DEF n
<1>27. Serves(Enter \o <<Look, If("NotFunded", RETURN)>> \o Fresh(0) \o <<trade(SIZE), Look, If("NotFilled", RETURN)>> \o Moved(1) \o <<Read, trade(-SIZE), Look, Wait, Caught(withdraw(0)), Look, WithdrawSeen, close, Read>>)
  BY <1>25, <1>26, ServesBy DEF n
<1> QED BY <1>27 DEF testFullLifecycle

LEMMA RoundTripFees ==
  Serves(testRoundTripFees)
<1>1. Leads(Done, 3 + 1, Done, Enter, Entered)
  BY EnterLeads
<1>2. Leads(Done, 2, Entered, Fresh(0), Flat({2}, {0}, TRUE, "no"))
  BY Amounts, FreshLeads DEF Entered
<1>3. Goes(Done, Read, Flat({2}, {0}, TRUE, "no"), Flat({2}, {0}, TRUE, "now"))
  BY Amounts, FlatSteps
<1>4. Goes(Done, trade(SIZE), Flat({2}, {0}, TRUE, "now"), Held({2}, SIZE, 0, 0, TRUE, "no"))
  BY Amounts, OpenSteps
<1>5. Goes(Done, Look, Held({2}, SIZE, 0, 0, TRUE, "no"), Held({2}, SIZE, 0, 0, TRUE, "now"))
  BY Amounts, HeldSteps
<1>6. Goes(Done, trade(-SIZE), Held({2}, SIZE, 0, 0, TRUE, "now"), Flat({2}, {0}, TRUE, "no"))
  BY Amounts, HeldSteps
<1>7. Goes(Done, Look, Flat({2}, {0}, TRUE, "no"), Flat({2}, {0}, TRUE, "now"))
  BY Amounts, FlatSteps
<1>8. Leads(Done, 5, Flat({2}, {0}, TRUE, "no"), <<Read, trade(SIZE), Look, trade(-SIZE), Look>>, Flat({2}, {0}, TRUE, "now"))
  BY <1>3, <1>4, <1>5, <1>6, <1>7, Five
<1>9. Leads(Done, 0 + 4, Flat({2}, {0}, TRUE, "now"), Cleanup(0), Gone)
  BY Amounts, CleanupFlat
<1>10. Leads(Done, (3 + 1) + 2, Done,
            Enter \o Fresh(0), Flat({2}, {0}, TRUE, "no"))
  BY <1>1, <1>2, Chain
<1>11. Leads(Done, ((3 + 1) + 2) + 5, Done,
            Enter \o Fresh(0) \o <<Read, trade(SIZE), Look, trade(-SIZE), Look>>, Flat({2}, {0}, TRUE, "now"))
  BY <1>10, <1>8, Chain
<1>12. Leads(Done, (((3 + 1) + 2) + 5) + (0 + 4), Done,
            Enter \o Fresh(0) \o <<Read, trade(SIZE), Look, trade(-SIZE), Look>> \o Cleanup(0), Gone)
  BY <1>11, <1>9, Chain
<1> DEFINE n == (((3 + 1) + 2) + 5) + (0 + 4)
<1>13. n \in 0 .. 98
  OBVIOUS
<1> HIDE DEF n
<1>14. Serves(Enter \o Fresh(0) \o <<Read, trade(SIZE), Look, trade(-SIZE), Look>> \o Cleanup(0))
  BY <1>12, <1>13, ServesBy DEF n
<1> QED BY <1>14 DEF testRoundTripFees

LEMMA PnlAccounting ==
  Serves(testPnlAccounting)
<1>1. Leads(Done, 3 + 1, Done, Enter, Entered)
  BY EnterLeads
<1>2. Leads(Done, 2, Entered, Fresh(0), Flat({2}, {0}, TRUE, "no"))
  BY Amounts, FreshLeads DEF Entered
<1>3. Goes(Done, trade(SIZE), Flat({2}, {0}, TRUE, "no"), Held({2}, SIZE, 0, 0, TRUE, "no"))
  BY Amounts, OpenSteps
<1>4. Goes(Done, Look, Held({2}, SIZE, 0, 0, TRUE, "no"), Held({2}, SIZE, 0, 0, TRUE, "now"))
  BY Amounts, HeldSteps
<1>5. Leads(Done, 2, Flat({2}, {0}, TRUE, "no"), <<trade(SIZE), Look>>, Held({2}, SIZE, 0, 0, TRUE, "now"))
  BY <1>3, <1>4, Two
<1>6. Leads(Done, 2, Held({2}, SIZE, 0, 0, TRUE, "now"), Moved(1), Held({2}, SIZE, 1, 1, FALSE, "now"))
  BY Amounts, MovedGains
<1>7. Goes(Done, Look, Held({2}, SIZE, 1, 1, FALSE, "now"), Held({2}, SIZE, 1, 1, FALSE, "now"))
  BY Amounts, HeldSteps
<1>8. Goes(Done, trade(-SIZE), Held({2}, SIZE, 1, 1, FALSE, "now"), Flat({2}, {1}, FALSE, "no"))
  BY Amounts, HeldSteps
<1>9. Goes(Done, Look, Flat({2}, {1}, FALSE, "no"), Flat({2}, {1}, FALSE, "now"))
  BY Amounts, FlatSteps
<1>10. Goes(Done, Wait, Flat({2}, {1}, FALSE, "now"), Flat({2}, {1}, TRUE, "now"))
  BY Amounts, FlatSteps
<1>11. Goes(Done, Caught(withdraw(0)), Flat({2}, {1}, TRUE, "now"), Flat(Nat, {1}, TRUE, "no"))
  BY Amounts, FlatSteps
<1>12. Goes(Done, Read, Flat(Nat, {1}, TRUE, "no"), Flat(Nat, {1}, TRUE, "now"))
  BY Amounts, FlatSteps
<1>13. Leads(Done, 6, Held({2}, SIZE, 1, 1, FALSE, "now"), <<Look, trade(-SIZE), Look, Wait, Caught(withdraw(0)), Read>>, Flat(Nat, {1}, TRUE, "now"))
  BY <1>7, <1>8, <1>9, <1>10, <1>11, <1>12, Six
<1>14. Leads(Done, 0 + 4, Flat(Nat, {1}, TRUE, "now"), Cleanup(0), Gone)
  BY Amounts, CleanupFlat
<1>15. Leads(Done, (3 + 1) + 2, Done,
            Enter \o Fresh(0), Flat({2}, {0}, TRUE, "no"))
  BY <1>1, <1>2, Chain
<1>16. Leads(Done, ((3 + 1) + 2) + 2, Done,
            Enter \o Fresh(0) \o <<trade(SIZE), Look>>, Held({2}, SIZE, 0, 0, TRUE, "now"))
  BY <1>15, <1>5, Chain
<1>17. Leads(Done, (((3 + 1) + 2) + 2) + 2, Done,
            Enter \o Fresh(0) \o <<trade(SIZE), Look>> \o Moved(1), Held({2}, SIZE, 1, 1, FALSE, "now"))
  BY <1>16, <1>6, Chain
<1>18. Leads(Done, ((((3 + 1) + 2) + 2) + 2) + 6, Done,
            Enter \o Fresh(0) \o <<trade(SIZE), Look>> \o Moved(1) \o <<Look, trade(-SIZE), Look, Wait, Caught(withdraw(0)), Read>>, Flat(Nat, {1}, TRUE, "now"))
  BY <1>17, <1>13, Chain
<1>19. Leads(Done, (((((3 + 1) + 2) + 2) + 2) + 6) + (0 + 4), Done,
            Enter \o Fresh(0) \o <<trade(SIZE), Look>> \o Moved(1) \o <<Look, trade(-SIZE), Look, Wait, Caught(withdraw(0)), Read>> \o Cleanup(0), Gone)
  BY <1>18, <1>14, Chain
<1> DEFINE n == (((((3 + 1) + 2) + 2) + 2) + 6) + (0 + 4)
<1>20. n \in 0 .. 98
  OBVIOUS
<1> HIDE DEF n
<1>21. Serves(Enter \o Fresh(0) \o <<trade(SIZE), Look>> \o Moved(1) \o <<Look, trade(-SIZE), Look, Wait, Caught(withdraw(0)), Read>> \o Cleanup(0))
  BY <1>19, <1>20, ServesBy DEF n
<1> QED BY <1>21 DEF testPnlAccounting

LEMMA WithdrawalMargin ==
  Serves(testWithdrawalMargin)
<1>1. Leads(Done, 3 + 1, Done, Enter, Entered)
  BY EnterLeads
<1>2. Leads(Done, 2, Entered, Fresh(0), Flat({2}, {0}, TRUE, "no"))
  BY Amounts, FreshLeads DEF Entered
<1>3. Goes(Done, trade(SIZE), Flat({2}, {0}, TRUE, "no"), Held({2}, SIZE, 0, 0, TRUE, "no"))
  BY Amounts, OpenSteps
<1>4. Goes(Done, Look, Held({2}, SIZE, 0, 0, TRUE, "no"), Held({2}, SIZE, 0, 0, TRUE, "now"))
  BY Amounts, HeldSteps
<1>5. Goes(Done, Caught(withdraw(DEPOSIT)), Held({2}, SIZE, 0, 0, TRUE, "now"), Held(Nat \ {0}, SIZE, 0, 0, TRUE, "no"))
  BY Amounts, Words, KeepsGoes
<1>6. Goes(Done, Caught(withdraw(0)), Held(Nat \ {0}, SIZE, 0, 0, TRUE, "no"), Held(Nat \ {0}, SIZE, 0, 0, TRUE, "no"))
  BY Amounts, Words, KeepsGoes
<1>7. Goes(Done, Read, Held(Nat \ {0}, SIZE, 0, 0, TRUE, "no"), Held(Nat \ {0}, SIZE, 0, 0, TRUE, "now"))
  BY Amounts, HeldSteps
<1>8. Leads(Done, 5, Flat({2}, {0}, TRUE, "no"), <<trade(SIZE), Look, Caught(withdraw(DEPOSIT)), Caught(withdraw(0)), Read>>, Held(Nat \ {0}, SIZE, 0, 0, TRUE, "now"))
  BY <1>3, <1>4, <1>5, <1>6, <1>7, Five
<1>9. Leads(Done, 1 + 4, Held(Nat \ {0}, SIZE, 0, 0, TRUE, "now"), Cleanup(SIZE), Gone)
  BY Amounts, CleanupHeld
<1>10. Leads(Done, (3 + 1) + 2, Done,
            Enter \o Fresh(0), Flat({2}, {0}, TRUE, "no"))
  BY <1>1, <1>2, Chain
<1>11. Leads(Done, ((3 + 1) + 2) + 5, Done,
            Enter \o Fresh(0) \o <<trade(SIZE), Look, Caught(withdraw(DEPOSIT)), Caught(withdraw(0)), Read>>, Held(Nat \ {0}, SIZE, 0, 0, TRUE, "now"))
  BY <1>10, <1>8, Chain
<1>12. Leads(Done, (((3 + 1) + 2) + 5) + (1 + 4), Done,
            Enter \o Fresh(0) \o <<trade(SIZE), Look, Caught(withdraw(DEPOSIT)), Caught(withdraw(0)), Read>> \o Cleanup(SIZE), Gone)
  BY <1>11, <1>9, Chain
<1> DEFINE n == (((3 + 1) + 2) + 5) + (1 + 4)
<1>13. n \in 0 .. 98
  OBVIOUS
<1> HIDE DEF n
<1>14. Serves(Enter \o Fresh(0) \o <<trade(SIZE), Look, Caught(withdraw(DEPOSIT)), Caught(withdraw(0)), Read>> \o Cleanup(SIZE))
  BY <1>12, <1>13, ServesBy DEF n
<1> QED BY <1>14 DEF testWithdrawalMargin

LEMMA InsuranceFund ==
  Serves(testInsuranceFund)
<1>1. Goes(Done, Read, Done, Done)
  BY Amounts, IdleSteps DEF Done
<1>2. Leads(Done, 1, Done, <<Read>>, Done)
  BY <1>1, Single
<1>3. Leads(Done, 3 + 1, Done, Enter, Entered)
  BY EnterLeads
<1>4. Leads(Done, 2, Entered, Fresh(0), Flat({2}, {0}, TRUE, "no"))
  BY Amounts, FreshLeads DEF Entered
<1>5. Goes(Done, trade(SIZE), Flat({2}, {0}, TRUE, "no"), Held({2}, SIZE, 0, 0, TRUE, "no"))
  BY Amounts, OpenSteps
<1>6. Goes(Done, trade(-SIZE), Held({2}, SIZE, 0, 0, TRUE, "no"), Flat({2}, {0}, TRUE, "no"))
  BY Amounts, HeldSteps
<1>7. Leads(Done, 2, Flat({2}, {0}, TRUE, "no"), <<trade(SIZE), trade(-SIZE)>>, Flat({2}, {0}, TRUE, "no"))
  BY <1>5, <1>6, Two
<1>8. Goes(Done, trade(SIZE), Flat({2}, {0}, TRUE, "no"), Held({2}, SIZE, 0, 0, TRUE, "no"))
  BY Amounts, OpenSteps
<1>9. Goes(Done, trade(-SIZE), Held({2}, SIZE, 0, 0, TRUE, "no"), Flat({2}, {0}, TRUE, "no"))
  BY Amounts, HeldSteps
<1>10. Leads(Done, 2, Flat({2}, {0}, TRUE, "no"), <<trade(SIZE), trade(-SIZE)>>, Flat({2}, {0}, TRUE, "no"))
  BY <1>8, <1>9, Two
<1>11. Goes(Done, trade(SIZE), Flat({2}, {0}, TRUE, "no"), Held({2}, SIZE, 0, 0, TRUE, "no"))
  BY Amounts, OpenSteps
<1>12. Goes(Done, trade(-SIZE), Held({2}, SIZE, 0, 0, TRUE, "no"), Flat({2}, {0}, TRUE, "no"))
  BY Amounts, HeldSteps
<1>13. Leads(Done, 2, Flat({2}, {0}, TRUE, "no"), <<trade(SIZE), trade(-SIZE)>>, Flat({2}, {0}, TRUE, "no"))
  BY <1>11, <1>12, Two
<1>14. Goes(Done, Read, Flat({2}, {0}, TRUE, "no"), Flat({2}, {0}, TRUE, "now"))
  BY Amounts, FlatSteps
<1>15. Leads(Done, 1, Flat({2}, {0}, TRUE, "no"), <<Read>>, Flat({2}, {0}, TRUE, "now"))
  BY <1>14, Single
<1>16. Leads(Done, 0 + 4, Flat({2}, {0}, TRUE, "now"), Cleanup(0), Gone)
  BY Amounts, CleanupFlat
<1>17. Leads(Done, (1) + (3 + 1), Done,
            <<Read>> \o Enter, Entered)
  BY <1>2, <1>3, Chain
<1>18. Leads(Done, ((1) + (3 + 1)) + 2, Done,
            <<Read>> \o Enter \o Fresh(0), Flat({2}, {0}, TRUE, "no"))
  BY <1>17, <1>4, Chain
<1>19. Leads(Done, (((1) + (3 + 1)) + 2) + 2, Done,
            <<Read>> \o Enter \o Fresh(0) \o <<trade(SIZE), trade(-SIZE)>>, Flat({2}, {0}, TRUE, "no"))
  BY <1>18, <1>7, Chain
<1>20. Leads(Done, ((((1) + (3 + 1)) + 2) + 2) + 2, Done,
            <<Read>> \o Enter \o Fresh(0) \o <<trade(SIZE), trade(-SIZE)>> \o <<trade(SIZE), trade(-SIZE)>>, Flat({2}, {0}, TRUE, "no"))
  BY <1>19, <1>10, Chain
<1>21. Leads(Done, (((((1) + (3 + 1)) + 2) + 2) + 2) + 2, Done,
            <<Read>> \o Enter \o Fresh(0) \o <<trade(SIZE), trade(-SIZE)>> \o <<trade(SIZE), trade(-SIZE)>> \o <<trade(SIZE), trade(-SIZE)>>, Flat({2}, {0}, TRUE, "no"))
  BY <1>20, <1>13, Chain
<1>22. Leads(Done, ((((((1) + (3 + 1)) + 2) + 2) + 2) + 2) + 1, Done,
            <<Read>> \o Enter \o Fresh(0) \o <<trade(SIZE), trade(-SIZE)>> \o <<trade(SIZE), trade(-SIZE)>> \o <<trade(SIZE), trade(-SIZE)>> \o <<Read>>, Flat({2}, {0}, TRUE, "now"))
  BY <1>21, <1>15, Chain
<1>23. Leads(Done, (((((((1) + (3 + 1)) + 2) + 2) + 2) + 2) + 1) + (0 + 4), Done,
            <<Read>> \o Enter \o Fresh(0) \o <<trade(SIZE), trade(-SIZE)>> \o <<trade(SIZE), trade(-SIZE)>> \o <<trade(SIZE), trade(-SIZE)>> \o <<Read>> \o Cleanup(0), Gone)
  BY <1>22, <1>16, Chain
<1> DEFINE n == (((((((1) + (3 + 1)) + 2) + 2) + 2) + 2) + 1) + (0 + 4)
<1>24. n \in 0 .. 98
  OBVIOUS
<1> HIDE DEF n
<1>25. Serves(<<Read>> \o Enter \o Fresh(0) \o <<trade(SIZE), trade(-SIZE)>> \o <<trade(SIZE), trade(-SIZE)>> \o <<trade(SIZE), trade(-SIZE)>> \o <<Read>> \o Cleanup(0))
  BY <1>23, <1>24, ServesBy DEF n
<1> QED BY <1>25 DEF testInsuranceFund

LEMMA LpEquity ==
  Serves(testLpEquity)
<1>1. Goes(Done, Read, Done, Done)
  BY Amounts, IdleSteps DEF Done
<1>2. Goes(Done, If("NoLp", RETURN), Done, Done)
  BY Amounts, IdleSteps
<1>3. Leads(Done, 2, Done, <<Read, If("NoLp", RETURN)>>, Done)
  BY <1>1, <1>2, Two
<1>4. Leads(Done, 3 + 1, Done, Enter, Entered)
  BY EnterLeads
<1>5. Leads(Done, 2, Entered, Fresh(0), Flat({2}, {0}, TRUE, "no"))
  BY Amounts, FreshLeads DEF Entered
<1>6. Goes(Done, trade(SIZE), Flat({2}, {0}, TRUE, "no"), Held({2}, SIZE, 0, 0, TRUE, "no"))
  BY Amounts, OpenSteps
<1>7. Goes(Done, Look, Held({2}, SIZE, 0, 0, TRUE, "no"), Held({2}, SIZE, 0, 0, TRUE, "now"))
  BY Amounts, HeldSteps
<1>8. Goes(Done, trade(-SIZE), Held({2}, SIZE, 0, 0, TRUE, "now"), Flat({2}, {0}, TRUE, "no"))
  BY Amounts, HeldSteps
<1>9. Goes(Done, Read, Flat({2}, {0}, TRUE, "no"), Flat({2}, {0}, TRUE, "now"))
  BY Amounts, FlatSteps
<1>10. Leads(Done, 4, Flat({2}, {0}, TRUE, "no"), <<trade(SIZE), Look, trade(-SIZE), Read>>, Flat({2}, {0}, TRUE, "now"))
  BY <1>6, <1>7, <1>8, <1>9, Four
<1>11. Leads(Done, 0 + 4, Flat({2}, {0}, TRUE, "now"), Cleanup(0), Gone)
  BY Amounts, CleanupFlat
<1>12. Leads(Done, (2) + (3 + 1), Done,
            <<Read, If("NoLp", RETURN)>> \o Enter, Entered)
  BY <1>3, <1>4, Chain
<1>13. Leads(Done, ((2) + (3 + 1)) + 2, Done,
            <<Read, If("NoLp", RETURN)>> \o Enter \o Fresh(0), Flat({2}, {0}, TRUE, "no"))
  BY <1>12, <1>5, Chain
<1>14. Leads(Done, (((2) + (3 + 1)) + 2) + 4, Done,
            <<Read, If("NoLp", RETURN)>> \o Enter \o Fresh(0) \o <<trade(SIZE), Look, trade(-SIZE), Read>>, Flat({2}, {0}, TRUE, "now"))
  BY <1>13, <1>10, Chain
<1>15. Leads(Done, ((((2) + (3 + 1)) + 2) + 4) + (0 + 4), Done,
            <<Read, If("NoLp", RETURN)>> \o Enter \o Fresh(0) \o <<trade(SIZE), Look, trade(-SIZE), Read>> \o Cleanup(0), Gone)
  BY <1>14, <1>11, Chain
<1> DEFINE n == ((((2) + (3 + 1)) + 2) + 4) + (0 + 4)
<1>16. n \in 0 .. 98
  OBVIOUS
<1> HIDE DEF n
<1>17. Serves(<<Read, If("NoLp", RETURN)>> \o Enter \o Fresh(0) \o <<trade(SIZE), Look, trade(-SIZE), Read>> \o Cleanup(0))
  BY <1>15, <1>16, ServesBy DEF n
<1> QED BY <1>17 DEF testLpEquity

LEMMA PositionFlip ==
  Serves(testPositionFlip)
<1>1. Leads(Done, 3 + 1, Done, Enter, Entered)
  BY EnterLeads
<1>2. Leads(Done, 2, Entered, Fresh(0), Flat({2}, {0}, TRUE, "no"))
  BY Amounts, FreshLeads DEF Entered
<1>3. Goes(Done, trade(SIZE), Flat({2}, {0}, TRUE, "no"), Held({2}, SIZE, 0, 0, TRUE, "no"))
  BY Amounts, OpenSteps
<1>4. Goes(Done, Look, Held({2}, SIZE, 0, 0, TRUE, "no"), Held({2}, SIZE, 0, 0, TRUE, "now"))
  BY Amounts, HeldSteps
<1>5. Goes(Done, trade(-2 * SIZE), Held({2}, SIZE, 0, 0, TRUE, "now"), Held({2}, -SIZE, 0, 0, TRUE, "no"))
  BY Amounts, OffDone, Words, FlipsGoes
<1>6. Goes(Done, Look, Held({2}, -SIZE, 0, 0, TRUE, "no"), Held({2}, -SIZE, 0, 0, TRUE, "now"))
  BY Amounts, HeldSteps
<1>7. Leads(Done, 4, Flat({2}, {0}, TRUE, "no"), <<trade(SIZE), Look, trade(-2 * SIZE), Look>>, Held({2}, -SIZE, 0, 0, TRUE, "now"))
  BY <1>3, <1>4, <1>5, <1>6, Four
<1>8. Leads(Done, 1 + 4, Held({2}, -SIZE, 0, 0, TRUE, "now"), CleanupSeen, Gone)
  BY Amounts, CleanupHeld
<1>9. Leads(Done, (3 + 1) + 2, Done,
            Enter \o Fresh(0), Flat({2}, {0}, TRUE, "no"))
  BY <1>1, <1>2, Chain
<1>10. Leads(Done, ((3 + 1) + 2) + 4, Done,
            Enter \o Fresh(0) \o <<trade(SIZE), Look, trade(-2 * SIZE), Look>>, Held({2}, -SIZE, 0, 0, TRUE, "now"))
  BY <1>9, <1>7, Chain
<1>11. Leads(Done, (((3 + 1) + 2) + 4) + (1 + 4), Done,
            Enter \o Fresh(0) \o <<trade(SIZE), Look, trade(-2 * SIZE), Look>> \o CleanupSeen, Gone)
  BY <1>10, <1>8, Chain
<1> DEFINE n == (((3 + 1) + 2) + 4) + (1 + 4)
<1>12. n \in 0 .. 98
  OBVIOUS
<1> HIDE DEF n
<1>13. Serves(Enter \o Fresh(0) \o <<trade(SIZE), Look, trade(-2 * SIZE), Look>> \o CleanupSeen)
  BY <1>11, <1>12, ServesBy DEF n
<1> QED BY <1>13 DEF testPositionFlip

LEMMA Assoc ==
  /\ \A A, B \in Seq(StepType) : A \o B \in Seq(StepType)
  /\ \A A, B, C \in Seq(StepType) : (A \o B) \o C = A \o (B \o C)
<1>1. ASSUME NEW A \in Seq(StepType), NEW B \in Seq(StepType) PROVE A \o B \in Seq(StepType)
  OBVIOUS
<1>2. ASSUME NEW A \in Seq(StepType), NEW B \in Seq(StepType), NEW C \in Seq(StepType)
      PROVE (A \o B) \o C = A \o (B \o C)
  BY ConcatAssociative
<1> QED BY <1>1, <1>2

(* Equal sequences, as facts about their parts.                            *)
Then(A, B) == A \o B
Nests(A, B, C, D) == ((A \o B) \o C) \o D = A \o (B \o (C \o D))
NestsSix(X, A, B, C, D, E) == ((((X \o A) \o B) \o C) \o D) \o E = X \o (A \o (B \o (C \o (D \o E))))
Regroups(X, s, t, u, C, D) == ((X \o <<s, t, u>>) \o C) \o D = (X \o <<s, t>>) \o (<<u>> \o (C \o D))
LEMMA Regroup ==
  ASSUME NEW X \in Seq(StepType), NEW C \in Seq(StepType), NEW D \in Seq(StepType),
         NEW s \in StepType, NEW t \in StepType, NEW u \in StepType
  PROVE  Regroups(X, s, t, u, C, D)
<1> DEFINE Y == <<s, t>>
           U == <<u>>
<1>1. Y \in Seq(StepType) /\ U \in Seq(StepType) /\ <<s, t, u>> = Y \o U
  <2>1. Y \in Seq(StepType) /\ U \in Seq(StepType)
    OBVIOUS
  <2>2. Joins(s, t, u, u)
    BY TuplesJoin
  <2> QED BY <2>1, <2>2 DEF Joins
<1> HIDE DEF Y, U
<1>2. X \o (Y \o U) = (X \o Y) \o U
  BY <1>1, Assoc, Zenon
<1>3. X \o Y \in Seq(StepType) /\ U \o C \in Seq(StepType) /\ C \o D \in Seq(StepType)
  BY <1>1, Assoc, Zenon
<1>4. ((X \o Y) \o U) \o C = (X \o Y) \o (U \o C)
  BY <1>1, <1>3, Assoc, Zenon
<1>5. ((X \o Y) \o (U \o C)) \o D = (X \o Y) \o ((U \o C) \o D)
  BY <1>3, Assoc, Zenon
<1>6. (U \o C) \o D = U \o (C \o D)
  BY <1>1, Assoc, Zenon
<1>7. ((X \o <<s, t, u>>) \o C) \o D = (X \o Y) \o (U \o (C \o D))
  BY <1>1, <1>2, <1>4, <1>5, <1>6
<1> QED BY <1>7 DEF Y, U, Regroups

LEMMA Nested ==
  ASSUME NEW X \in Seq(StepType), NEW A \in Seq(StepType), NEW B \in Seq(StepType), NEW C \in Seq(StepType),
         NEW D \in Seq(StepType), NEW E \in Seq(StepType)
  PROVE  NestsSix(X, A, B, C, D, E)
<1>1. /\ \A Y, Z \in Seq(StepType) : Then(Y, Z) \in Seq(StepType)
      /\ \A Y, Z, V \in Seq(StepType) : Then(Then(Y, Z), V) = Then(Y, Then(Z, V))
  BY Assoc, Zenon DEF Then
<1>2. /\ Then(X, A) \in Seq(StepType) /\ Then(Then(X, A), B) \in Seq(StepType) /\ Then(Then(Then(X, A), B), C) \in Seq(StepType)
      /\ Then(D, E) \in Seq(StepType) /\ Then(C, Then(D, E)) \in Seq(StepType) /\ Then(B, Then(C, Then(D, E))) \in Seq(StepType)
  BY <1>1
<1>3. Then(Then(Then(Then(Then(X, A), B), C), D), E) = Then(Then(Then(Then(X, A), B), C), Then(D, E))
  BY <1>1, <1>2
<1>4. Then(Then(Then(Then(X, A), B), C), Then(D, E)) = Then(Then(Then(X, A), B), Then(C, Then(D, E)))
  BY <1>1, <1>2
<1>5. Then(Then(Then(X, A), B), Then(C, Then(D, E))) = Then(Then(X, A), Then(B, Then(C, Then(D, E))))
  BY <1>1, <1>2
<1>6. Then(Then(X, A), Then(B, Then(C, Then(D, E)))) = Then(X, Then(A, Then(B, Then(C, Then(D, E)))))
  BY <1>1, <1>2
<1>7. Then(Then(Then(Then(Then(X, A), B), C), D), E) = Then(X, Then(A, Then(B, Then(C, Then(D, E)))))
  BY <1>3, <1>4, <1>5, <1>6
<1> QED BY <1>7, Zenon DEF Then, NestsSix

LEMMA NestedThree ==
  ASSUME NEW A \in Seq(StepType), NEW B \in Seq(StepType), NEW C \in Seq(StepType), NEW D \in Seq(StepType)
  PROVE  Nests(A, B, C, D)
<1>1. /\ \A Y, Z \in Seq(StepType) : Then(Y, Z) \in Seq(StepType)
      /\ \A Y, Z, V \in Seq(StepType) : Then(Then(Y, Z), V) = Then(Y, Then(Z, V))
  BY Assoc, Zenon DEF Then
<1>2. Then(A, B) \in Seq(StepType) /\ Then(C, D) \in Seq(StepType)
  BY <1>1
<1>3. Then(Then(Then(A, B), C), D) = Then(Then(A, B), Then(C, D))
  BY <1>1, <1>2
<1>4. Then(Then(A, B), Then(C, D)) = Then(A, Then(B, Then(C, D)))
  BY <1>1, <1>2
<1>5. Then(Then(Then(A, B), C), D) = Then(A, Then(B, Then(C, D)))
  BY <1>3, <1>4
<1> QED BY <1>5, Zenon DEF Then, Nests

LEMMA JoinedSteps ==
  ASSUME NEW a \in StepType, NEW b \in StepType, NEW c \in StepType
  PROVE  /\ <<a, b>> = <<a>> \o <<b>> /\ <<a, b, c>> = <<a>> \o (<<b>> \o <<c>>)
         /\ <<a, b, c>> = (<<a>> \o <<b>>) \o <<c>> /\ <<a, b, c>> = <<a, b>> \o <<c>>
         /\ \A A \in Seq(StepType) : <<a, b, c>> \o A = <<a>> \o (<<b>> \o (<<c>> \o A))
<1>1. <<a, b>> = <<a>> \o <<b>> /\ <<a, b, c>> = <<a, b>> \o <<c>> /\ <<a, b, c>> = <<a>> \o <<b, c>> /\ <<b, c>> = <<b>> \o <<c>>
  <2>1. Joins(a, b, c, c)
    BY TuplesJoin
  <2> QED BY <2>1, Zenon DEF Joins
<1>2. <<a>> \in Seq(StepType) /\ <<b>> \in Seq(StepType) /\ <<c>> \in Seq(StepType)
  OBVIOUS
<1>3. ASSUME NEW A \in Seq(StepType)
      PROVE  <<a, b, c>> \o A = <<a>> \o (<<b>> \o (<<c>> \o A))
  <2>1. ((<<a>> \o <<b>>) \o <<c>>) \o A = <<a>> \o (<<b>> \o (<<c>> \o A))
    <3>1. Nests(<<a>>, <<b>>, <<c>>, A)
      BY <1>2, NestedThree
    <3> QED BY <3>1, Zenon DEF Nests
  <2> QED BY <1>1, <2>1, Zenon
<1> QED BY <1>1, <1>3, Zenon

LEMMA IsSteps == ASSUME NEW e, NEW n, NEW v, NEW A, NEW x, Leads(e, n, v, A, x) PROVE A \in Seq(StepType)
BY DEF Leads

(* A test may be left, or not.                                             *)
LEMMA MayGo ==
  ASSUME NEW cap, NEW pos, NEW at, NEW price, NEW ready, NEW know, NEW op \in OwnTests, NEW c \in Int
  PROVE  OwnStep(Step(op, OWN, 0, c), Own(cap, pos, at, price, ready, know), Own(cap, pos, at, price, ready, know),
                 Own(cap, pos, at, price, ready, know))
<1> DEFINE s == Step(op, OWN, 0, c)
<1>1. s.op = op /\ s.slot = OWN
  BY StepIs, Numbers
<1> HIDE DEF s
<1>2. OwnStep(s, Own(cap, pos, at, price, ready, know), Own(cap, pos, at, price, ready, know),
              Own(cap, pos, at, price, ready, know))
  BY <1>1, MayJump1
<1> QED BY <1>2 DEF s

LEMMA MayEnd ==
  ASSUME NEW cap, NEW price, NEW ready, NEW know, NEW c \in Int
  PROVE  OwnStep(Step("CloseAccount", OWN, 0, c), Flat(cap, price, ready, know), Gone, Flat(cap, price, ready, know))
<1> DEFINE s == Step("CloseAccount", OWN, 0, c)
<1>1. s.op = "CloseAccount" /\ s.slot = OWN
  BY StepIs, Numbers
<1> HIDE DEF s
<1>2. OwnStep(s, Flat(cap, price, ready, know), Gone, Flat(cap, price, ready, know))
  BY <1>1, MayEnd1 DEF Flat
<1> QED BY <1>2 DEF s

(* A trade that is accepted, one that closes, and one that is refused.     *)
LEMMA MayOpen ==
  ASSUME NEW n \in Int, NEW k \in Nat, NEW p \in Prices, NEW ready, NEW know, NEW c \in Int, NEW off, Off(off),
         off = Flat({k}, {p}, ready, know)
  PROVE  /\ Abs(n) <= LEVERAGE * k =>
              OwnStep(Step("TradeCpi", OWN, n, c), Flat({k}, {p}, ready, know), Held({k}, n, p, p, ready, "no"), off)
         /\ Abs(n) > LEVERAGE * k => \A on : on.kind = "own" =>
              OwnStep(Step("TradeCpi", OWN, n, c), Flat({k}, {p}, ready, know), on, Flat({k}, {p}, ready, know))
<1> DEFINE s == Step("TradeCpi", OWN, n, c)
<1>1. s.op = "TradeCpi" /\ s.slot = OWN /\ s.n = n /\ s.n \in Int
  BY StepIs, Numbers
<1> HIDE DEF s
<1>2. ASSUME Abs(n) <= LEVERAGE * k
      PROVE  OwnStep(s, Flat({k}, {p}, ready, know), Held({k}, n, p, p, ready, "no"), off)
  <2>1. Abs(s.n) <= LEVERAGE * k
    BY <1>1, <1>2
  <2>2. OwnStep(s, Flat({k}, {p}, ready, know), Held({k}, s.n, p, p, ready, "no"), off)
    BY <1>1, <2>1, Opens1
  <2> QED BY <1>1, <2>2
<1>3. ASSUME Abs(n) > LEVERAGE * k, NEW on, on.kind = "own"
      PROVE  OwnStep(s, Flat({k}, {p}, ready, know), on, Flat({k}, {p}, ready, know))
  <2>1. Abs(s.n) > LEVERAGE * k
    BY <1>1, <1>3
  <2> QED BY <1>1, <1>3, <2>1, Refuses1
<1> QED BY <1>2, <1>3 DEF s

LEMMA MayClose ==
  ASSUME NEW x \in Int, NEW n \in Int, x # 0, n = -x, NEW cap, NEW p \in Prices, NEW ready, NEW know, NEW c \in Int, NEW off, Off(off)
  PROVE  OwnStep(Step("TradeCpi", OWN, n, c), Held(cap, x, p, p, ready, know), Flat(cap, {p}, ready, "no"), off)
<1> DEFINE s == Step("TradeCpi", OWN, n, c)
<1>1. s.op = "TradeCpi" /\ s.slot = OWN /\ s.n = -x
  BY StepIs, Numbers
<1> HIDE DEF s
<1>2. OwnStep(s, Held(cap, x, p, p, ready, know), Flat(cap, {p}, ready, "no"), off)
  BY <1>1, Closes1
<1> QED BY <1>2 DEF s

LEMMA MayRead ==
  ASSUME NEW cap, NEW price, NEW ready, NEW know, NEW c \in Int, NEW off, Off(off)
  PROVE  OwnStep(Step("Read", OWN, 0, c), Flat(cap, price, ready, know), Flat(cap, price, ready, "now"), off)
<1> DEFINE s == Step("Read", OWN, 0, c)
<1>1. s.op \in {"Read", "Look"} /\ s.slot = OWN
  BY StepIs, Numbers
<1> HIDE DEF s
<1>2. OwnStep(s, Flat(cap, price, ready, know), Flat(cap, price, ready, "now"), off)
  BY <1>1, Read1 DEF Flat
<1> QED BY <1>2 DEF s

LEMMA MayDraw ==
  ASSUME NEW n \in Nat, NEW cap, NEW price, NEW ready, NEW c \in Int, NEW off, Off(off),
         off = Flat(cap, price, ready, "now")
  PROVE  OwnStep(Step("WithdrawSeen", OWN, n, c), Flat(cap, price, ready, "now"), Flat(Nat, price, ready, "no"), off)
<1> DEFINE s == Step("WithdrawSeen", OWN, n, c)
<1>1. s.op = "WithdrawSeen" /\ s.slot = OWN /\ s.n \in Nat
  BY StepIs, Numbers
<1> HIDE DEF s
<1>2. OwnStep(s, Flat(cap, price, ready, "now"), Flat(Nat, price, ready, "no"), off)
  BY <1>1, Draws1
<1> QED BY <1>2 DEF s

LEMMA OpsKnown ==
  /\ {"Read", "TradeCpi", "CloseAccount", "WithdrawSeen", "Gain"} \subseteq OwnOps /\ "Gain" \in OwnTests
  /\ \A m \in Nat : m + 1 \in Int /\ m + 2 \in Int
BY DEF OwnOps, OwnSure, OwnTests

-----------------------------------------------------------------------------
(* What main does before the tests: the LP gets capital if it has none.    *)
LEMMA PreludeLeads ==
  \E n \in 0 .. 98 : Leads(Done, n, Idle(FALSE), comprehensive[1], Done)
<1> DEFINE I == Idle(FALSE)
           F == Step("LpFunded", OWN, 0, 2)
           D == Step("DepositCollateral", LP, 1, 0)
<1>1. /\ F \in StepType /\ F.op = "LpFunded" /\ F.catch = 1 + 1 /\ 1 + 1 # RETURN
      /\ D \in StepType /\ D.op = "DepositCollateral" /\ D.catch = 0 /\ D.slot = LP /\ D.n = 1
  <2>1. "LpFunded" \in OpNames /\ "DepositCollateral" \in OpNames /\ 0 \in Int /\ 1 \in Int /\ 2 \in Int
    BY DEF OpNames, Instructions, Tests
  <2>2. 1 + 1 # RETURN
    BY DEF RETURN
  <2> QED BY <2>1, <2>2, StepIs, Numbers
<1>2. If("LpFunded", 2) = F /\ Do("DepositCollateral", LP, 1) = D
  BY DEF If, Do
<1> HIDE DEF F, D
<1>3. I.kind = "idle" /\ I.mark = FALSE /\ Dead.kind = "dead"
  BY DEF Idle, Dead
<1>20. Goes(Done, Read, I, I) /\ Leads(Done, 2, I, Moved(0), Done)
  BY IdleSteps, MovedIdle
<1> HIDE DEF I
<1>4. Goes(Done, D, I, I)
  <2>1. IdleStep(D, I, I, Dead)
    BY <1>1, <1>3 DEF IdleStep
  <2> QED BY <1>1, <1>3, <2>1 DEF Goes, Sound, Tests
<1>5. Goes(Done, Read, I, I) /\ Read \in StepType
  BY <1>20 DEF Goes
<1>6. Sound(F, I, I, I)
  <2>1. IdleStep(F, I, I, I)
    BY <1>1, <1>3 DEF IdleStep
  <2> QED BY <1>1, <1>3, <2>1 DEF Sound, Tests
<1>7. Leads(Done, 2, I, Moved(0), Done)
  BY <1>20
<1>8. Leads(Done, 1 + 1, I, <<F>> \o <<D>>, I)
  BY <1>1, <1>4, <1>6, Single, Over
<1>9. Leads(Done, 1 + (1 + 1), I, <<Read>> \o (<<F>> \o <<D>>), I)
  BY <1>5, <1>8, Single, Chain
<1>10. <<Read, F, D>> = <<Read>> \o (<<F>> \o <<D>>)
  BY <1>1, <1>5, JoinedSteps, Zenon
<1>11. Leads(Done, 1 + (1 + 1), I, <<Read, F, D>>, I)
  BY <1>9, <1>10
<1>12. Leads(Done, (1 + (1 + 1)) + 2, I, <<Read, F, D>> \o Moved(0), Done)
  BY <1>7, <1>11, Chain
<1>13. Leads(Done, 1, Done, <<Read>>, Done)
  <2>1. Goes(Done, Read, Done, Done)
    BY IdleSteps DEF Done
  <2> QED BY <2>1, Single
<1>14. Leads(Done, ((1 + (1 + 1)) + 2) + 1, I, (<<Read, F, D>> \o Moved(0)) \o <<Read>>, Done)
  BY <1>12, <1>13, Chain
<1>15. comprehensive[1] = (<<Read, F, D>> \o Moved(0)) \o <<Read>>
  BY <1>2 DEF comprehensive
<1>16. ((1 + (1 + 1)) + 2) + 1 \in 0 .. 98
  OBVIOUS
<1> QED BY <1>14, <1>15, <1>16 DEF I

LEMMA OverLeverageRejection ==
  Serves(testOverLeverageRejection)
<1>1. Leads(Done, 3 + 1, Done, Enter, Entered)
  BY EnterLeads
<1>2. Leads(Done, 2, Entered, Fresh(0), Flat({2}, {0}, TRUE, "no"))
  BY Amounts, FreshLeads DEF Entered
<1>3. 5 \in Int /\ 2 \in Nat /\ Abs(5) > LEVERAGE * 2 /\ 5 # 0
  BY DEF Abs, LEVERAGE
<1>4. Leads(Done, 1 + 4, Held({2}, 5, 0, 0, TRUE, "no"), Cleanup(5), Gone)
  BY <1>3, Amounts, CleanupHeld
<1>5. Leads(Done, 0 + 4, Flat({2}, {0}, TRUE, "no"), Cleanup(0), Gone)
  BY Amounts, CleanupFlat
<1>6. OwnStep(Step("TradeCpi", OWN, 5, (1 + 4) + 2), Flat({2}, {0}, TRUE, "no"), Held({2}, 5, 0, 0, TRUE, "no"), Flat({2}, {0}, TRUE, "no"))
  <2>1. (1 + 4) + 2 \in Int
    OBVIOUS
  <2>2. Held({2}, 5, 0, 0, TRUE, "no").kind = "own" /\ Off(Gone)
    BY DEF Held, Own, Gone, Off
  <2> QED BY <2>1, <2>2, <1>3, Amounts, MayOpen
<1>7. Flat({2}, {0}, TRUE, "no").kind = "own" /\ Gone.kind = "own" /\ (1 + 4) + (0 + 4) < 90
  BY DEF Held, Flat, Own, Gone
<1>8. TryElse(trade(5), Cleanup(5), Cleanup(0)) = TryElse(Step("TradeCpi", OWN, 5, 0), Cleanup(5), Cleanup(0))
  BY Words
<1>9. Leads(Done, ((1 + 4) + (0 + 4)) + 2, Flat({2}, {0}, TRUE, "no"), TryElse(trade(5), Cleanup(5), Cleanup(0)), Gone)
  BY <1>3, <1>4, <1>5, <1>6, <1>7, <1>8, OpsKnown, Tried
<1>10. Leads(Done, (3 + 1) + 2, Done,
            Enter \o Fresh(0), Flat({2}, {0}, TRUE, "no"))
  BY <1>1, <1>2, Chain
<1>11. Leads(Done, ((3 + 1) + 2) + (((1 + 4) + (0 + 4)) + 2), Done,
            Enter \o Fresh(0) \o TryElse(trade(5), Cleanup(5), Cleanup(0)), Gone)
  BY <1>10, <1>9, Chain
<1> DEFINE n == ((3 + 1) + 2) + (((1 + 4) + (0 + 4)) + 2)
<1>12. n \in 0 .. 98
  OBVIOUS
<1> HIDE DEF n
<1>13. Serves(Enter \o Fresh(0) \o TryElse(trade(5), Cleanup(5), Cleanup(0)))
  BY <1>11, <1>12, ServesBy DEF n
<1> QED BY <1>13 DEF testOverLeverageRejection

LEMMA Liquidation ==
  Serves(testLiquidation)
<1>1. Leads(Done, 3 + 1, Done, Enter, Entered)
  BY EnterLeads
<1>2. Leads(Done, 2, Entered, Fresh(0), Flat({2}, {0}, TRUE, "no"))
  BY Amounts, FreshLeads DEF Entered
<1>3. 3 \in Int /\ 2 \in Nat /\ Abs(3) <= LEVERAGE * 2 /\ (0 + 4) + 1 \in Nat
  BY DEF Abs, LEVERAGE
<1>4. Leads(Done, 0, Held({2}, 3, 0, 0, TRUE, "no"), <<>>, Held({2}, 3, 0, 0, TRUE, "no"))
  BY Nothing
<1>5. Leads(Done, 0 + 4, Flat({2}, {0}, TRUE, "no"), Cleanup(0), Gone)
  BY Amounts, CleanupFlat
<1>6. Goes(Done, Go(RETURN), Gone, Held({2}, 3, 0, 0, TRUE, "no"))
  BY Views, GoneSteps
<1>7. Leads(Done, (0 + 4) + 1, Flat({2}, {0}, TRUE, "no"), Cleanup(0) \o <<Go(RETURN)>>, Held({2}, 3, 0, 0, TRUE, "no"))
  BY <1>5, <1>6, Single, Chain
<1>8. OwnStep(Step("TradeCpi", OWN, 3, 0 + 2), Flat({2}, {0}, TRUE, "no"), Held({2}, 3, 0, 0, TRUE, "no"), Flat({2}, {0}, TRUE, "no"))
  <2>1. 0 + 2 \in Int
    OBVIOUS
  <2>2. Off(Flat({2}, {0}, TRUE, "no"))
    BY DEF Flat, Own, Off
  <2> QED BY <2>1, <2>2, <1>3, Amounts, MayOpen
<1>9. Flat({2}, {0}, TRUE, "no").kind = "own" /\ Held({2}, 3, 0, 0, TRUE, "no").kind = "own" /\ 0 + ((0 + 4) + 1) < 90
  BY DEF Held, Flat, Own
<1>10. TryElse(trade(3), <<>>, Cleanup(0) \o <<Go(RETURN)>>) = TryElse(Step("TradeCpi", OWN, 3, 0), <<>>, Cleanup(0) \o <<Go(RETURN)>>)
  BY Words
<1>11. Leads(Done, (0 + ((0 + 4) + 1)) + 2, Flat({2}, {0}, TRUE, "no"), TryElse(trade(3), <<>>, Cleanup(0) \o <<Go(RETURN)>>), Held({2}, 3, 0, 0, TRUE, "no"))
  BY <1>3, <1>4, <1>7, <1>8, <1>9, <1>10, OpsKnown, Tried
<1>12. Goes(Done, Look, Held({2}, 3, 0, 0, TRUE, "no"), Held({2}, 3, 0, 0, TRUE, "now"))
  BY Amounts, <1>3, HeldSteps
<1>13. Leads(Done, 1, Held({2}, 3, 0, 0, TRUE, "no"), <<Look>>, Held({2}, 3, 0, 0, TRUE, "now"))
  BY <1>12, Single
<1>14. Leads(Done, 2, Held({2}, 3, 0, 0, TRUE, "now"), Moved(-2), Own({0}, {0, 3}, {-2}, {-2}, FALSE, "then"))
  BY MovedSinks
<1>15. Goes(Done, Read, Own({0}, {0, 3}, {-2}, {-2}, FALSE, "then"), Own({0}, {0, 3}, {-2}, {-2}, FALSE, "now"))
  BY Amounts, OffDone, Words, ReadGoes
<1>16. Goes(Done, If("Gone", RETURN), Own({0}, {0, 3}, {-2}, {-2}, FALSE, "now"), Own({0}, {0, 3}, {-2}, {-2}, FALSE, "now"))
  BY Amounts, OffDone, Words, StaysGoes
<1>17. Leads(Done, 2, Own({0}, {0, 3}, {-2}, {-2}, FALSE, "then"), <<Read, If("Gone", RETURN)>>, Own({0}, {0, 3}, {-2}, {-2}, FALSE, "now"))
  BY <1>15, <1>16, Two
<1>18. Leads(Done, 2, Own({0}, {0, 3}, {-2}, {-2}, FALSE, "now"), Moved(0), Own({0}, {0, 3}, {0}, {0}, FALSE, "then"))
  BY MovedRises
<1>19. Goes(Done, Try("Unwind", OWN, 0), Own({0}, {0, 3}, {0}, {0}, FALSE, "then"), Flat({0}, {0}, FALSE, "no"))
  BY Words, SalvagesGoes
<1>20. \A k \in {0} : k \in Nat
  OBVIOUS
<1>21. Leads(Done, 1 + 4, Own({0}, {0, 3}, {0}, {0}, FALSE, "then"), CleanupSeen, Gone)
  BY <1>19, <1>20, Single, CleanupLeads DEF CleanupSeen
<1>22. Leads(Done, (3 + 1) + 2, Done,
            Enter \o Fresh(0), Flat({2}, {0}, TRUE, "no"))
  BY <1>1, <1>2, Chain
<1>23. Leads(Done, ((3 + 1) + 2) + ((0 + ((0 + 4) + 1)) + 2), Done,
            Enter \o Fresh(0) \o TryElse(trade(3), <<>>, Cleanup(0) \o <<Go(RETURN)>>), Held({2}, 3, 0, 0, TRUE, "no"))
  BY <1>22, <1>11, Chain
<1>24. Leads(Done, (((3 + 1) + 2) + ((0 + ((0 + 4) + 1)) + 2)) + 1, Done,
            Enter \o Fresh(0) \o TryElse(trade(3), <<>>, Cleanup(0) \o <<Go(RETURN)>>) \o <<Look>>, Held({2}, 3, 0, 0, TRUE, "now"))
  BY <1>23, <1>13, Chain
<1>25. Leads(Done, ((((3 + 1) + 2) + ((0 + ((0 + 4) + 1)) + 2)) + 1) + 2, Done,
            Enter \o Fresh(0) \o TryElse(trade(3), <<>>, Cleanup(0) \o <<Go(RETURN)>>) \o <<Look>> \o Moved(-2), Own({0}, {0, 3}, {-2}, {-2}, FALSE, "then"))
  BY <1>24, <1>14, Chain
<1>26. Leads(Done, (((((3 + 1) + 2) + ((0 + ((0 + 4) + 1)) + 2)) + 1) + 2) + 2, Done,
            Enter \o Fresh(0) \o TryElse(trade(3), <<>>, Cleanup(0) \o <<Go(RETURN)>>) \o <<Look>> \o Moved(-2) \o <<Read, If("Gone", RETURN)>>, Own({0}, {0, 3}, {-2}, {-2}, FALSE, "now"))
  BY <1>25, <1>17, Chain
<1>27. Leads(Done, ((((((3 + 1) + 2) + ((0 + ((0 + 4) + 1)) + 2)) + 1) + 2) + 2) + 2, Done,
            Enter \o Fresh(0) \o TryElse(trade(3), <<>>, Cleanup(0) \o <<Go(RETURN)>>) \o <<Look>> \o Moved(-2) \o <<Read, If("Gone", RETURN)>> \o Moved(0), Own({0}, {0, 3}, {0}, {0}, FALSE, "then"))
  BY <1>26, <1>18, Chain
<1>28. Leads(Done, (((((((3 + 1) + 2) + ((0 + ((0 + 4) + 1)) + 2)) + 1) + 2) + 2) + 2) + (1 + 4), Done,
            Enter \o Fresh(0) \o TryElse(trade(3), <<>>, Cleanup(0) \o <<Go(RETURN)>>) \o <<Look>> \o Moved(-2) \o <<Read, If("Gone", RETURN)>> \o Moved(0) \o CleanupSeen, Gone)
  BY <1>27, <1>21, Chain
<1> DEFINE n == (((((((3 + 1) + 2) + ((0 + ((0 + 4) + 1)) + 2)) + 1) + 2) + 2) + 2) + (1 + 4)
<1>29. n \in 0 .. 98
  OBVIOUS
<1> HIDE DEF n
<1>30. Serves(Enter \o Fresh(0) \o TryElse(trade(3), <<>>, Cleanup(0) \o <<Go(RETURN)>>) \o <<Look>> \o Moved(-2) \o <<Read, If("Gone", RETURN)>> \o Moved(0) \o CleanupSeen)
  BY <1>28, <1>29, ServesBy DEF n
<1> QED BY <1>30 DEF testLiquidation

LEMMA WarmupEnforcement ==
  Serves(testWarmupEnforcement)
<1>1. Leads(Done, 3 + 1, Done, Enter, Entered)
  BY EnterLeads
<1>2. Leads(Done, 2, Entered, Fresh(0), Flat({2}, {0}, TRUE, "no"))
  BY Amounts, FreshLeads DEF Entered
<1>3. Goes(Done, trade(SIZE), Flat({2}, {0}, TRUE, "no"), Held({2}, SIZE, 0, 0, TRUE, "no"))
  BY Amounts, OpenSteps
<1>4. Leads(Done, 1, Flat({2}, {0}, TRUE, "no"), <<trade(SIZE)>>, Held({2}, SIZE, 0, 0, TRUE, "no"))
  BY <1>3, Single
<1>5. Leads(Done, 2, Held({2}, SIZE, 0, 0, TRUE, "no"), Moved(1), Held({2}, SIZE, 1, 1, FALSE, "no"))
  BY Amounts, MovedGains
<1>6. Goes(Done, trade(-SIZE), Held({2}, SIZE, 1, 1, FALSE, "no"), Flat({2}, {1}, FALSE, "no"))
  BY Amounts, HeldSteps
<1>7. Goes(Done, Look, Flat({2}, {1}, FALSE, "no"), Flat({2}, {1}, FALSE, "now"))
  BY Amounts, FlatSteps
<1>8. Leads(Done, 2, Held({2}, SIZE, 1, 1, FALSE, "no"), <<trade(-SIZE), Look>>, Flat({2}, {1}, FALSE, "now"))
  BY <1>6, <1>7, Two
<1>9. Leads(Done, 0 + 4, Flat({2}, {1}, FALSE, "now"), Cleanup(0), Gone)
  BY Amounts, CleanupFlat
<1>10. Goes(Done, Go(RETURN), Gone, Flat({2}, {1}, FALSE, "now"))
  BY Views, GoneSteps
<1>11. Leads(Done, (0 + 4) + 1, Flat({2}, {1}, FALSE, "now"), Cleanup(0) \o <<Go(RETURN)>>, Flat({2}, {1}, FALSE, "now"))
  BY <1>9, <1>10, Single, Chain
<1>12. OwnStep(Step("Gain", OWN, 0, ((0 + 4) + 1) + 1), Flat({2}, {1}, FALSE, "now"), Flat({2}, {1}, FALSE, "now"), Flat({2}, {1}, FALSE, "now"))
  <2>1. ((0 + 4) + 1) + 1 \in Int
    OBVIOUS
  <2> QED BY <2>1, OpsKnown, MayGo DEF Flat
<1>13. Flat({2}, {1}, FALSE, "now").kind = "own" /\ (0 + 4) + 1 < 90 /\ 0 \in Int
  BY DEF Flat, Own, Gone
<1>14. Leads(Done, ((0 + 4) + 1) + 1, Flat({2}, {1}, FALSE, "now"), (<<Step("Gain", OWN, 0, ((0 + 4) + 1) + 1)>> \o (Cleanup(0) \o <<Go(RETURN)>>)), Flat({2}, {1}, FALSE, "now"))
  BY <1>11, <1>12, <1>13, OpsKnown, Skips
<1> DEFINE J == <<Step("Gain", OWN, 0, ((0 + 4) + 1) + 1)>> \o (Cleanup(0) \o <<Go(RETURN)>>)
<1> HIDE DEF J
<1>15. Leads(Done, ((0 + 4) + 1) + 1, Flat({2}, {1}, FALSE, "now"), J, Flat({2}, {1}, FALSE, "now"))
  BY <1>14 DEF J
<1>16. Goes(Done, Go(RETURN), Gone, Flat({2}, {1}, TRUE, "now")) /\ Goes(Done, Wait, Flat({2}, {1}, FALSE, "now"), Flat({2}, {1}, TRUE, "now"))
  BY Views, Amounts, GoneSteps, FlatSteps
<1>17. Leads(Done, 1, Gone, <<Go(RETURN)>>, Flat({2}, {1}, TRUE, "now")) /\ Leads(Done, 1, Flat({2}, {1}, FALSE, "now"), <<Wait>>, Flat({2}, {1}, TRUE, "now"))
  BY <1>16, Single
<1>18. OwnStep(Step("CloseAccount", OWN, 0, 1 + 2), Flat({2}, {1}, FALSE, "now"), Gone, Flat({2}, {1}, FALSE, "now"))
  <2>1. 1 + 2 \in Int
    OBVIOUS
  <2> QED BY <2>1, MayEnd
<1>19. Flat({2}, {1}, FALSE, "now").kind = "own" /\ Flat({2}, {1}, TRUE, "now").kind = "own" /\ Gone.kind = "own" /\ 1 + 1 < 90 /\ 0 \in Int
  BY DEF Flat, Own, Gone
<1>20. TryElse(close, <<Go(RETURN)>>, <<Wait>>) = TryElse(Step("CloseAccount", OWN, 0, 0), <<Go(RETURN)>>, <<Wait>>)
  BY Words
<1>21. Leads(Done, (1 + 1) + 2, Flat({2}, {1}, FALSE, "now"), TryElse(close, <<Go(RETURN)>>, <<Wait>>), Flat({2}, {1}, TRUE, "now"))
  BY <1>17, <1>18, <1>19, <1>20, OpsKnown, Tried
<1>22. Goes(Done, Caught(withdraw(0)), Flat({2}, {1}, TRUE, "now"), Flat(Nat, {1}, TRUE, "no"))
  BY Amounts, FlatSteps
<1>23. Goes(Done, Caught(close), Flat(Nat, {1}, TRUE, "no"), Gone)
  BY Amounts, FlatSteps
<1>24. Leads(Done, 2, Flat({2}, {1}, TRUE, "now"), <<Caught(withdraw(0)), Caught(close)>>, Gone) /\ Leads(Done, 0, Gone, <<>>, Gone)
  BY <1>22, <1>23, Two, Nothing
<1>25. OwnStep(Step("CloseAccount", OWN, 0, 0 + 2), Flat({2}, {1}, TRUE, "now"), Gone, Flat({2}, {1}, TRUE, "now"))
  <2>1. 0 + 2 \in Int
    OBVIOUS
  <2> QED BY <2>1, MayEnd
<1>26. 0 + 2 < 90
  OBVIOUS
<1>27. TryElse(close, <<>>, <<Caught(withdraw(0)), Caught(close)>>) = TryElse(Step("CloseAccount", OWN, 0, 0), <<>>, <<Caught(withdraw(0)), Caught(close)>>)
  BY Words
<1>28. Leads(Done, (0 + 2) + 2, Flat({2}, {1}, TRUE, "now"), TryElse(close, <<>>, <<Caught(withdraw(0)), Caught(close)>>), Gone)
  BY <1>19, <1>24, <1>25, <1>26, <1>27, OpsKnown, Tried
<1>29. Goes(Done, Read, Gone, Gone)
  BY Amounts, GoneSteps, Views
<1>30. Leads(Done, 1, Gone, <<Read>>, Gone)
  BY <1>29, Single
<1>31. Leads(Done, (3 + 1) + 2, Done,
            Enter \o Fresh(0), Flat({2}, {0}, TRUE, "no"))
  BY <1>1, <1>2, Chain
<1>32. Leads(Done, ((3 + 1) + 2) + 1, Done,
            Enter \o Fresh(0) \o <<trade(SIZE)>>, Held({2}, SIZE, 0, 0, TRUE, "no"))
  BY <1>31, <1>4, Chain
<1>33. Leads(Done, (((3 + 1) + 2) + 1) + 2, Done,
            Enter \o Fresh(0) \o <<trade(SIZE)>> \o Moved(1), Held({2}, SIZE, 1, 1, FALSE, "no"))
  BY <1>32, <1>5, Chain
<1>34. Leads(Done, ((((3 + 1) + 2) + 1) + 2) + 2, Done,
            Enter \o Fresh(0) \o <<trade(SIZE)>> \o Moved(1) \o <<trade(-SIZE), Look>>, Flat({2}, {1}, FALSE, "now"))
  BY <1>33, <1>8, Chain
<1>35. Leads(Done, (((((3 + 1) + 2) + 1) + 2) + 2) + (((0 + 4) + 1) + 1), Done,
            Enter \o Fresh(0) \o <<trade(SIZE)>> \o Moved(1) \o <<trade(-SIZE), Look>> \o J, Flat({2}, {1}, FALSE, "now"))
  BY <1>34, <1>15, Chain
<1>36. Leads(Done, ((((((3 + 1) + 2) + 1) + 2) + 2) + (((0 + 4) + 1) + 1)) + ((1 + 1) + 2), Done,
            Enter \o Fresh(0) \o <<trade(SIZE)>> \o Moved(1) \o <<trade(-SIZE), Look>> \o J \o TryElse(close, <<Go(RETURN)>>, <<Wait>>), Flat({2}, {1}, TRUE, "now"))
  BY <1>35, <1>21, Chain
<1>37. Leads(Done, (((((((3 + 1) + 2) + 1) + 2) + 2) + (((0 + 4) + 1) + 1)) + ((1 + 1) + 2)) + ((0 + 2) + 2), Done,
            Enter \o Fresh(0) \o <<trade(SIZE)>> \o Moved(1) \o <<trade(-SIZE), Look>> \o J \o TryElse(close, <<Go(RETURN)>>, <<Wait>>) \o TryElse(close, <<>>, <<Caught(withdraw(0)), Caught(close)>>), Gone)
  BY <1>36, <1>28, Chain
<1>38. Leads(Done, ((((((((3 + 1) + 2) + 1) + 2) + 2) + (((0 + 4) + 1) + 1)) + ((1 + 1) + 2)) + ((0 + 2) + 2)) + 1, Done,
            Enter \o Fresh(0) \o <<trade(SIZE)>> \o Moved(1) \o <<trade(-SIZE), Look>> \o J \o TryElse(close, <<Go(RETURN)>>, <<Wait>>) \o TryElse(close, <<>>, <<Caught(withdraw(0)), Caught(close)>>) \o <<Read>>, Gone)
  BY <1>37, <1>30, Chain
<1> DEFINE n == ((((((((3 + 1) + 2) + 1) + 2) + 2) + (((0 + 4) + 1) + 1)) + ((1 + 1) + 2)) + ((0 + 2) + 2)) + 1
           X == ((Enter \o Fresh(0)) \o <<trade(SIZE)>>) \o Moved(1)
           C == Cleanup(0)
           g == Step("Gain", OWN, 0, ((0 + 4) + 1) + 1)
           D == <<Go(RETURN)>>
<1>50. n \in 0 .. 98
  OBVIOUS
<1>51. X \in Seq(StepType) /\ C \in Seq(StepType) /\ D \in Seq(StepType)
  BY <1>33, <1>9, <1>10, Single, IsSteps
<1>52. trade(-SIZE) \in StepType /\ Look \in StepType /\ g \in StepType
  <2>1. ((0 + 4) + 1) + 1 \in Int /\ "Gain" \in OpNames
    BY DEF OpNames, Tests
  <2>2. g \in StepType
    BY <2>1, StepIs, Numbers
  <2>3. trade(-SIZE) \in StepType /\ Look \in StepType
    BY <1>6, <1>7 DEF Goes
  <2> QED BY <2>2, <2>3
<1>53. If("Gain", 6) = g
  BY DEF If
<1> HIDE DEF X, C, g, D, n
<1>54. ((X \o <<trade(-SIZE), Look, g>>) \o C) \o D = (X \o <<trade(-SIZE), Look>>) \o (<<g>> \o (C \o D))
  <2>1. Regroups(X, trade(-SIZE), Look, g, C, D)
    BY <1>51, <1>52, Regroup
  <2> QED BY <2>1, Zenon DEF Regroups
<1>55. Leads(Done, n, Done,
             ((((((X \o <<trade(-SIZE), Look>>) \o (<<g>> \o (C \o D)))) \o TryElse(close, <<Go(RETURN)>>, <<Wait>>)) \o TryElse(close, <<>>, <<Caught(withdraw(0)), Caught(close)>>)) \o <<Read>>), Gone)
  BY <1>38 DEF n, X, C, g, D, J
<1>56. Leads(Done, n, Done,
             (((((X \o <<trade(-SIZE), Look, g>>) \o C) \o D) \o TryElse(close, <<Go(RETURN)>>, <<Wait>>)) \o TryElse(close, <<>>, <<Caught(withdraw(0)), Caught(close)>>)) \o <<Read>>, Gone)
  BY <1>54, <1>55
<1>57. testWarmupEnforcement =
         (((((X \o <<trade(-SIZE), Look, g>>) \o C) \o D) \o TryElse(close, <<Go(RETURN)>>, <<Wait>>)) \o TryElse(close, <<>>, <<Caught(withdraw(0)), Caught(close)>>)) \o <<Read>>
  BY <1>53, Zenon DEF testWarmupEnforcement, X, C, D
<1> QED BY <1>50, <1>56, <1>57, ServesBy

(* Cycles of trades: the first that is refused leads behind the last.      *)
TradeCycle(left) == <<[trade(SIZE) EXCEPT !.catch = 3 * left], [trade(-SIZE) EXCEPT !.catch = 3 * left - 1],
                      [Read EXCEPT !.catch = 3 * left - 2]>>
Between == Flat({2}, {0}, TRUE, "now")

LEMMA CycleLeads ==
  ASSUME NEW left \in 1 .. 9, NEW n, n = 3 * left - 3, NEW rest, Leads(Done, n, Between, rest, Between)
  PROVE  Leads(Done, n + 1 + 1 + 1, Between, TradeCycle(left) \o rest, Between)
<1> DEFINE a == Step("TradeCpi", OWN, SIZE, n + 1 + 1 + 1)
           b == Step("TradeCpi", OWN, -SIZE, n + 1 + 1)
           c == Step("Read", OWN, 0, n + 1)
           H == Held({2}, SIZE, 0, 0, TRUE, "no")
           G == Flat({2}, {0}, TRUE, "no")
<1>1. n \in Nat /\ n < 80 /\ n + 1 \in Int /\ n + 1 + 1 \in Int /\ n + 1 + 1 + 1 \in Int
  OBVIOUS
<1>2. Between.kind = "own" /\ H.kind = "own" /\ G.kind = "own" /\ Off(Between)
  BY Views DEF Between
<1>3. OwnStep(c, G, Between, Between)
  BY <1>1, <1>2, MayRead DEF Between
<1>4. OwnStep(b, H, G, Between)
  BY <1>1, <1>2, Amounts, MayClose
<1>5. OwnStep(a, Between, H, Between)
  BY <1>1, <1>2, Amounts, MayOpen DEF Between
<1>6. TradeCycle(left) = <<a, b, c>>
  <2>1. 3 * left = n + 1 + 1 + 1 /\ 3 * left - 1 = n + 1 + 1 /\ 3 * left - 2 = n + 1
    OBVIOUS
  <2>2. /\ [trade(SIZE) EXCEPT !.catch = n + 1 + 1 + 1] = a /\ [trade(-SIZE) EXCEPT !.catch = n + 1 + 1] = b
        /\ [Read EXCEPT !.catch = n + 1] = c
    BY DEF trade, Read, Do, Step
  <2> QED BY <2>1, <2>2 DEF TradeCycle
<1>7. a \in StepType /\ b \in StepType /\ c \in StepType
  <2>1. "TradeCpi" \in OpNames /\ "Read" \in OpNames /\ 0 \in Int
    BY DEF OpNames, Instructions, Reads
  <2> QED BY <1>1, <2>1, Amounts, StepIs, Numbers
<1> HIDE DEF H, G
<1>8. Leads(Done, n + 1, G, <<c>> \o rest, Between)
  <2>1. 0 \in Int /\ n < 90
    BY <1>1
  <2> QED BY <1>2, <1>3, <2>1, OpsKnown, Skips
<1>9. Leads(Done, (n + 1) + 1, H, <<b>> \o (<<c>> \o rest), Between)
  <2>1. n + 1 < 90
    BY <1>1
  <2> HIDE DEF c
  <2> QED BY <1>2, <1>4, <1>8, <2>1, Amounts, OpsKnown, Skips
<1>10. Leads(Done, ((n + 1) + 1) + 1, Between, <<a>> \o (<<b>> \o (<<c>> \o rest)), Between)
  <2>1. (n + 1) + 1 < 90
    BY <1>1
  <2> HIDE DEF b, c
  <2> QED BY <1>2, <1>5, <1>9, <2>1, Amounts, OpsKnown, Skips
<1> HIDE DEF a, b, c
<1>11. <<a, b, c>> \o rest = <<a>> \o (<<b>> \o (<<c>> \o rest))
  <2>1. rest \in Seq(StepType)
    BY IsSteps
  <2> QED BY <1>7, <2>1, JoinedSteps, Zenon
<1> QED BY <1>6, <1>10, <1>11

LEMMA CycleType == \A left \in Int : TradeCycle(left) \in Seq(StepType)
<1> SUFFICES ASSUME NEW left \in Int PROVE TradeCycle(left) \in Seq(StepType)
  OBVIOUS
<1>1. 3 * left \in Int /\ 3 * left - 1 \in Int /\ 3 * left - 2 \in Int /\ "TradeCpi" \in OpNames /\ "Read" \in OpNames
  BY DEF OpNames, Instructions, Reads
<1>2. /\ [trade(SIZE) EXCEPT !.catch = 3 * left] = Step("TradeCpi", OWN, SIZE, 3 * left)
      /\ [trade(-SIZE) EXCEPT !.catch = 3 * left - 1] = Step("TradeCpi", OWN, -SIZE, 3 * left - 1)
      /\ [Read EXCEPT !.catch = 3 * left - 2] = Step("Read", OWN, 0, 3 * left - 2)
  BY DEF trade, Read, Do, Step
<1>3. /\ Step("TradeCpi", OWN, SIZE, 3 * left) \in StepType /\ Step("TradeCpi", OWN, -SIZE, 3 * left - 1) \in StepType
      /\ Step("Read", OWN, 0, 3 * left - 2) \in StepType
  BY <1>1, Amounts, StepIs, Numbers
<1> QED BY <1>2, <1>3 DEF TradeCycle

LEMMA SequentialTrades ==
  Serves(testSequentialTrades)
<1>1. Leads(Done, 3 + 1, Done, Enter, Entered)
  BY EnterLeads
<1>2. Leads(Done, 2, Entered, Fresh(0), Flat({2}, {0}, TRUE, "no"))
  BY Amounts, FreshLeads DEF Entered
<1>3. Goes(Done, Look, Flat({2}, {0}, TRUE, "no"), Flat({2}, {0}, TRUE, "now"))
  BY Amounts, FlatSteps
<1>4. Leads(Done, 1, Flat({2}, {0}, TRUE, "no"), <<Look>>, Flat({2}, {0}, TRUE, "now"))
  BY <1>3, Single
<1>5. Leads(Done, 0, Between, <<>>, Between)
  BY Nothing
<1>6. 1 \in 1 .. 9 /\ 0 = 3 * 1 - 3
  OBVIOUS
<1>7. Leads(Done, 0 + 1 + 1 + 1, Between, TradeCycle(1) \o <<>>, Between)
  BY <1>6, <1>5, CycleLeads
<1>8. 2 \in 1 .. 9 /\ 0 + 1 + 1 + 1 = 3 * 2 - 3
  OBVIOUS
<1>9. Leads(Done, 0 + 1 + 1 + 1 + 1 + 1 + 1, Between, TradeCycle(2) \o (TradeCycle(1) \o <<>>), Between)
  BY <1>8, <1>7, CycleLeads
<1>10. 3 \in 1 .. 9 /\ 0 + 1 + 1 + 1 + 1 + 1 + 1 = 3 * 3 - 3
  OBVIOUS
<1>11. Leads(Done, 0 + 1 + 1 + 1 + 1 + 1 + 1 + 1 + 1 + 1, Between, TradeCycle(3) \o (TradeCycle(2) \o (TradeCycle(1) \o <<>>)), Between)
  BY <1>10, <1>9, CycleLeads
<1>12. 4 \in 1 .. 9 /\ 0 + 1 + 1 + 1 + 1 + 1 + 1 + 1 + 1 + 1 = 3 * 4 - 3
  OBVIOUS
<1>13. Leads(Done, 0 + 1 + 1 + 1 + 1 + 1 + 1 + 1 + 1 + 1 + 1 + 1 + 1, Between, TradeCycle(4) \o (TradeCycle(3) \o (TradeCycle(2) \o (TradeCycle(1) \o <<>>))), Between)
  BY <1>12, <1>11, CycleLeads
<1>14. 5 \in 1 .. 9 /\ 0 + 1 + 1 + 1 + 1 + 1 + 1 + 1 + 1 + 1 + 1 + 1 + 1 = 3 * 5 - 3
  OBVIOUS
<1>15. Leads(Done, 0 + 1 + 1 + 1 + 1 + 1 + 1 + 1 + 1 + 1 + 1 + 1 + 1 + 1 + 1 + 1, Between, TradeCycle(5) \o (TradeCycle(4) \o (TradeCycle(3) \o (TradeCycle(2) \o (TradeCycle(1) \o <<>>)))), Between)
  BY <1>14, <1>13, CycleLeads
<1>16. TradeCycle(5) \o (TradeCycle(4) \o (TradeCycle(3) \o (TradeCycle(2) \o (TradeCycle(1) \o <<>>)))) = TradeCycle(5) \o (TradeCycle(4) \o (TradeCycle(3) \o (TradeCycle(2) \o TradeCycle(1))))
  <2>1. TradeCycle(1) \in Seq(StepType)
    BY CycleType
  <2> QED BY <2>1, ConcatEmptySeq, Zenon
<1>17. Leads(Done, 0 + 1 + 1 + 1 + 1 + 1 + 1 + 1 + 1 + 1 + 1 + 1 + 1 + 1 + 1 + 1, Flat({2}, {0}, TRUE, "now"), TradeCycle(5) \o (TradeCycle(4) \o (TradeCycle(3) \o (TradeCycle(2) \o TradeCycle(1)))), Flat({2}, {0}, TRUE, "now"))
  BY <1>15, <1>16 DEF Between
<1>18. Goes(Done, Look, Flat({2}, {0}, TRUE, "now"), Flat({2}, {0}, TRUE, "now"))
  BY Amounts, FlatSteps
<1>19. Leads(Done, 1, Flat({2}, {0}, TRUE, "now"), <<Look>>, Flat({2}, {0}, TRUE, "now"))
  BY <1>18, Single
<1>20. Leads(Done, 0 + 4, Flat({2}, {0}, TRUE, "now"), Cleanup(0), Gone)
  BY Amounts, CleanupFlat
<1>21. Leads(Done, (3 + 1) + 2, Done,
            Enter \o Fresh(0), Flat({2}, {0}, TRUE, "no"))
  BY <1>1, <1>2, Chain
<1>22. Leads(Done, ((3 + 1) + 2) + 1, Done,
            Enter \o Fresh(0) \o <<Look>>, Flat({2}, {0}, TRUE, "now"))
  BY <1>21, <1>4, Chain
<1>23. Leads(Done, (((3 + 1) + 2) + 1) + (0 + 1 + 1 + 1 + 1 + 1 + 1 + 1 + 1 + 1 + 1 + 1 + 1 + 1 + 1 + 1), Done,
            Enter \o Fresh(0) \o <<Look>> \o (TradeCycle(5) \o (TradeCycle(4) \o (TradeCycle(3) \o (TradeCycle(2) \o TradeCycle(1))))), Flat({2}, {0}, TRUE, "now"))
  BY <1>22, <1>17, Chain
<1>24. Leads(Done, ((((3 + 1) + 2) + 1) + (0 + 1 + 1 + 1 + 1 + 1 + 1 + 1 + 1 + 1 + 1 + 1 + 1 + 1 + 1 + 1)) + 1, Done,
            Enter \o Fresh(0) \o <<Look>> \o (TradeCycle(5) \o (TradeCycle(4) \o (TradeCycle(3) \o (TradeCycle(2) \o TradeCycle(1))))) \o <<Look>>, Flat({2}, {0}, TRUE, "now"))
  BY <1>23, <1>19, Chain
<1>25. Leads(Done, (((((3 + 1) + 2) + 1) + (0 + 1 + 1 + 1 + 1 + 1 + 1 + 1 + 1 + 1 + 1 + 1 + 1 + 1 + 1 + 1)) + 1) + (0 + 4), Done,
            Enter \o Fresh(0) \o <<Look>> \o (TradeCycle(5) \o (TradeCycle(4) \o (TradeCycle(3) \o (TradeCycle(2) \o TradeCycle(1))))) \o <<Look>> \o Cleanup(0), Gone)
  BY <1>24, <1>20, Chain
<1> DEFINE n == (((((3 + 1) + 2) + 1) + (0 + 1 + 1 + 1 + 1 + 1 + 1 + 1 + 1 + 1 + 1 + 1 + 1 + 1 + 1 + 1)) + 1) + (0 + 4)
           X == (Enter \o Fresh(0)) \o <<Look>>
           A == TradeCycle(5)
           B == TradeCycle(4)
           C == TradeCycle(3)
           D == TradeCycle(2)
           E == TradeCycle(1)
<1>70. n \in 0 .. 98
  OBVIOUS
<1>71. X \in Seq(StepType) /\ A \in Seq(StepType) /\ B \in Seq(StepType) /\ C \in Seq(StepType) /\ D \in Seq(StepType) /\ E \in Seq(StepType)
  <2>1. 1 \in Int /\ 2 \in Int /\ 3 \in Int /\ 4 \in Int /\ 5 \in Int
    OBVIOUS
  <2> QED BY <2>1, <1>22, IsSteps, CycleType, Zenon
<1> HIDE DEF n, X, A, B, C, D, E
<1>72. ((((X \o A) \o B) \o C) \o D) \o E = X \o (A \o (B \o (C \o (D \o E))))
  <2>1. NestsSix(X, A, B, C, D, E)
    BY <1>71, Nested
  <2> QED BY <2>1, Zenon DEF NestsSix
<1>73. Leads(Done, n, Done, ((X \o (A \o (B \o (C \o (D \o E))))) \o <<Look>>) \o Cleanup(0), Gone)
  BY <1>25 DEF n, X, A, B, C, D, E
<1>74. Leads(Done, n, Done, ((((((X \o A) \o B) \o C) \o D) \o E) \o <<Look>>) \o Cleanup(0), Gone)
  BY <1>72, <1>73
<1>75. testSequentialTrades = ((((((X \o A) \o B) \o C) \o D) \o E) \o <<Look>>) \o Cleanup(0)
  BY Zenon DEF testSequentialTrades, TradeCycle, X, A, B, C, D, E
<1> QED BY <1>70, <1>74, <1>75, ServesBy

-----------------------------------------------------------------------------
(***************************************************************************)
(* test-happy-path, scenario by scenario.  What is done when an            *)
(* instruction is refused that is not refused counts from Gone.            *)
(***************************************************************************)
LEMMA WithdrawAllLeads ==
  ASSUME NEW cap, NEW price, NEW ready
  PROVE  Leads(Done, (0 + 1) + 2, Flat(cap, price, ready, "now"), WithdrawAll, Flat(Nat, price, ready, "no"))
<1> DEFINE V == Flat(cap, price, ready, "now")
           W == Flat(Nat, price, ready, "no")
           m == Step("WithdrawSeen", OWN, 1, RETURN)
<1>1. V.kind = "own" /\ W.kind = "own" /\ Off(V) /\ 1 \in Nat
  BY Views
<1>2. Goes(Done, m, V, W)
  BY <1>1, OffDone, DrawsGoes
<1>3. OwnStep(Step("WithdrawSeen", OWN, 0, 0 + 2), V, W, V)
  <2>1. 0 \in Nat /\ 0 + 2 \in Int
    OBVIOUS
  <2> QED BY <1>1, <2>1, MayDraw
<1>4. WithdrawAll = TryElse(Step("WithdrawSeen", OWN, 0, 0), <<>>, <<m>>)
  BY Words DEF WithdrawAll
<1> HIDE DEF V, W, m
<1>5. Leads(Done, 0, W, <<>>, W) /\ Leads(Done, 1, V, <<m>>, W)
  BY <1>2, Nothing, Single
<1>6. Leads(Done, (0 + 1) + 2, V, TryElse(Step("WithdrawSeen", OWN, 0, 0), <<>>, <<m>>), W)
  <2>1. 0 + 1 < 90 /\ 0 \in Int
    OBVIOUS
  <2> QED BY <1>1, <1>3, <1>5, <2>1, OpsKnown, Tried
<1> QED BY <1>4, <1>6 DEF V, W

LEMMA CloseAtLeads ==
  ASSUME NEW d \in Int, d # 0, NEW p \in Prices
  PROVE  Leads(Done, ((0 + ((2 + 2) + 1)) + 2) + 2, Held({2}, d, p, p, FALSE, "now"), CloseAt(d, p),
               Flat({2}, {p}, FALSE, "now"))
<1> DEFINE V == Held({2}, d, p, p, FALSE, "now")
           W == Flat({2}, {p}, FALSE, "no")
           G == Flat({2}, {p}, FALSE, "now")
           B == Moved(0) \o Moved(p) \o <<trade(-d)>>
<1>1. V.kind = "own" /\ W.kind = "own" /\ Gone.kind = "own" /\ Off(Gone)
  BY DEF Held, Flat, Own, Gone, Off
<1>2. -d \in Int /\ -d = -d
  OBVIOUS
<1>3. Leads(Done, 2, Gone, Moved(0), Gone) /\ Leads(Done, 2, Gone, Moved(p), Gone)
  BY Amounts, MovedGone
<1>4. Goes(Done, trade(-d), Gone, W)
  BY <1>1, <1>2, GoneSteps
<1>5. Leads(Done, 2 + 2, Gone, Moved(0) \o Moved(p), Gone)
  BY <1>3, Chain
<1>6. Leads(Done, (2 + 2) + 1, Gone, B, W)
  BY <1>4, <1>5, Single, Chain
<1>7. OwnStep(Step("TradeCpi", OWN, -d, 0 + 2), V, W, Gone)
  <2>1. 0 + 2 \in Int
    OBVIOUS
  <2> QED BY <1>1, <1>2, <2>1, MayClose
<1>8. Goes(Done, Read, W, G) /\ Goes(Done, If("Open", RETURN), G, G)
  BY Amounts, FlatSteps
<1>9. TryElse(trade(-d), <<>>, B) = TryElse(Step("TradeCpi", OWN, -d, 0), <<>>, B)
  BY Words
<1> HIDE DEF V, W, G, B
<1>10. Leads(Done, (0 + ((2 + 2) + 1)) + 2, V, TryElse(trade(-d), <<>>, B), W)
  <2>1. 0 + ((2 + 2) + 1) < 90
    OBVIOUS
  <2>2. Leads(Done, 0, W, <<>>, W)
    BY Nothing
  <2> QED BY <1>1, <1>2, <1>6, <1>7, <1>9, <2>1, <2>2, OpsKnown, Tried
<1>11. Leads(Done, 2, W, <<Read, If("Open", RETURN)>>, G)
  BY <1>8, Two
<1>12. Leads(Done, ((0 + ((2 + 2) + 1)) + 2) + 2, V, TryElse(trade(-d), <<>>, B) \o <<Read, If("Open", RETURN)>>, G)
  BY <1>10, <1>11, Chain
<1> QED BY <1>12 DEF CloseAt, V, G, B

LEMMA SettleLeads ==
  ASSUME NEW p \in Prices
  PROVE  Leads(Done, 4, Flat({2}, {p}, FALSE, "now"), Settle, Flat(Nat, {p}, TRUE, "now"))
<1>1. Goes(Done, Wait, Flat({2}, {p}, FALSE, "now"), Flat({2}, {p}, TRUE, "now"))
  BY Amounts, FlatSteps
<1>2. Goes(Done, Caught(withdraw(0)), Flat({2}, {p}, TRUE, "now"), Flat(Nat, {p}, TRUE, "no"))
  BY Amounts, FlatSteps
<1>3. Goes(Done, crankN, Flat(Nat, {p}, TRUE, "no"), Flat(Nat, {p}, TRUE, "no"))
  BY Amounts, FlatSteps
<1>4. Goes(Done, Read, Flat(Nat, {p}, TRUE, "no"), Flat(Nat, {p}, TRUE, "now"))
  BY Amounts, FlatSteps
<1> QED BY <1>1, <1>2, <1>3, <1>4, Four DEF Settle

LEMMA RoundTripScenario ==
  \E n \in 0 .. 98 : Leads(Done, n, Sweep("start", TRUE), scenarioRoundTrip, Gone)
<1>1. Leads(Done, 3 + 1, Sweep("start", TRUE), Enter, Entered)
  BY EnterLeads
<1>2. Leads(Done, 2, Entered, Fresh(0), Flat({2}, {0}, TRUE, "no"))
  BY Amounts, FreshLeads DEF Entered
<1>3. Goes(Done, trade(SIZE), Flat({2}, {0}, TRUE, "no"), Held({2}, SIZE, 0, 0, TRUE, "no"))
  BY Amounts, OpenSteps
<1>4. Goes(Done, Read, Held({2}, SIZE, 0, 0, TRUE, "no"), Held({2}, SIZE, 0, 0, TRUE, "now"))
  BY Amounts, HeldSteps
<1>5. Goes(Done, trade(-SIZE), Held({2}, SIZE, 0, 0, TRUE, "now"), Flat({2}, {0}, TRUE, "no"))
  BY Amounts, HeldSteps
<1>6. Goes(Done, Read, Flat({2}, {0}, TRUE, "no"), Flat({2}, {0}, TRUE, "now"))
  BY Amounts, FlatSteps
<1>7. Leads(Done, 4, Flat({2}, {0}, TRUE, "no"), <<trade(SIZE), Read, trade(-SIZE), Read>>, Flat({2}, {0}, TRUE, "now"))
  BY <1>3, <1>4, <1>5, <1>6, Four
<1>8. Goes(Done, OrReturn(WithdrawSeen), Flat({2}, {0}, TRUE, "now"), Flat(Nat, {0}, TRUE, "no"))
  <2>1. 0 \in Nat
    OBVIOUS
  <2> QED BY <2>1, OffDone, Words, DrawsGoes
<1>9. Goes(Done, Caught(close), Flat(Nat, {0}, TRUE, "no"), Gone)
  BY Amounts, FlatSteps
<1>10. Leads(Done, 2, Flat({2}, {0}, TRUE, "now"), <<OrReturn(WithdrawSeen), Caught(close)>>, Gone)
  BY <1>8, <1>9, Two
<1>11. Leads(Done, (3 + 1) + 2, Sweep("start", TRUE),
            Enter \o Fresh(0), Flat({2}, {0}, TRUE, "no"))
  BY <1>1, <1>2, Chain
<1>12. Leads(Done, ((3 + 1) + 2) + 4, Sweep("start", TRUE),
            Enter \o Fresh(0) \o <<trade(SIZE), Read, trade(-SIZE), Read>>, Flat({2}, {0}, TRUE, "now"))
  BY <1>11, <1>7, Chain
<1>13. Leads(Done, (((3 + 1) + 2) + 4) + 2, Sweep("start", TRUE),
            Enter \o Fresh(0) \o <<trade(SIZE), Read, trade(-SIZE), Read>> \o <<OrReturn(WithdrawSeen), Caught(close)>>, Gone)
  BY <1>12, <1>10, Chain
<1> DEFINE n == (((3 + 1) + 2) + 4) + 2
<1>60. n \in 0 .. 98
  OBVIOUS
<1> HIDE DEF n
<1>61. Leads(Done, n, Sweep("start", TRUE), scenarioRoundTrip, Gone)
  BY <1>13 DEF n, scenarioRoundTrip
<1> QED BY <1>60, <1>61

LEMMA WinnerScenario ==
  Serves(scenarioWinner)
<1>1. Leads(Done, 3 + 1, Done, Enter, Entered)
  BY EnterLeads
<1>2. Leads(Done, 2, Entered, Fresh(0), Flat({2}, {0}, TRUE, "no"))
  BY Amounts, FreshLeads DEF Entered
<1>3. Goes(Done, trade(SIZE), Flat({2}, {0}, TRUE, "no"), Held({2}, SIZE, 0, 0, TRUE, "no"))
  BY Amounts, OpenSteps
<1>4. Goes(Done, Read, Held({2}, SIZE, 0, 0, TRUE, "no"), Held({2}, SIZE, 0, 0, TRUE, "now"))
  BY Amounts, HeldSteps
<1>5. Leads(Done, 2, Flat({2}, {0}, TRUE, "no"), <<trade(SIZE), Read>>, Held({2}, SIZE, 0, 0, TRUE, "now"))
  BY <1>3, <1>4, Two
<1>6. Leads(Done, 2, Held({2}, SIZE, 0, 0, TRUE, "now"), Moved(1), Held({2}, SIZE, 1, 1, FALSE, "now"))
  BY Amounts, MovedGains
<1>7. Goes(Done, Read, Held({2}, SIZE, 1, 1, FALSE, "now"), Held({2}, SIZE, 1, 1, FALSE, "now"))
  BY Amounts, HeldSteps
<1>8. Leads(Done, 1, Held({2}, SIZE, 1, 1, FALSE, "now"), <<Read>>, Held({2}, SIZE, 1, 1, FALSE, "now"))
  BY <1>7, Single
<1>9. Leads(Done, ((0 + ((2 + 2) + 1)) + 2) + 2, Held({2}, SIZE, 1, 1, FALSE, "now"), CloseAt(SIZE, 1), Flat({2}, {1}, FALSE, "now"))
  BY Amounts, CloseAtLeads
<1>10. Leads(Done, 4, Flat({2}, {1}, FALSE, "now"), Settle, Flat(Nat, {1}, TRUE, "now"))
  BY Amounts, SettleLeads
<1>11. Leads(Done, (0 + 1) + 2, Flat(Nat, {1}, TRUE, "now"), WithdrawAll, Flat(Nat, {1}, TRUE, "no"))
  BY WithdrawAllLeads
<1>12. Goes(Done, Caught(close), Flat(Nat, {1}, TRUE, "no"), Gone)
  BY Amounts, FlatSteps
<1>13. Leads(Done, 1, Flat(Nat, {1}, TRUE, "no"), <<Caught(close)>>, Gone)
  BY <1>12, Single
<1>14. Leads(Done, (3 + 1) + 2, Done,
            Enter \o Fresh(0), Flat({2}, {0}, TRUE, "no"))
  BY <1>1, <1>2, Chain
<1>15. Leads(Done, ((3 + 1) + 2) + 2, Done,
            Enter \o Fresh(0) \o <<trade(SIZE), Read>>, Held({2}, SIZE, 0, 0, TRUE, "now"))
  BY <1>14, <1>5, Chain
<1>16. Leads(Done, (((3 + 1) + 2) + 2) + 2, Done,
            Enter \o Fresh(0) \o <<trade(SIZE), Read>> \o Moved(1), Held({2}, SIZE, 1, 1, FALSE, "now"))
  BY <1>15, <1>6, Chain
<1>17. Leads(Done, ((((3 + 1) + 2) + 2) + 2) + 1, Done,
            Enter \o Fresh(0) \o <<trade(SIZE), Read>> \o Moved(1) \o <<Read>>, Held({2}, SIZE, 1, 1, FALSE, "now"))
  BY <1>16, <1>8, Chain
<1>18. Leads(Done, (((((3 + 1) + 2) + 2) + 2) + 1) + (((0 + ((2 + 2) + 1)) + 2) + 2), Done,
            Enter \o Fresh(0) \o <<trade(SIZE), Read>> \o Moved(1) \o <<Read>> \o CloseAt(SIZE, 1), Flat({2}, {1}, FALSE, "now"))
  BY <1>17, <1>9, Chain
<1>19. Leads(Done, ((((((3 + 1) + 2) + 2) + 2) + 1) + (((0 + ((2 + 2) + 1)) + 2) + 2)) + 4, Done,
            Enter \o Fresh(0) \o <<trade(SIZE), Read>> \o Moved(1) \o <<Read>> \o CloseAt(SIZE, 1) \o Settle, Flat(Nat, {1}, TRUE, "now"))
  BY <1>18, <1>10, Chain
<1>20. Leads(Done, (((((((3 + 1) + 2) + 2) + 2) + 1) + (((0 + ((2 + 2) + 1)) + 2) + 2)) + 4) + ((0 + 1) + 2), Done,
            Enter \o Fresh(0) \o <<trade(SIZE), Read>> \o Moved(1) \o <<Read>> \o CloseAt(SIZE, 1) \o Settle \o WithdrawAll, Flat(Nat, {1}, TRUE, "no"))
  BY <1>19, <1>11, Chain
<1>21. Leads(Done, ((((((((3 + 1) + 2) + 2) + 2) + 1) + (((0 + ((2 + 2) + 1)) + 2) + 2)) + 4) + ((0 + 1) + 2)) + 1, Done,
            Enter \o Fresh(0) \o <<trade(SIZE), Read>> \o Moved(1) \o <<Read>> \o CloseAt(SIZE, 1) \o Settle \o WithdrawAll \o <<Caught(close)>>, Gone)
  BY <1>20, <1>13, Chain
<1> DEFINE n == ((((((((3 + 1) + 2) + 2) + 2) + 1) + (((0 + ((2 + 2) + 1)) + 2) + 2)) + 4) + ((0 + 1) + 2)) + 1
<1>22. n \in 0 .. 98
  OBVIOUS
<1> HIDE DEF n
<1>23. Serves(Enter \o Fresh(0) \o <<trade(SIZE), Read>> \o Moved(1) \o <<Read>> \o CloseAt(SIZE, 1) \o Settle \o WithdrawAll \o <<Caught(close)>>)
  BY <1>21, <1>22, ServesBy DEF n
<1> QED BY <1>23 DEF scenarioWinner

LEMMA LoserScenario ==
  Serves(scenarioLoser)
<1>1. Leads(Done, 3 + 1, Done, Enter, Entered)
  BY EnterLeads
<1>2. Leads(Done, 2, Entered, Fresh(0), Flat({2}, {0}, TRUE, "no"))
  BY Amounts, FreshLeads DEF Entered
<1>3. Goes(Done, trade(SIZE), Flat({2}, {0}, TRUE, "no"), Held({2}, SIZE, 0, 0, TRUE, "no"))
  BY Amounts, OpenSteps
<1>4. Goes(Done, Read, Held({2}, SIZE, 0, 0, TRUE, "no"), Held({2}, SIZE, 0, 0, TRUE, "now"))
  BY Amounts, HeldSteps
<1>5. Leads(Done, 2, Flat({2}, {0}, TRUE, "no"), <<trade(SIZE), Read>>, Held({2}, SIZE, 0, 0, TRUE, "now"))
  BY <1>3, <1>4, Two
<1>6. Leads(Done, 2, Held({2}, SIZE, 0, 0, TRUE, "now"), Moved(-1), Held({1}, SIZE, -1, -1, TRUE, "no"))
  BY Amounts, MovedLoses
<1>7. Goes(Done, Read, Held({1}, SIZE, -1, -1, TRUE, "no"), Held({1}, SIZE, -1, -1, TRUE, "now"))
  BY Amounts, HeldSteps
<1>8. Goes(Done, trade(-SIZE), Held({1}, SIZE, -1, -1, TRUE, "now"), Flat({1}, {-1}, TRUE, "no"))
  BY Amounts, HeldSteps
<1>9. Goes(Done, Read, Flat({1}, {-1}, TRUE, "no"), Flat({1}, {-1}, TRUE, "now"))
  BY Amounts, FlatSteps
<1>10. Goes(Done, If("Open", RETURN), Flat({1}, {-1}, TRUE, "now"), Flat({1}, {-1}, TRUE, "now"))
  BY Amounts, FlatSteps
<1>11. Leads(Done, 4, Held({1}, SIZE, -1, -1, TRUE, "no"), <<Read, trade(-SIZE), Read, If("Open", RETURN)>>, Flat({1}, {-1}, TRUE, "now"))
  BY <1>7, <1>8, <1>9, <1>10, Four
<1>12. Leads(Done, (0 + 1) + 2, Flat({1}, {-1}, TRUE, "now"), WithdrawAll, Flat(Nat, {-1}, TRUE, "no"))
  BY WithdrawAllLeads
<1>13. Goes(Done, Caught(close), Flat(Nat, {-1}, TRUE, "no"), Gone)
  BY Amounts, FlatSteps
<1>14. Leads(Done, 1, Flat(Nat, {-1}, TRUE, "no"), <<Caught(close)>>, Gone)
  BY <1>13, Single
<1>15. Leads(Done, (3 + 1) + 2, Done,
            Enter \o Fresh(0), Flat({2}, {0}, TRUE, "no"))
  BY <1>1, <1>2, Chain
<1>16. Leads(Done, ((3 + 1) + 2) + 2, Done,
            Enter \o Fresh(0) \o <<trade(SIZE), Read>>, Held({2}, SIZE, 0, 0, TRUE, "now"))
  BY <1>15, <1>5, Chain
<1>17. Leads(Done, (((3 + 1) + 2) + 2) + 2, Done,
            Enter \o Fresh(0) \o <<trade(SIZE), Read>> \o Moved(-1), Held({1}, SIZE, -1, -1, TRUE, "no"))
  BY <1>16, <1>6, Chain
<1>18. Leads(Done, ((((3 + 1) + 2) + 2) + 2) + 4, Done,
            Enter \o Fresh(0) \o <<trade(SIZE), Read>> \o Moved(-1) \o <<Read, trade(-SIZE), Read, If("Open", RETURN)>>, Flat({1}, {-1}, TRUE, "now"))
  BY <1>17, <1>11, Chain
<1>19. Leads(Done, (((((3 + 1) + 2) + 2) + 2) + 4) + ((0 + 1) + 2), Done,
            Enter \o Fresh(0) \o <<trade(SIZE), Read>> \o Moved(-1) \o <<Read, trade(-SIZE), Read, If("Open", RETURN)>> \o WithdrawAll, Flat(Nat, {-1}, TRUE, "no"))
  BY <1>18, <1>12, Chain
<1>20. Leads(Done, ((((((3 + 1) + 2) + 2) + 2) + 4) + ((0 + 1) + 2)) + 1, Done,
            Enter \o Fresh(0) \o <<trade(SIZE), Read>> \o Moved(-1) \o <<Read, trade(-SIZE), Read, If("Open", RETURN)>> \o WithdrawAll \o <<Caught(close)>>, Gone)
  BY <1>19, <1>14, Chain
<1> DEFINE n == ((((((3 + 1) + 2) + 2) + 2) + 4) + ((0 + 1) + 2)) + 1
<1>21. n \in 0 .. 98
  OBVIOUS
<1> HIDE DEF n
<1>22. Serves(Enter \o Fresh(0) \o <<trade(SIZE), Read>> \o Moved(-1) \o <<Read, trade(-SIZE), Read, If("Open", RETURN)>> \o WithdrawAll \o <<Caught(close)>>)
  BY <1>20, <1>21, ServesBy DEF n
<1> QED BY <1>22 DEF scenarioLoser

LEMMA MaxLeverageLeads ==
  ASSUME NEW d \in Int, Abs(d) <= LEVERAGE * 2, NEW p \in Prices, d * (p - 0) = 4
  PROVE  Serves(MaxLeverage(d, p))
<1>1. Leads(Done, 3 + 1, Done, Enter, Entered)
  BY EnterLeads
<1>2. Leads(Done, 2, Entered, Fresh(0), Flat({2}, {0}, TRUE, "no"))
  BY Amounts, FreshLeads DEF Entered
<1>3. Goes(Done, Read, Flat({2}, {0}, TRUE, "no"), Flat({2}, {0}, TRUE, "now"))
  BY Amounts, FlatSteps
<1>4. Goes(Done, OrReturn(trade(d)), Flat({2}, {0}, TRUE, "now"), Held({2}, d, 0, 0, TRUE, "no"))
  BY Amounts, OffDone, Words, OpensGoes
<1>5. Goes(Done, Read, Held({2}, d, 0, 0, TRUE, "no"), Held({2}, d, 0, 0, TRUE, "now"))
  BY Amounts, HeldSteps
<1>6. Leads(Done, 3, Flat({2}, {0}, TRUE, "no"), <<Read, OrReturn(trade(d)), Read>>, Held({2}, d, 0, 0, TRUE, "now"))
  BY <1>3, <1>4, <1>5, Three
<1>7. d # 0
  BY PricesAre
<1>12. Leads(Done, 2, Held({2}, d, 0, 0, TRUE, "now"), Moved(p), Held({2}, d, p, p, FALSE, "now"))
  BY Amounts, MovedGains
<1>13. Leads(Done, ((0 + ((2 + 2) + 1)) + 2) + 2, Held({2}, d, p, p, FALSE, "now"), CloseAt(d, p), Flat({2}, {p}, FALSE, "now"))
  BY <1>7, CloseAtLeads
<1>14. Leads(Done, 4, Flat({2}, {p}, FALSE, "now"), Settle, Flat(Nat, {p}, TRUE, "now"))
  BY SettleLeads
<1>15. Goes(Done, Caught(WithdrawSeen), Flat(Nat, {p}, TRUE, "now"), Flat(Nat, {p}, TRUE, "no"))
  BY Amounts, FlatSteps
<1>16. Goes(Done, Caught(close), Flat(Nat, {p}, TRUE, "no"), Gone)
  BY Amounts, FlatSteps
<1>17. Leads(Done, 2, Flat(Nat, {p}, TRUE, "now"), <<Caught(WithdrawSeen), Caught(close)>>, Gone)
  BY <1>15, <1>16, Two
<1>18. Leads(Done, (3 + 1) + 2, Done,
            Enter \o Fresh(0), Flat({2}, {0}, TRUE, "no"))
  BY <1>1, <1>2, Chain
<1>21. Leads(Done, ((3 + 1) + 2) + 3, Done,
            Enter \o Fresh(0) \o <<Read, OrReturn(trade(d)), Read>>, Held({2}, d, 0, 0, TRUE, "now"))
  BY <1>18, <1>6, Chain
<1>22. Leads(Done, (((3 + 1) + 2) + 3) + 2, Done,
            Enter \o Fresh(0) \o <<Read, OrReturn(trade(d)), Read>> \o Moved(p), Held({2}, d, p, p, FALSE, "now"))
  BY <1>21, <1>12, Chain
<1>23. Leads(Done, ((((3 + 1) + 2) + 3) + 2) + (((0 + ((2 + 2) + 1)) + 2) + 2), Done,
            Enter \o Fresh(0) \o <<Read, OrReturn(trade(d)), Read>> \o Moved(p) \o CloseAt(d, p), Flat({2}, {p}, FALSE, "now"))
  BY <1>22, <1>13, Chain
<1>24. Leads(Done, (((((3 + 1) + 2) + 3) + 2) + (((0 + ((2 + 2) + 1)) + 2) + 2)) + 4, Done,
            Enter \o Fresh(0) \o <<Read, OrReturn(trade(d)), Read>> \o Moved(p) \o CloseAt(d, p) \o Settle, Flat(Nat, {p}, TRUE, "now"))
  BY <1>23, <1>14, Chain
<1>25. Leads(Done, ((((((3 + 1) + 2) + 3) + 2) + (((0 + ((2 + 2) + 1)) + 2) + 2)) + 4) + 2, Done,
            Enter \o Fresh(0) \o <<Read, OrReturn(trade(d)), Read>> \o Moved(p) \o CloseAt(d, p) \o Settle \o <<Caught(WithdrawSeen), Caught(close)>>, Gone)
  BY <1>24, <1>17, Chain
<1> DEFINE n == ((((((3 + 1) + 2) + 3) + 2) + (((0 + ((2 + 2) + 1)) + 2) + 2)) + 4) + 2
<1>26. n \in 0 .. 98
  OBVIOUS
<1> HIDE DEF n
<1>27. Serves(Enter \o Fresh(0) \o <<Read, OrReturn(trade(d)), Read>> \o Moved(p) \o CloseAt(d, p) \o Settle \o <<Caught(WithdrawSeen), Caught(close)>>)
  BY <1>25, <1>26, ServesBy DEF n
<1> QED BY <1>27 DEF MaxLeverage

LEMMA MaxLeverageScenarios == Serves(scenarioMaxLeverageLong) /\ Serves(scenarioMaxLeverageShort)
<1>1. 4 \in Int /\ Abs(4) <= LEVERAGE * 2 /\ 4 * (1 - 0) = 4
  BY DEF Abs, LEVERAGE
<1>2. -4 \in Int /\ Abs(-4) <= LEVERAGE * 2 /\ (-4) * ((-1) - 0) = 4
  BY DEF Abs, LEVERAGE
<1>3. Serves(MaxLeverage(4, 1))
  BY <1>1, Amounts, MaxLeverageLeads
<1>4. Serves(MaxLeverage(-4, -1))
  BY <1>2, Amounts, MaxLeverageLeads
<1> QED BY <1>3, <1>4 DEF scenarioMaxLeverageLong, scenarioMaxLeverageShort

LEMMA OverLeverageScenario ==
  Serves(scenarioOverLeverageRejection)
<1>1. Leads(Done, 3 + 1, Done, Enter, Entered)
  BY EnterLeads
<1>2. Leads(Done, 2, Entered, Fresh(0), Flat({2}, {0}, TRUE, "no"))
  BY Amounts, FreshLeads DEF Entered
<1>3. 5 \in Int /\ -5 \in Int /\ -5 = -(5) /\ 2 \in Nat /\ Abs(5) > LEVERAGE * 2
  <2>1. \A y \in Int : y + 5 = 0 => -y = 5 /\ Abs(y) = 5
    BY DEF Abs
  <2>2. -5 \in Int /\ -5 + 5 = 0 /\ Abs(5) = 5 /\ 5 \in Int /\ 2 \in Nat
    BY DEF Abs
  <2>3. 5 = -(-5) /\ Abs(-5) = 5
    BY <2>1, <2>2
  <2>4. 5 > LEVERAGE * 2
    BY DEF LEVERAGE
  <2> QED BY <2>2, <2>3, <2>4
<1>4. Goes(Done, Caught(trade(-5)), Held({2}, 5, 0, 0, TRUE, "no"), Flat({2}, {0}, TRUE, "no"))
  BY <1>3, Amounts, OffDone, Words, ClosesGoes
<1>5. Leads(Done, 1, Held({2}, 5, 0, 0, TRUE, "no"), <<Caught(trade(-5))>>, Flat({2}, {0}, TRUE, "no")) /\ Leads(Done, 0, Flat({2}, {0}, TRUE, "no"), <<>>, Flat({2}, {0}, TRUE, "no"))
  BY <1>4, Single, Nothing
<1>6. OwnStep(Step("TradeCpi", OWN, 5, 1 + 2), Flat({2}, {0}, TRUE, "no"), Held({2}, 5, 0, 0, TRUE, "no"), Flat({2}, {0}, TRUE, "no"))
  <2>1. 1 + 2 \in Int
    OBVIOUS
  <2>2. Held({2}, 5, 0, 0, TRUE, "no").kind = "own" /\ Off(Gone)
    BY DEF Held, Own, Gone, Off
  <2> QED BY <2>1, <2>2, <1>3, Amounts, MayOpen
<1>7. Flat({2}, {0}, TRUE, "no").kind = "own" /\ 1 + 0 < 90
  BY DEF Flat, Own
<1>8. TryElse(trade(5), <<Caught(trade(-5))>>, <<>>) = TryElse(Step("TradeCpi", OWN, 5, 0), <<Caught(trade(-5))>>, <<>>)
  BY Words
<1>9. Leads(Done, (1 + 0) + 2, Flat({2}, {0}, TRUE, "no"), TryElse(trade(5), <<Caught(trade(-5))>>, <<>>), Flat({2}, {0}, TRUE, "no"))
  BY <1>3, <1>5, <1>6, <1>7, <1>8, OpsKnown, Tried
<1>10. -5 \in Int /\ 5 \in Int /\ 5 = -(-5) /\ 2 \in Nat /\ Abs(-5) > LEVERAGE * 2
  <2>1. \A y \in Int : y + 5 = 0 => -y = 5 /\ Abs(y) = 5
    BY DEF Abs
  <2>2. -5 \in Int /\ -5 + 5 = 0 /\ Abs(5) = 5 /\ 5 \in Int /\ 2 \in Nat
    BY DEF Abs
  <2>3. 5 = -(-5) /\ Abs(-5) = 5
    BY <2>1, <2>2
  <2>4. 5 > LEVERAGE * 2
    BY DEF LEVERAGE
  <2> QED BY <2>2, <2>3, <2>4
<1>11. Goes(Done, Caught(trade(5)), Held({2}, -5, 0, 0, TRUE, "no"), Flat({2}, {0}, TRUE, "no"))
  BY <1>10, Amounts, OffDone, Words, ClosesGoes
<1>12. Leads(Done, 1, Held({2}, -5, 0, 0, TRUE, "no"), <<Caught(trade(5))>>, Flat({2}, {0}, TRUE, "no")) /\ Leads(Done, 0, Flat({2}, {0}, TRUE, "no"), <<>>, Flat({2}, {0}, TRUE, "no"))
  BY <1>11, Single, Nothing
<1>13. OwnStep(Step("TradeCpi", OWN, -5, 1 + 2), Flat({2}, {0}, TRUE, "no"), Held({2}, -5, 0, 0, TRUE, "no"), Flat({2}, {0}, TRUE, "no"))
  <2>1. 1 + 2 \in Int
    OBVIOUS
  <2>2. Held({2}, -5, 0, 0, TRUE, "no").kind = "own" /\ Off(Gone)
    BY DEF Held, Own, Gone, Off
  <2> QED BY <2>1, <2>2, <1>10, Amounts, MayOpen
<1>14. Flat({2}, {0}, TRUE, "no").kind = "own" /\ 1 + 0 < 90
  BY DEF Flat, Own
<1>15. TryElse(trade(-5), <<Caught(trade(5))>>, <<>>) = TryElse(Step("TradeCpi", OWN, -5, 0), <<Caught(trade(5))>>, <<>>)
  BY Words
<1>16. Leads(Done, (1 + 0) + 2, Flat({2}, {0}, TRUE, "no"), TryElse(trade(-5), <<Caught(trade(5))>>, <<>>), Flat({2}, {0}, TRUE, "no"))
  BY <1>10, <1>12, <1>13, <1>14, <1>15, OpsKnown, Tried
<1>17. Goes(Done, Caught(withdraw(DEPOSIT)), Flat({2}, {0}, TRUE, "no"), Flat(Nat, {0}, TRUE, "no"))
  <2>1. DEPOSIT \in Nat /\ \A k \in {2} : DEPOSIT <= k
    BY DEF DEPOSIT
  <2> QED BY <2>1, OffDone, Words, WithdrawsGoes
<1>18. Goes(Done, Caught(withdraw(DEPOSIT)), Flat({2}, {0}, TRUE, "no"), Flat(Nat, {0}, TRUE, "no"))
  BY Amounts, <1>17
<1>19. Goes(Done, Caught(close), Flat(Nat, {0}, TRUE, "no"), Gone)
  BY Amounts, FlatSteps
<1>20. Leads(Done, 2, Flat({2}, {0}, TRUE, "no"), <<Caught(withdraw(DEPOSIT)), Caught(close)>>, Gone)
  BY <1>18, <1>19, Two
<1>21. Leads(Done, (3 + 1) + 2, Done,
            Enter \o Fresh(0), Flat({2}, {0}, TRUE, "no"))
  BY <1>1, <1>2, Chain
<1>22. Leads(Done, ((3 + 1) + 2) + ((1 + 0) + 2), Done,
            Enter \o Fresh(0) \o TryElse(trade(5), <<Caught(trade(-5))>>, <<>>), Flat({2}, {0}, TRUE, "no"))
  BY <1>21, <1>9, Chain
<1>23. Leads(Done, (((3 + 1) + 2) + ((1 + 0) + 2)) + ((1 + 0) + 2), Done,
            Enter \o Fresh(0) \o TryElse(trade(5), <<Caught(trade(-5))>>, <<>>) \o TryElse(trade(-5), <<Caught(trade(5))>>, <<>>), Flat({2}, {0}, TRUE, "no"))
  BY <1>22, <1>16, Chain
<1>24. Leads(Done, ((((3 + 1) + 2) + ((1 + 0) + 2)) + ((1 + 0) + 2)) + 2, Done,
            Enter \o Fresh(0) \o TryElse(trade(5), <<Caught(trade(-5))>>, <<>>) \o TryElse(trade(-5), <<Caught(trade(5))>>, <<>>) \o <<Caught(withdraw(DEPOSIT)), Caught(close)>>, Gone)
  BY <1>23, <1>20, Chain
<1> DEFINE n == ((((3 + 1) + 2) + ((1 + 0) + 2)) + ((1 + 0) + 2)) + 2
<1>25. n \in 0 .. 98
  OBVIOUS
<1> HIDE DEF n
<1>26. Serves(Enter \o Fresh(0) \o TryElse(trade(5), <<Caught(trade(-5))>>, <<>>) \o TryElse(trade(-5), <<Caught(trade(5))>>, <<>>) \o <<Caught(withdraw(DEPOSIT)), Caught(close)>>)
  BY <1>24, <1>25, ServesBy DEF n
<1> QED BY <1>26 DEF scenarioOverLeverageRejection

-----------------------------------------------------------------------------
(***************************************************************************)
(* The first test of the happy path.                                       *)
(***************************************************************************)
Old   == Sweep("old", FALSE)
Swept == Sweep("swept", TRUE)

(* A step that moves the sweep from one stage to another.                  *)
LEMMA SweepsOn ==
  ASSUME NEW op \in OpNames, NEW slot \in Int, NEW n \in Int, NEW c \in {0, 1}, NEW v, NEW w, v.kind = "sweep",
         SweepStep(Step(op, slot, n, c), v, w, IF c = 0 THEN Dead ELSE w),
         op \notin Tests \cup {"Take"}
  PROVE  Goes(Swept, Step(op, slot, n, c), v, w)
<1> DEFINE s == Step(op, slot, n, c)
<1>1. s \in StepType /\ s.op = op /\ s.catch = c /\ c \in Int
  BY StepIs
<1> HIDE DEF s
<1>2. SweepStep(s, v, w, IF s.catch = 0 THEN Dead ELSE w) /\ s.catch # RETURN
  BY <1>1 DEF s, RETURN
<1> QED BY <1>1, <1>2 DEF Goes, Sound, s

LEMMA OldGoes ==
  ASSUME NEW op \in {"SetOracleAuthority", "Read", "TopUpInsurance", "PushOraclePrice", "KeeperCrank"}, NEW c \in {0, 1},
         NEW mark \in BOOLEAN, NEW after \in BOOLEAN, after => mark \/ (op = "PushOraclePrice" /\ c = 0)
  PROVE  Goes(Swept, Step(op, OWN, 0, c), Sweep("old", mark), Sweep("old", after))
<1> DEFINE s == Step(op, OWN, 0, c)
           v == Sweep("old", mark)
           w == Sweep("old", after)
<1>1. op \in OpNames /\ op \notin Tests \cup {"Take"} /\ 0 \in Int /\ OWN \in Int
  BY Numbers DEF OpNames, Instructions, Reads, Tests
<1>2. s.op = op /\ s.catch = c /\ s.n = 0 /\ c # RETURN
  BY <1>1, StepIs DEF RETURN
<1>3. v.kind = "sweep" /\ v.stage = "old" /\ v.mark = mark /\ w.kind = "sweep" /\ w.stage = "old" /\ w.mark = after
  BY DEF Sweep
<1>4. Dead.kind = "dead"
  BY DEF Dead
<1> HIDE DEF s, v, w
<1>5. SweepStep(s, v, w, IF c = 0 THEN Dead ELSE w)
  <2>1. CASE c = 0
    BY <1>2, <1>3, <1>4, <2>1 DEF SweepStep
  <2>2. CASE c = 1
    BY <1>2, <1>3, <1>4, <2>2 DEF SweepStep
  <2> QED BY <2>1, <2>2
<1> QED BY <1>1, <1>3, <1>5, SweepsOn DEF s, v, w

LEMMA SweptGoes ==
  ASSUME NEW op \in {"DepositCollateral", "PushOraclePrice", "KeeperCrank", "Read"}, NEW c \in {0, 1}, NEW slot \in Int,
         NEW n \in {0, 1}, op = "DepositCollateral" => slot = LP, op = "PushOraclePrice" => n = 0
  PROVE  Goes(Swept, Step(op, slot, n, c), Swept, Swept)
<1> DEFINE s == Step(op, slot, n, c)
<1>1. op \in OpNames /\ op \notin Tests \cup {"Take"} /\ n \in Int /\ n \in Nat
  BY Numbers DEF OpNames, Instructions, Reads, Tests
<1>2. s.op = op /\ s.catch = c /\ s.n = n /\ s.slot = slot /\ c # RETURN
  BY <1>1, StepIs DEF RETURN
<1>3. Swept.kind = "sweep" /\ Swept.stage = "swept" /\ Swept.mark = TRUE
  BY DEF Sweep, Swept
<1>4. Dead.kind = "dead"
  BY DEF Dead
<1> HIDE DEF s
<1>5. SweepStep(s, Swept, Swept, IF c = 0 THEN Dead ELSE Swept)
  <2>1. CASE c = 0
    BY <1>1, <1>2, <1>3, <1>4, <2>1 DEF SweepStep
  <2>2. CASE c = 1
    BY <1>1, <1>2, <1>3, <1>4, <2>2 DEF SweepStep
  <2> QED BY <2>1, <2>2
<1> QED BY <1>1, <1>3, <1>5, SweepsOn DEF s

LEMMA CloseStaleLeads == Leads(Swept, 5, Sweep("old", TRUE), CloseStale, Swept)
<1> DEFINE s1 == Step("ReadFlat", OWN, 0, 0)
           s2 == Step("Take", OWN, 0, 4)
           s3 == Step("WithdrawSeen", OWN, 0, -1)
           s4 == Step("CloseAccount", OWN, 0, -2)
           s5 == Step("Go", OWN, 0, -3)
           O  == Sweep("old", TRUE)
           L  == Sweep("listed", TRUE)
           T  == Sweep("taken", TRUE)
           D  == Sweep("drawn", TRUE)
           A  == <<s1, s2, s3, s4, s5>>
           f  == [j \in 1 .. 6 |-> CASE j = 1 -> O [] j = 2 -> L [] j = 3 -> T [] j = 4 -> D [] j = 5 -> L [] j = 6 -> Swept]
<1>1. CloseStale = A
  BY Writing, Words DEF CloseStale
<1>2. /\ s1 \in StepType /\ s1.op = "ReadFlat" /\ s1.slot = OWN /\ s1.n = 0 /\ s1.catch = 0
      /\ s2 \in StepType /\ s2.op = "Take" /\ s2.slot = OWN /\ s2.n = 0 /\ s2.catch = 4
      /\ s3 \in StepType /\ s3.op = "WithdrawSeen" /\ s3.slot = OWN /\ s3.n = 0 /\ s3.catch = -1
      /\ s4 \in StepType /\ s4.op = "CloseAccount" /\ s4.slot = OWN /\ s4.n = 0 /\ s4.catch = -2
      /\ s5 \in StepType /\ s5.op = "Go" /\ s5.slot = OWN /\ s5.n = 0 /\ s5.catch = -3
  <2>1. {"ReadFlat", "Take", "WithdrawSeen", "CloseAccount", "Go"} \subseteq OpNames
    BY DEF OpNames, Instructions, Reads, Tests
  <2>2. 0 \in Int /\ 4 \in Int /\ -1 \in Int /\ -2 \in Int /\ -3 \in Int /\ OWN \in Int
    BY Numbers
  <2> QED BY <2>1, <2>2, StepIs
<1>3. /\ O.kind = "sweep" /\ O.stage = "old" /\ O.mark = TRUE /\ L.kind = "sweep" /\ L.stage = "listed" /\ L.mark = TRUE
      /\ T.kind = "sweep" /\ T.stage = "taken" /\ T.mark = TRUE /\ D.kind = "sweep" /\ D.stage = "drawn" /\ D.mark = TRUE
      /\ Swept.kind = "sweep" /\ Swept.stage = "swept" /\ Swept.mark = TRUE /\ Dead.kind = "dead"
  BY DEF Sweep, Swept, Dead
<1> HIDE DEF s1, s2, s3, s4, s5, O, L, T, D
<1>4. f[1] = O /\ f[2] = L /\ f[3] = T /\ f[4] = D /\ f[5] = L /\ f[6] = Swept
  OBVIOUS
<1>5. A \in Seq(StepType) /\ Len(A) = 5 /\ A[1] = s1 /\ A[2] = s2 /\ A[3] = s3 /\ A[4] = s4 /\ A[5] = s5
  BY <1>2
<1> HIDE DEF f, A
<1>6. 4 # RETURN /\ -1 # RETURN /\ -2 # RETURN /\ -3 # RETURN /\ 0 # RETURN
  BY DEF RETURN
<1>7. /\ Sound(s1, O, L, Dead) /\ Sound(s2, L, T, Swept) /\ Sound(s3, T, D, L) /\ Sound(s4, D, L, L) /\ Sound(s5, L, Swept, L)
  <2>1. SweepStep(s1, O, L, Dead)
    BY <1>2, <1>3, <1>6 DEF SweepStep
  <2>2. SweepStep(s2, L, T, Swept)
    BY <1>2, <1>3, <1>6 DEF SweepStep
  <2>3. SweepStep(s3, T, D, L)
    BY <1>2, <1>3, <1>6 DEF SweepStep
  <2>4. SweepStep(s4, D, L, L)
    BY <1>2, <1>3, <1>6 DEF SweepStep
  <2>5. SweepStep(s5, L, Swept, L)
    BY <1>2, <1>3, <1>6 DEF SweepStep
  <2> QED BY <1>2, <1>3, <2>1, <2>2, <2>3, <2>4, <2>5 DEF Sound, Tests
<1>8. /\ Target(A, f, Swept, 1) = Dead /\ Target(A, f, Swept, 2) = Swept /\ Target(A, f, Swept, 3) = L
      /\ Target(A, f, Swept, 4) = L /\ Target(A, f, Swept, 5) = L
  BY <1>2, <1>4, <1>5, <1>6 DEF Target
<1>9. Annotated(A, f, Swept)
  <2>1. ASSUME NEW j \in 1 .. 5
        PROVE  /\ A[j].catch \in {0, RETURN} \/ j + A[j].catch \in 1 .. 5 + 1
               /\ Sound(A[j], f[j], f[j + 1], Target(A, f, Swept, j))
    <3>1. j = 1 \/ j = 2 \/ j = 3 \/ j = 4 \/ j = 5
      OBVIOUS
    <3> QED BY <3>1, <1>2, <1>4, <1>5, <1>7, <1>8
  <2> QED BY <1>5, <2>1 DEF Annotated
<1>10. f[5 + 1] = Swept
  BY <1>4
<1>11. Leads(Swept, 5, O, A, Swept)
  BY <1>4, <1>5, <1>9, <1>10 DEF Leads
<1> QED BY <1>1, <1>11 DEF O

LEMMA SweepLeads == Leads(Swept, (((3 + 2) + 5) + 1 + 2) + 1, Old, happy_path[1], Swept)
<1> DEFINE a == Step("SetOracleAuthority", OWN, 0, 1)
           t == Step("TopUpInsurance", OWN, 0, 1)
           d == Step("DepositCollateral", LP, 1, 1)
           M == Sweep("old", TRUE)
<1>1. Goes(Swept, a, Old, Old) /\ Goes(Swept, Read, Old, Old) /\ Goes(Swept, t, Old, Old)
  <2>1. Goes(Swept, Step("SetOracleAuthority", OWN, 0, 1), Old, Old) /\ Goes(Swept, Step("TopUpInsurance", OWN, 0, 1), Old, Old)
    BY OldGoes DEF Old
  <2>2. Goes(Swept, Step("Read", OWN, 0, 0), Old, Old)
    BY OldGoes DEF Old
  <2> QED BY <2>1, <2>2, Words
<1>2. Leads(Swept, 3, Old, <<a, Read, t>>, Old)
  BY <1>1, Three
<1>3. Leads(Swept, 2, Old, Moved(0), M)
  <2>1. Goes(Swept, Step("PushOraclePrice", OWN, 0, 0), Old, M)
    BY OldGoes DEF Old
  <2>2. Goes(Swept, Step("KeeperCrank", OWN, 0, 1), M, M)
    BY OldGoes DEF Old
  <2>3. Goes(Swept, Push(0), Old, M) /\ Goes(Swept, crankN, M, M)
    BY <2>1, <2>2, Words
  <2> HIDE DEF M
  <2> QED BY <2>3, Two DEF Moved
<1>4. Leads(Swept, 5, M, CloseStale, Swept)
  BY CloseStaleLeads
<1>5. Leads(Swept, 1, Swept, <<d>>, Swept)
  <2>1. LP \in Int
    BY Numbers
  <2>2. Goes(Swept, d, Swept, Swept)
    BY <2>1, SweptGoes
  <2> QED BY <2>2, Single
<1>6. Leads(Swept, 2, Swept, Moved(0), Swept) /\ Leads(Swept, 1, Swept, <<Read>>, Swept)
  <2>1. Goes(Swept, Step("PushOraclePrice", OWN, 0, 0), Swept, Swept) /\ Goes(Swept, Step("KeeperCrank", OWN, 0, 1), Swept, Swept)
        /\ Goes(Swept, Step("Read", OWN, 0, 0), Swept, Swept)
    <3>1. OWN \in Int
      BY Numbers
    <3> QED BY <3>1, SweptGoes
  <2>2. Goes(Swept, Push(0), Swept, Swept) /\ Goes(Swept, crankN, Swept, Swept) /\ Goes(Swept, Read, Swept, Swept)
    BY <2>1, Words
  <2> QED BY <2>2, Single, Two DEF Moved
<1> HIDE DEF M
<1>7. Leads(Swept, 3 + 2, Old, <<a, Read, t>> \o Moved(0), M)
  BY <1>2, <1>3, Chain
<1>8. Leads(Swept, (3 + 2) + 5, Old, <<a, Read, t>> \o Moved(0) \o CloseStale, Swept)
  BY <1>4, <1>7, Chain
<1>9. Leads(Swept, ((3 + 2) + 5) + 1, Old, <<a, Read, t>> \o Moved(0) \o CloseStale \o <<d>>, Swept)
  BY <1>5, <1>8, Chain
<1>10. Leads(Swept, ((3 + 2) + 5) + 1 + 2, Old, <<a, Read, t>> \o Moved(0) \o CloseStale \o <<d>> \o Moved(0), Swept)
  BY <1>6, <1>9, Chain
<1>11. Leads(Swept, (((3 + 2) + 5) + 1 + 2) + 1, Old, <<a, Read, t>> \o Moved(0) \o CloseStale \o <<d>> \o Moved(0) \o <<Read>>, Swept)
  BY <1>6, <1>10, Chain
<1>12. happy_path[1] = <<a, Read, t>> \o Moved(0) \o CloseStale \o <<d>> \o Moved(0) \o <<Read>>
  BY Writing DEF happy_path
<1> QED BY <1>11, <1>12

-----------------------------------------------------------------------------
(***************************************************************************)
(* The drills.  Between its loops a drill has no account; in one, the      *)
(* account is a user.                                                      *)
(***************************************************************************)
Closing == Drill("closed", Slots, Slots \cup {OWN})
Working == Drill("live", Users, Users \cup {OWN})
Looping == Drill("live", Users, Users)

LEMMA UsersAre == Users \subseteq Slots /\ Users \subseteq Slots \ {LP} /\ LP \in Slots
BY Natural DEF Users, Slots, LP

(* The steps of a live market that is not left.                            *)
LEMMA LiveGoes ==
  ASSUME NEW op \in {"SetOracleAuthority", "PushOraclePrice", "KeeperCrank", "InitLP", "InitUser", "DepositCollateral",
                     "TopUpInsurance", "TradeCpi", "LiquidateAtOracle", "Read"},
         NEW slot \in Int, NEW n \in Int, NEW c \in {0, 1}, NEW list, NEW mine,
         op = "PushOraclePrice" => n \in Prices,
         op = "DepositCollateral" => n \in Nat /\ IF slot = OWN THEN mine \subseteq Slots ELSE slot \in Slots,
         op = "TradeCpi" => n \in Nat /\ IF slot = OWN THEN mine \subseteq Slots \ {LP} ELSE slot \in Slots \ {LP}
  PROVE  Goes(Closing, Step(op, slot, n, c), Drill("live", list, mine), Drill("live", list, mine))
<1> DEFINE s == Step(op, slot, n, c)
           v == Drill("live", list, mine)
<1>1. op \in OpNames /\ op \notin Tests \cup {"Take", "Each", "ReadUsed", "IsLp", "Unwind", "CloseAccount", "AdminForceCloseAccount", "Say", "Flat"}
      /\ op \notin {"ResolveMarket", "CloseSlab"} /\ op \in DrillOps
  BY DEF OpNames, Instructions, Reads, Tests, DrillOps
<1>2. s \in StepType /\ s.op = op /\ s.catch = c /\ s.n = n /\ s.slot = slot /\ c # RETURN
  BY <1>1, StepIs DEF RETURN
<1>3. v.kind = "drill" /\ v.stage = "live" /\ v.todo = list /\ v.idx = mine /\ Dead.kind = "dead"
  BY DEF Drill, Dead
<1> HIDE DEF s, v
<1>4. DrillLegal(s, v)
  BY <1>1, <1>2, <1>3 DEF DrillLegal, Names
<1>5. Reaches(s.op, v.stage, v.stage) /\ FallsTo(s.op, v.stage, v.stage)
  BY <1>1, <1>2, <1>3 DEF Reaches, FallsTo, LiveStages
<1>6. DrillStep(s, v, v, IF c = 0 THEN Dead ELSE v)
  <2>1. s.op # "Go" /\ s.op # "ReadUsed" /\ s.op # "Each" /\ s.op # "Take" /\ s.op # "IsLp" /\ s.op \notin {"Take", "Flat", "IsLp", "Go"}
    BY <1>1, <1>2 DEF Tests
  <2>2. CASE c = 0
    BY <1>1, <1>2, <1>3, <1>4, <1>5, <2>1, <2>2 DEF DrillStep
  <2>3. CASE c = 1
    BY <1>1, <1>2, <1>3, <1>4, <1>5, <2>1, <2>3 DEF DrillStep
  <2> QED BY <2>2, <2>3
<1>7. Sound(s, v, v, IF c = 0 THEN Dead ELSE v)
  BY <1>1, <1>2, <1>3, <1>6 DEF Sound
<1> QED BY <1>2, <1>7 DEF Goes, s, v

(* The loop over the users.                                                *)
LEMMA ForUsersLeads ==
  ASSUME NEW n, NEW B, Leads(Closing, n, Looping, B, Looping), n < 90
  PROVE  Leads(Closing, n + 3, Working, ForUsers(B), Working)
<1>1. B \in Seq(StepType) /\ n \in Nat /\ Len(B) = n
  BY DEF Leads
<1>2. PICK k : k[1] = Looping /\ k[n + 1] = Looping /\ Annotated(B, k, Closing)
  BY DEF Leads
<1> DEFINE s == Step("Each", OWN, 0, 0)
           t == Step("Take", OWN, 0, n + 2)
           g == Step("Go", OWN, 0, -n - 1)
           A == <<s, t>> \o B \o <<g>>
           f == [j \in 1 .. n + 4 |-> IF j \in {1, 2, n + 4} THEN Working ELSE k[j - 2]]
<1>3. ForUsers(B) = A
  <2>1. Do("Each", OWN, 0) = s /\ Go(-n - 1) = g
    BY DEF Do, Go
  <2>2. ForUsers(B) = <<Do("Each", OWN, 0), t>> \o B \o <<Go(-n - 1)>>
    BY <1>1 DEF ForUsers
  <2> QED BY <2>1, <2>2
<1>4. /\ s \in StepType /\ s.op = "Each" /\ s.slot = OWN /\ s.n = 0 /\ s.catch = 0
      /\ t \in StepType /\ t.op = "Take" /\ t.slot = OWN /\ t.n = 0 /\ t.catch = n + 2
      /\ g \in StepType /\ g.op = "Go" /\ g.slot = OWN /\ g.n = 0 /\ g.catch = -n - 1
  <2>1. {"Each", "Take", "Go"} \subseteq OpNames
    BY DEF OpNames, Instructions, Reads, Tests
  <2>2. 0 \in Int /\ n + 2 \in Int /\ -n - 1 \in Int /\ OWN \in Int
    BY <1>1, Numbers
  <2> QED BY <2>1, <2>2, StepIs
<1> HIDE DEF s, t, g
<1>5. /\ A \in Seq(StepType) /\ Len(A) = n + 3 /\ A[1] = s /\ A[2] = t /\ A[n + 3] = g
      /\ \A j \in 3 .. n + 2 : A[j] = B[j - 2] /\ B[j - 2] \in StepType
  <2> DEFINE P == <<s, t>> \o B
  <2>1. P \in Seq(StepType) /\ Len(P) = n + 2 /\ P[1] = s /\ P[2] = t
        /\ \A j \in 3 .. n + 2 : P[j] = B[j - 2] /\ B[j - 2] \in StepType
    BY <1>1, <1>4
  <2>2. A = P \o <<g>>
    OBVIOUS
  <2> HIDE DEF P, A
  <2>3. P \o <<g>> \in Seq(StepType) /\ Len(P \o <<g>>) = n + 3 /\ (P \o <<g>>)[n + 3] = g
        /\ \A j \in 1 .. n + 2 : (P \o <<g>>)[j] = P[j]
    BY <1>1, <1>4, <2>1
  <2>4. 1 \in 1 .. n + 2 /\ 2 \in 1 .. n + 2 /\ \A j \in 3 .. n + 2 : j \in 1 .. n + 2
    BY <1>1
  <2> QED BY <2>1, <2>2, <2>3, <2>4
<1>6. f[1] = Working /\ f[2] = Working /\ f[n + 4] = Working /\ f[3] = Looping /\ f[n + 3] = Looping
      /\ \A j \in 3 .. n + 3 : f[j] = k[j - 2]
  <2>1. \A j \in 3 .. n + 3 : f[j] = k[j - 2]
    BY <1>1
  <2>2. f[1] = Working /\ f[2] = Working /\ f[n + 4] = Working
    BY <1>1
  <2> HIDE DEF f
  <2>3. f[3] = k[1] /\ f[n + 3] = k[n + 1]
    BY <1>1, <2>1
  <2> QED BY <1>2, <2>1, <2>2, <2>3
<1> HIDE DEF A, f
<1>7. /\ Working.kind = "drill" /\ Working.stage = "live" /\ Working.todo = Users /\ Working.idx = Users \cup {OWN}
      /\ Looping.kind = "drill" /\ Looping.stage = "live" /\ Looping.todo = Users /\ Looping.idx = Users
      /\ Dead.kind = "dead"
  BY DEF Drill, Dead, Working, Looping
<1>8. t.catch # 0 /\ t.catch # RETURN /\ g.catch # 0 /\ g.catch # RETURN
  BY <1>1, <1>4 DEF RETURN
<1>9. Sound(s, Working, Working, Dead) /\ Sound(t, Working, Looping, Working) /\ Sound(g, Looping, Working, Working)
  <2>1. DrillStep(s, Working, Working, Dead)
    BY <1>4, <1>7 DEF DrillStep, DrillOps, DrillLegal, Reaches, LiveStages
  <2>2. DrillStep(t, Working, Looping, Working)
    BY <1>4, <1>7 DEF DrillStep, DrillOps, DrillLegal, Reaches, FallsTo, LiveStages
  <2>3. DrillStep(g, Looping, Working, Working)
    BY <1>4, <1>7 DEF DrillStep, DrillOps, DrillLegal, FallsTo, LiveStages
  <2> QED BY <1>4, <1>7, <1>8, <2>1, <2>2, <2>3 DEF Sound, Tests
<1>10. ASSUME NEW j \in 1 .. n + 3
       PROVE  /\ A[j].catch \in {0, RETURN} \/ j + A[j].catch \in 1 .. n + 4
              /\ Sound(A[j], f[j], f[j + 1], Target(A, f, Closing, j))
  <2>1. CASE j = 1
    <3>1. Target(A, f, Closing, 1) = Dead /\ f[1 + 1] = Working
      BY <1>4, <1>5, <1>6 DEF Target
    <3> QED BY <2>1, <3>1, <1>4, <1>5, <1>6, <1>9
  <2>2. CASE j = 2
    <3>1. 2 + t.catch = n + 4 /\ n + 4 \in 1 .. n + 4 /\ 2 + 1 = 3
      BY <1>1, <1>4
    <3>2. Target(A, f, Closing, 2) = Working
      BY <3>1, <1>5, <1>6, <1>8 DEF Target
    <3> QED BY <2>2, <3>1, <3>2, <1>5, <1>6, <1>9
  <2>3. CASE j = n + 3
    <3>1. (n + 3) + g.catch = 2 /\ 2 \in 1 .. n + 4 /\ (n + 3) + 1 = n + 4
      BY <1>1, <1>4
    <3>2. Target(A, f, Closing, n + 3) = Working
      BY <3>1, <1>5, <1>6, <1>8 DEF Target
    <3> QED BY <2>3, <3>1, <3>2, <1>5, <1>6, <1>9
  <2>4. CASE j \in 3 .. n + 2
    <3> DEFINE i == j - 2
    <3>1. i \in 1 .. n /\ j \in 3 .. n + 3 /\ j + 1 \in 3 .. n + 3 /\ (j + 1) - 2 = i + 1 /\ j \in Int
      BY <2>4, <1>1
    <3>2. A[j] = B[i] /\ B[i].catch \in Int
      BY <2>4, <1>5 DEF StepType
    <3>3. B[i].catch \in {0, RETURN} \/ i + B[i].catch \in 1 .. n + 1
      BY <3>1, <1>1, <1>2 DEF Annotated
    <3>4. B[i].catch \in {0, RETURN}
          \/ (j + B[i].catch \in 3 .. n + 3 /\ j + B[i].catch \in 1 .. n + 4 /\ (j + B[i].catch) - 2 = i + B[i].catch)
      <4> DEFINE c == B[i].catch
      <4>1. c \in Int /\ (c \in {0, RETURN} \/ (j - 2) + c \in 1 .. n + 1)
        BY <3>2, <3>3
      <4> HIDE DEF c
      <4>2. c \in {0, RETURN} \/ (j + c \in 3 .. n + 3 /\ j + c \in 1 .. n + 4 /\ (j + c) - 2 = (j - 2) + c)
        BY <3>1, <4>1, <1>1
      <4> QED BY <4>2 DEF c
    <3>5. Target(A, f, Closing, j) = Target(B, k, Closing, i)
      BY <3>2, <3>4, <1>6 DEF Target
    <3>6. f[j] = k[i] /\ f[j + 1] = k[i + 1]
      BY <3>1, <1>6
    <3>7. Sound(B[i], k[i], k[i + 1], Target(B, k, Closing, i))
      BY <3>1, <1>1, <1>2 DEF Annotated
    <3> QED BY <3>2, <3>4, <3>5, <3>6, <3>7
  <2> QED BY <2>1, <2>2, <2>3, <2>4, <1>1
<1>11. (n + 3) + 1 = n + 4 /\ n + 3 \in Nat
  BY <1>1
<1>12. Annotated(A, f, Closing)
  BY <1>5, <1>10, <1>11 DEF Annotated
<1> QED BY <1>3, <1>5, <1>6, <1>11, <1>12 DEF Leads

-----------------------------------------------------------------------------
(***************************************************************************)
(* stress-bankrun.  Once the used slots are read, the account may be any.  *)
(***************************************************************************)
Bare       == Drill("any", Users, Users \cup {OWN})
All(stage) == Drill(stage, Slots, Slots \cup {OWN})

LEMMA DrillGoes ==
  ASSUME NEW op \in OpNames \ (Tests \cup {"Take"}), NEW slot \in Int, NEW n \in Int, NEW c \in {0, 1, RETURN}, NEW v, NEW w,
         v.kind = "drill",
         DrillStep(Step(op, slot, n, c), v, w, IF c = 0 THEN Dead ELSE IF c = RETURN THEN Closing ELSE w)
  PROVE  Goes(Closing, Step(op, slot, n, c), v, w)
<1> DEFINE s == Step(op, slot, n, c)
<1>1. s \in StepType /\ s.op = op /\ s.catch = c
  <2>1. c \in Int
    BY DEF RETURN
  <2> QED BY <2>1, StepIs
<1>2. DrillStep(s, v, w, IF s.catch = 0 THEN Dead ELSE IF s.catch = RETURN THEN Closing ELSE w)
  BY <1>1
<1> HIDE DEF s
<1> QED BY <1>1, <1>2 DEF Goes, Sound, s

(* A new slab becomes a live market.                                       *)
LEMMA OwnMarketLeads == Leads(Closing, 4, Bare, OwnMarket, Working)
<1>1. /\ Bare.kind = "drill" /\ Bare.stage = "any" /\ Bare.todo = Users /\ Bare.idx = Users \cup {OWN}
      /\ Working.kind = "drill" /\ Working.stage = "live" /\ Working.todo = Users /\ Working.idx = Users \cup {OWN}
      /\ Dead.kind = "dead"
  BY DEF Drill, Dead, Working, Bare
<1>2. 0 \in Int /\ OWN \in Int /\ 0 \in Prices
  BY Numbers, PricesAre
<1>3. Goes(Closing, Do("CreateAccount", OWN, 0), Bare, Bare)
  <2> DEFINE s == Step("CreateAccount", OWN, 0, 0)
  <2>1. "CreateAccount" \in OpNames \ (Tests \cup {"Take"})
    BY DEF OpNames, Instructions, Tests
  <2>2. s.op = "CreateAccount"
    BY <1>2, StepIs
  <2> HIDE DEF s
  <2>3. DrillStep(s, Bare, Bare, Dead)
    BY <1>1, <2>2 DEF DrillStep, DrillOps, Instructions, DrillLegal, Reaches
  <2> QED BY <1>1, <1>2, <2>1, <2>3, DrillGoes DEF s, Do
<1>4. Goes(Closing, Do("InitMarket", OWN, 0), Bare, Working)
  <2> DEFINE s == Step("InitMarket", OWN, 0, 0)
  <2>1. "InitMarket" \in OpNames \ (Tests \cup {"Take"})
    BY DEF OpNames, Instructions, Tests
  <2>2. s.op = "InitMarket"
    BY <1>2, StepIs
  <2> HIDE DEF s
  <2>3. DrillStep(s, Bare, Working, Dead)
    BY <1>1, <2>2 DEF DrillStep, DrillOps, Instructions, DrillLegal, Reaches
  <2> QED BY <1>1, <1>2, <2>1, <2>3, DrillGoes DEF s, Do
<1>5. Goes(Closing, Do("SetOracleAuthority", OWN, 0), Working, Working) /\ Goes(Closing, Push(0), Working, Working)
  BY <1>2, LiveGoes DEF Do, Push, Working
<1> QED BY <1>3, <1>4, <1>5, Four DEF OwnMarket

(* The steps of stress-bankrun that need no loop.                          *)
LEMMA WorkingGoes ==
  /\ Goes(Closing, Do("InitLP", LP, 0), Working, Working)
  /\ Goes(Closing, Do("DepositCollateral", LP, 4), Working, Working)
  /\ Goes(Closing, Do("TopUpInsurance", OWN, 0), Working, Working)
  /\ Goes(Closing, Read, Working, Working) /\ Goes(Closing, crank, Working, Working)
  /\ \A p \in Prices : Goes(Closing, Push(p), Working, Working)
  /\ Goes(Closing, Try("TradeCpi", 1, 0), Working, Working)
<1>1. /\ LP \in Int /\ OWN \in Int /\ 0 \in Int /\ 4 \in Int /\ 1 \in Int /\ 4 \in Nat /\ 0 \in Nat /\ LP # OWN /\ 1 # OWN
      /\ LP \in Slots /\ 1 \in Slots \ {LP} /\ \A p \in Prices : p \in Int
  BY Natural, PricesAre DEF LP, OWN, Slots
<1>2. Goes(Closing, Step("InitLP", LP, 0, 0), Working, Working)
  BY <1>1, LiveGoes DEF Working
<1>3. Goes(Closing, Step("DepositCollateral", LP, 4, 0), Working, Working)
  BY <1>1, LiveGoes DEF Working
<1>4. Goes(Closing, Step("TopUpInsurance", OWN, 0, 0), Working, Working)
  BY <1>1, LiveGoes DEF Working
<1>5. Goes(Closing, Step("Read", OWN, 0, 0), Working, Working) /\ Goes(Closing, Step("KeeperCrank", OWN, 0, 0), Working, Working)
  BY <1>1, LiveGoes DEF Working
<1>6. ASSUME NEW p \in Prices PROVE Goes(Closing, Step("PushOraclePrice", OWN, p, 0), Working, Working)
  BY <1>1, LiveGoes DEF Working
<1>7. Goes(Closing, Step("TradeCpi", 1, 0, 1), Working, Working)
  BY <1>1, LiveGoes DEF Working
<1> QED BY <1>2, <1>3, <1>4, <1>5, <1>6, <1>7, Words, Writing

LEMMA LoopingGoes ==
  /\ Goes(Closing, Do("InitUser", OWN, 0), Looping, Looping)
  /\ Goes(Closing, Do("DepositCollateral", OWN, 1), Looping, Looping)
  /\ Goes(Closing, crank, Looping, Looping) /\ Goes(Closing, Push(0), Looping, Looping)
  /\ Goes(Closing, trade(2), Looping, Looping)
<1>1. /\ OWN \in Int /\ 0 \in Int /\ 1 \in Int /\ 2 \in Int /\ 1 \in Nat /\ 2 \in Nat /\ 0 \in Prices
      /\ Users \subseteq Slots /\ Users \subseteq Slots \ {LP}
  BY Numbers, PricesAre, UsersAre
<1>2. Goes(Closing, Step("InitUser", OWN, 0, 0), Looping, Looping)
  BY <1>1, LiveGoes DEF Looping
<1>3. Goes(Closing, Step("DepositCollateral", OWN, 1, 0), Looping, Looping)
  BY <1>1, LiveGoes DEF Looping
<1>4. Goes(Closing, Step("KeeperCrank", OWN, 0, 0), Looping, Looping) /\ Goes(Closing, Step("PushOraclePrice", OWN, 0, 0), Looping, Looping)
  BY <1>1, LiveGoes DEF Looping
<1>5. Goes(Closing, Step("TradeCpi", OWN, 2, 0), Looping, Looping)
  BY <1>1, LiveGoes DEF Looping
<1> QED BY <1>2, <1>3, <1>4, <1>5, Words, Writing

LEMMA BankSetupLeads == Leads(Closing, 4 + 1 + (1 + 3) + 1 + (1 + 3) + 2 + 2, Bare, BankSetup, Working)
<1> DEFINE I == Do("InitLP", LP, 0)
           U == ForUsers(<<Do("InitUser", OWN, 0)>>)
           D == Do("DepositCollateral", LP, 4)
           F == ForUsers(<<Do("DepositCollateral", OWN, 1)>>)
           T == Do("TopUpInsurance", OWN, 0)
<1>1. Leads(Closing, 1, Looping, <<Do("InitUser", OWN, 0)>>, Looping) /\ Leads(Closing, 1, Looping, <<Do("DepositCollateral", OWN, 1)>>, Looping)
  BY LoopingGoes, Single
<1>2. Leads(Closing, 1 + 3, Working, U, Working) /\ Leads(Closing, 1 + 3, Working, F, Working)
  <2>1. 1 < 90
    OBVIOUS
  <2> QED BY <1>1, <2>1, ForUsersLeads
<1>3. Leads(Closing, 1, Working, <<I>>, Working) /\ Leads(Closing, 1, Working, <<D>>, Working) /\ Leads(Closing, 2, Working, <<T, Read>>, Working)
  BY WorkingGoes, Single, Two
<1>4. Leads(Closing, 2, Working, Fresh(0), Working)
  <2>1. Goes(Closing, Push(0), Working, Working) /\ Goes(Closing, crank, Working, Working)
    BY WorkingGoes, PricesAre
  <2> QED BY <2>1, Two DEF Fresh
<1>5. Leads(Closing, 4, Bare, OwnMarket, Working)
  BY OwnMarketLeads
<1>6. BankSetup = OwnMarket \o <<I>> \o U \o <<D>> \o F \o <<T, Read>> \o Fresh(0)
  BY DEF BankSetup
<1> HIDE DEF I, U, D, F, T
<1>7. Leads(Closing, 4 + 1, Bare, OwnMarket \o <<I>>, Working)
  BY <1>3, <1>5, Chain
<1>8. Leads(Closing, 4 + 1 + (1 + 3), Bare, OwnMarket \o <<I>> \o U, Working)
  BY <1>2, <1>7, Chain
<1>9. Leads(Closing, 4 + 1 + (1 + 3) + 1, Bare, OwnMarket \o <<I>> \o U \o <<D>>, Working)
  BY <1>3, <1>8, Chain
<1>10. Leads(Closing, 4 + 1 + (1 + 3) + 1 + (1 + 3), Bare, OwnMarket \o <<I>> \o U \o <<D>> \o F, Working)
  BY <1>2, <1>9, Chain
<1>11. Leads(Closing, 4 + 1 + (1 + 3) + 1 + (1 + 3) + 2, Bare, OwnMarket \o <<I>> \o U \o <<D>> \o F \o <<T, Read>>, Working)
  BY <1>3, <1>10, Chain
<1>12. Leads(Closing, 4 + 1 + (1 + 3) + 1 + (1 + 3) + 2 + 2, Bare,
             OwnMarket \o <<I>> \o U \o <<D>> \o F \o <<T, Read>> \o Fresh(0), Working)
  BY <1>4, <1>11, Chain
<1> QED BY <1>6, <1>12

LEMMA OpenAllLeads == Leads(Closing, ((2 + 1) + 3) + 1, Working, OpenAll, Working)
<1>1. Leads(Closing, 2, Looping, Fresh(0), Looping) /\ Leads(Closing, 1, Looping, <<trade(2)>>, Looping)
  BY LoopingGoes, Single, Two DEF Fresh
<1>2. Leads(Closing, 2 + 1, Looping, Fresh(0) \o <<trade(2)>>, Looping)
  BY <1>1, Chain
<1>3. Leads(Closing, (2 + 1) + 3, Working, ForUsers(Fresh(0) \o <<trade(2)>>), Working)
  <2>1. 2 + 1 < 90
    OBVIOUS
  <2> QED BY <1>2, <2>1, ForUsersLeads
<1>4. Leads(Closing, 1, Working, <<Read>>, Working)
  BY WorkingGoes, Single
<1> QED BY <1>3, <1>4, Chain DEF OpenAll

LEMMA CrashLeads == Leads(Closing, ((1 + 2) + 2) + 1, Working, Crash, Working)
<1> DEFINE round == <<crank, Try("TradeCpi", 1, 0)>>
<1>1. -2 \in Prices
  BY PricesAre
<1>2. Leads(Closing, 1, Working, <<Push(-2)>>, Working) /\ Leads(Closing, 2, Working, round, Working)
      /\ Leads(Closing, 1, Working, <<Read>>, Working)
  <2>1. Goes(Closing, Push(-2), Working, Working)
    BY <1>1, WorkingGoes
  <2> QED BY <2>1, WorkingGoes, Single, Two
<1>3. Crash = <<Push(-2)>> \o round \o round \o <<Read>>
  BY DEF Crash
<1> HIDE DEF round
<1>4. Leads(Closing, 1 + 2, Working, <<Push(-2)>> \o round, Working)
  BY <1>2, Chain
<1>5. Leads(Closing, (1 + 2) + 2, Working, <<Push(-2)>> \o round \o round, Working)
  BY <1>2, <1>4, Chain
<1> QED BY <1>2, <1>3, <1>5, Chain

LEMMA LiquidateLeads == Leads(Closing, (((1 + 1) + 1) + 3) + 1, Working, Liquidate, Working)
<1> DEFINE r == Step("Read", OWN, 0, 3)
           t == Step("Flat", OWN, 0, 2)
           q == Step("LiquidateAtOracle", OWN, 0, 1)
<1>1. 0 \in Int /\ OWN \in Int /\ Users \subseteq Slots /\ 3 \in Int /\ 2 \in Int
  BY UsersAre, Numbers
<1>2. /\ r \in StepType /\ r.op = "Read" /\ r.slot = OWN /\ r.catch = (1 + 1) + 1
      /\ t \in StepType /\ t.op = "Flat" /\ t.slot = OWN /\ t.catch = 1 + 1
      /\ (1 + 1) + 1 # RETURN /\ 1 + 1 # RETURN
  <2>1. {"Read", "Flat"} \subseteq OpNames
    BY DEF OpNames, Reads, Tests
  <2> QED BY <1>1, <2>1, StepIs DEF RETURN
<1>3. Goes(Closing, q, Looping, Looping) /\ q \in StepType
  <2>1. Goes(Closing, q, Looping, Looping)
    BY <1>1, LiveGoes DEF Looping
  <2> QED BY <2>1 DEF Goes
<1>4. Looping.kind = "drill" /\ Looping.stage = "live" /\ Looping.todo = Users /\ Looping.idx = Users
  BY DEF Drill, Looping
<1>5. Liquidate = ForUsers(<<r, t, q>>) \o <<Read>>
  <2>1. [Read EXCEPT !.catch = 3] = r
    BY DEF Read, Do, Step
  <2>2. If("Flat", 2) = t /\ Try("LiquidateAtOracle", OWN, 0) = q
    BY DEF If, Try
  <2> HIDE DEF r, t, q
  <2> QED BY <2>1, <2>2 DEF Liquidate
<1> HIDE DEF r, t, q
<1>6. Sound(r, Looping, Looping, Looping) /\ Sound(t, Looping, Looping, Looping)
  <2>1. DrillStep(r, Looping, Looping, Looping)
    BY <1>2, <1>4 DEF DrillStep, DrillOps, DrillLegal, Reaches, FallsTo, LiveStages
  <2>2. DrillStep(t, Looping, Looping, Looping)
    BY <1>1, <1>2, <1>4 DEF DrillStep, DrillOps, DrillLegal, Reaches, FallsTo, LiveStages
  <2>3. r.catch # 0 /\ t.catch # 0
    BY <1>2
  <2> QED BY <1>2, <1>4, <2>1, <2>2, <2>3 DEF Sound
<1>7. Leads(Closing, 1 + 1, Looping, <<t>> \o <<q>>, Looping)
  BY <1>2, <1>3, <1>6, Single, Over
<1>8. Leads(Closing, (1 + 1) + 1, Looping, <<r>> \o (<<t>> \o <<q>>), Looping)
  BY <1>2, <1>6, <1>7, Over
<1>9. <<r, t, q>> = <<r>> \o (<<t>> \o <<q>>)
  BY <1>2, <1>3, JoinedSteps, Zenon
<1>10. Leads(Closing, ((1 + 1) + 1) + 3, Working, ForUsers(<<r, t, q>>), Working)
  <2>1. (1 + 1) + 1 < 90
    OBVIOUS
  <2> QED BY <1>8, <1>9, <2>1, ForUsersLeads
<1>11. Leads(Closing, 1, Working, <<Read>>, Working)
  BY WorkingGoes, Single
<1> QED BY <1>5, <1>10, <1>11, Chain

-----------------------------------------------------------------------------
(***************************************************************************)
(* The closes of stress-bankrun: a loop over the slots that were read,     *)
(* whose exceptions lead to the next slot.                                 *)
(***************************************************************************)
LEMMA BankRunLeads == Leads(Closing, 12, Working, BankRun, All("live"))
<1> DEFINE s1 == Step("PushOraclePrice", OWN, 0, 0)
           s2 == Step("KeeperCrank", OWN, 0, 0)
           s3 == Step("ReadUsed", OWN, 0, 0)
           s4 == Step("Take", OWN, 0, 8)
           s5 == Step("IsLp", OWN, 0, -1)
           s6 == Step("Read", OWN, 0, -2)
           s7 == Step("Unwind", OWN, 0, -3)
           s8 == Step("KeeperCrank", OWN, 0, -4)
           s9 == Step("CloseAccount", LP, 0, -5)
           s10 == Step("Say", OWN, 0, 0)
           s11 == Step("Go", OWN, 0, -7)
           s12 == Step("Read", OWN, 0, 0)
           W == All("live")
           L == Drill("live", Slots, Slots)
           N == Drill("live", Slots, Slots \ {LP})
           R == Drill("read", Slots, Slots \ {LP})
           A  == <<s1, s2, s3, s4, s5, s6, s7, s8, s9, s10, s11, s12>>
           f  == [j \in 1 .. 13 |-> CASE j \in 1 .. 3 -> Working [] j \in {4, 12, 13} -> W [] j = 5 -> L
                                      [] j = 7 -> R [] OTHER -> N]
<1>1. BankRun = A
  <2>1. /\ Push(0) = s1 /\ crank = s2 /\ Do("ReadUsed", OWN, 0) = s3 /\ If("IsLp", -1) = s5
        /\ [Read EXCEPT !.catch = -2] = s6 /\ [crank EXCEPT !.catch = -4] = s8
        /\ Step("CloseAccount", CLOSE_IDX, 0, -5) = s9 /\ Do("Say", OWN, 0) = s10 /\ Go(-7) = s11 /\ Read = s12
    BY DEF Push, crank, Do, If, Read, Go, Step, CLOSE_IDX, LP
  <2> HIDE DEF s1, s2, s3, s5, s6, s8, s9, s10, s11, s12
  <2> QED BY <2>1 DEF BankRun
<1>2. /\ s1 \in StepType /\ s1.op = "PushOraclePrice" /\ s1.slot = OWN /\ s1.n = 0 /\ s1.catch = 0
      /\ s2 \in StepType /\ s2.op = "KeeperCrank" /\ s2.catch = 0
      /\ s3 \in StepType /\ s3.op = "ReadUsed" /\ s3.catch = 0
      /\ s4 \in StepType /\ s4.op = "Take" /\ s4.catch = 8
      /\ s5 \in StepType /\ s5.op = "IsLp" /\ s5.catch = -1
      /\ s6 \in StepType /\ s6.op = "Read" /\ s6.catch = -2
      /\ s7 \in StepType /\ s7.op = "Unwind" /\ s7.slot = OWN /\ s7.catch = -3
      /\ s8 \in StepType /\ s8.op = "KeeperCrank" /\ s8.catch = -4
      /\ s9 \in StepType /\ s9.op = "CloseAccount" /\ s9.slot = LP /\ s9.catch = -5
      /\ s10 \in StepType /\ s10.op = "Say" /\ s10.slot = OWN /\ s10.catch = 0
      /\ s11 \in StepType /\ s11.op = "Go" /\ s11.catch = -7
      /\ s12 \in StepType /\ s12.op = "Read" /\ s12.catch = 0
  <2>1. {"PushOraclePrice", "KeeperCrank", "ReadUsed", "Take", "IsLp", "Read", "Unwind", "CloseAccount", "Say", "Go"} \subseteq OpNames
    BY DEF OpNames, Instructions, Reads, Tests
  <2>2. /\ 0 \in Int /\ 8 \in Int /\ -1 \in Int /\ -2 \in Int /\ -3 \in Int /\ -4 \in Int /\ -5 \in Int /\ -7 \in Int
        /\ OWN \in Int /\ LP \in Int
    BY Numbers
  <2> QED BY <2>1, <2>2, StepIs
<1>3. /\ Working.kind = "drill" /\ Working.stage = "live" /\ Working.todo = Users /\ Working.idx = Users \cup {OWN}
      /\ W.kind = "drill" /\ W.stage = "live" /\ W.todo = Slots /\ W.idx = Slots \cup {OWN}
      /\ L.kind = "drill" /\ L.stage = "live" /\ L.todo = Slots /\ L.idx = Slots
      /\ N.kind = "drill" /\ N.stage = "live" /\ N.todo = Slots /\ N.idx = Slots \ {LP}
      /\ R.kind = "drill" /\ R.stage = "read" /\ R.todo = Slots /\ R.idx = Slots \ {LP}
      /\ Dead.kind = "dead"
  BY DEF Drill, Working, All, Dead
<1>4. Users \subseteq Slots /\ Users \subseteq Slots \ {LP} /\ LP \in Slots
  BY UsersAre
<1> HIDE DEF s1, s2, s3, s4, s5, s6, s7, s8, s9, s10, s11, s12, W, L, N, R
<1>5. /\ f[1] = Working /\ f[2] = Working /\ f[3] = Working /\ f[4] = W /\ f[5] = L /\ f[6] = N /\ f[7] = R
      /\ f[8] = N /\ f[9] = N /\ f[10] = N /\ f[11] = N /\ f[12] = W /\ f[13] = W
  OBVIOUS
<1>6. /\ A \in Seq(StepType) /\ Len(A) = 12 /\ A[1] = s1 /\ A[2] = s2 /\ A[3] = s3 /\ A[4] = s4 /\ A[5] = s5 /\ A[6] = s6
      /\ A[7] = s7 /\ A[8] = s8 /\ A[9] = s9 /\ A[10] = s10 /\ A[11] = s11 /\ A[12] = s12
  BY <1>2
<1> HIDE DEF f, A
<1>7. 8 # RETURN /\ -1 # RETURN /\ -2 # RETURN /\ -3 # RETURN /\ -4 # RETURN /\ -5 # RETURN /\ -7 # RETURN /\ 0 # RETURN
  BY DEF RETURN
<1>8. 0 \in Prices
  BY PricesAre
<1>9. Sound(s1, Working, Working, Dead) /\ Sound(s2, Working, Working, Dead) /\ Sound(s3, Working, W, Dead)
  <2>1. DrillStep(s1, Working, Working, Dead)
    BY <1>2, <1>3, <1>8 DEF DrillStep, DrillOps, Instructions, DrillLegal, Reaches, FallsTo, LiveStages
  <2>2. DrillStep(s2, Working, Working, Dead)
    BY <1>2, <1>3 DEF DrillStep, DrillOps, Instructions, DrillLegal, Reaches, FallsTo, LiveStages
  <2>3. DrillStep(s3, Working, W, Dead)
    BY <1>2, <1>3, <1>4 DEF DrillStep, DrillOps, Instructions, DrillLegal, Reaches, FallsTo, LiveStages
  <2> QED BY <1>2, <1>3, <2>1, <2>2, <2>3 DEF Sound, Tests
<1>10. Sound(s4, W, L, W) /\ Sound(s5, L, N, W)
  <2>1. DrillStep(s4, W, L, W)
    BY <1>2, <1>3 DEF DrillStep, DrillOps, Instructions, DrillLegal, Reaches, FallsTo, LiveStages
  <2>2. DrillStep(s5, L, N, W)
    BY <1>2, <1>3 DEF DrillStep, DrillOps, Instructions, DrillLegal, Reaches, FallsTo, LiveStages
  <2> QED BY <1>2, <1>3, <2>1, <2>2 DEF Sound
<1>11. Sound(s6, N, R, W) /\ Sound(s7, R, N, W) /\ Sound(s8, N, N, W) /\ Sound(s9, N, N, W)
  <2>1. DrillStep(s6, N, R, W)
    BY <1>2, <1>3 DEF DrillStep, DrillOps, Instructions, DrillLegal, Reaches, FallsTo, LiveStages
  <2>2. DrillStep(s7, R, N, W)
    BY <1>2, <1>3 DEF DrillStep, DrillOps, Instructions, DrillLegal, Reaches, FallsTo, LiveStages
  <2>3. DrillStep(s8, N, N, W)
    BY <1>2, <1>3 DEF DrillStep, DrillOps, Instructions, DrillLegal, Reaches, FallsTo, LiveStages
  <2>4. DrillStep(s9, N, N, W)
    BY <1>2, <1>3, <1>4 DEF DrillStep, DrillOps, Instructions, DrillLegal, Reaches, FallsTo, LiveStages
  <2> QED BY <1>2, <1>3, <2>1, <2>2, <2>3, <2>4 DEF Sound, Tests
<1>12. Sound(s10, N, N, Dead) /\ Sound(s11, N, W, W) /\ Sound(s12, W, W, Dead)
  <2>1. DrillStep(s10, N, N, Dead)
    BY <1>2, <1>3 DEF DrillStep, DrillOps, Instructions, DrillLegal, Reaches, FallsTo, LiveStages
  <2>2. DrillStep(s11, N, W, W)
    BY <1>2, <1>3 DEF DrillStep, DrillOps, Instructions, DrillLegal, Reaches, FallsTo, LiveStages
  <2>3. DrillStep(s12, W, W, Dead)
    BY <1>2, <1>3 DEF DrillStep, DrillOps, Instructions, DrillLegal, Reaches, FallsTo, LiveStages
  <2> QED BY <1>2, <1>3, <2>1, <2>2, <2>3 DEF Sound, Tests
<1>13. /\ Target(A, f, Closing, 1) = Dead /\ Target(A, f, Closing, 2) = Dead /\ Target(A, f, Closing, 3) = Dead
       /\ Target(A, f, Closing, 10) = Dead /\ Target(A, f, Closing, 12) = Dead
  BY <1>2, <1>6 DEF Target
<1>14. /\ Target(A, f, Closing, 4) = W /\ Target(A, f, Closing, 5) = W /\ Target(A, f, Closing, 6) = W
       /\ Target(A, f, Closing, 7) = W /\ Target(A, f, Closing, 8) = W /\ Target(A, f, Closing, 9) = W
       /\ Target(A, f, Closing, 11) = W
  BY <1>2, <1>5, <1>6, <1>7 DEF Target
<1>15. Annotated(A, f, Closing)
  <2>1. ASSUME NEW j \in 1 .. 12
        PROVE  /\ A[j].catch \in {0, RETURN} \/ j + A[j].catch \in 1 .. 12 + 1
               /\ Sound(A[j], f[j], f[j + 1], Target(A, f, Closing, j))
    <3>1. CASE j = 1
      BY <3>1, <1>2, <1>5, <1>6, <1>9, <1>13
    <3>2. CASE j = 2
      BY <3>2, <1>2, <1>5, <1>6, <1>9, <1>13
    <3>3. CASE j = 3
      BY <3>3, <1>2, <1>5, <1>6, <1>9, <1>13
    <3>4. CASE j = 4
      BY <3>4, <1>2, <1>5, <1>6, <1>10, <1>14
    <3>5. CASE j = 5
      BY <3>5, <1>2, <1>5, <1>6, <1>10, <1>14
    <3>6. CASE j = 6
      BY <3>6, <1>2, <1>5, <1>6, <1>11, <1>14
    <3>7. CASE j = 7
      BY <3>7, <1>2, <1>5, <1>6, <1>11, <1>14
    <3>8. CASE j = 8
      BY <3>8, <1>2, <1>5, <1>6, <1>11, <1>14
    <3>9. CASE j = 9
      BY <3>9, <1>2, <1>5, <1>6, <1>11, <1>14
    <3>10. CASE j = 10
      BY <3>10, <1>2, <1>5, <1>6, <1>12, <1>13
    <3>11. CASE j = 11
      BY <3>11, <1>2, <1>5, <1>6, <1>12, <1>14
    <3>12. CASE j = 12
      BY <3>12, <1>2, <1>5, <1>6, <1>12, <1>13
    <3> QED BY <3>1, <3>2, <3>3, <3>4, <3>5, <3>6, <3>7, <3>8, <3>9, <3>10, <3>11, <3>12
  <2> QED BY <1>6, <2>1 DEF Annotated
<1>16. f[12 + 1] = W
  BY <1>5
<1>17. Leads(Closing, 12, Working, A, W)
  BY <1>5, <1>6, <1>15, <1>16 DEF Leads
<1> QED BY <1>1, <1>17 DEF W

(* The forced closes of a resolved market, that may be refused or not.     *)
LEMMA ForceCloseLeads ==
  ASSUME NEW stage \in ResolvedStages, NEW c \in {-1, 0}
  PROVE  Leads(Closing, 4, All(stage), ForceCloseAll(c), All("empty"))
<1> DEFINE s1 == Step("ReadUsed", OWN, 0, 0)
           s2 == Step("Take", OWN, 0, 3)
           s3 == Step("AdminForceCloseAccount", OWN, 0, c)
           s4 == Step("Go", OWN, 0, -2)
           V == All(stage)
           L == All("listed")
           T == Drill("taken", Slots, Slots)
           E == All("empty")
           A == <<s1, s2, s3, s4>>
           f == [j \in 1 .. 5 |-> CASE j = 1 -> V [] j \in {2, 4} -> L [] j = 3 -> T [] j = 5 -> E]
<1>1. ForceCloseAll(c) = A
  BY DEF ForceCloseAll, Do, Go
<1>2. /\ s1 \in StepType /\ s1.op = "ReadUsed" /\ s1.catch = 0
      /\ s2 \in StepType /\ s2.op = "Take" /\ s2.catch = 3
      /\ s3 \in StepType /\ s3.op = "AdminForceCloseAccount" /\ s3.slot = OWN /\ s3.catch = c
      /\ s4 \in StepType /\ s4.op = "Go" /\ s4.catch = -2
  <2>1. {"ReadUsed", "Take", "AdminForceCloseAccount", "Go"} \subseteq OpNames
    BY DEF OpNames, Instructions, Reads, Tests
  <2>2. 0 \in Int /\ 3 \in Int /\ -2 \in Int /\ OWN \in Int /\ c \in Int
    BY Numbers
  <2> QED BY <2>1, <2>2, StepIs
<1>3. /\ V.kind = "drill" /\ V.stage = stage /\ V.todo = Slots /\ V.idx = Slots \cup {OWN}
      /\ L.kind = "drill" /\ L.stage = "listed" /\ L.todo = Slots /\ L.idx = Slots \cup {OWN}
      /\ T.kind = "drill" /\ T.stage = "taken" /\ T.todo = Slots /\ T.idx = Slots
      /\ E.kind = "drill" /\ E.stage = "empty" /\ E.todo = Slots /\ E.idx = Slots \cup {OWN}
      /\ Dead.kind = "dead"
  BY DEF Drill, All, Dead
<1> HIDE DEF s1, s2, s3, s4, V, L, T, E
<1>4. f[1] = V /\ f[2] = L /\ f[3] = T /\ f[4] = L /\ f[5] = E
  OBVIOUS
<1>5. A \in Seq(StepType) /\ Len(A) = 4 /\ A[1] = s1 /\ A[2] = s2 /\ A[3] = s3 /\ A[4] = s4
  BY <1>2
<1> HIDE DEF f, A
<1>6. 3 # RETURN /\ -1 # RETURN /\ -2 # RETURN /\ 0 # RETURN /\ -1 # 0
  BY DEF RETURN
<1>7. Sound(s1, V, L, Dead) /\ Sound(s2, L, T, E) /\ Sound(s3, T, L, IF c = 0 THEN Dead ELSE L) /\ Sound(s4, L, E, L)
  <2>1. DrillStep(s1, V, L, Dead)
    BY <1>2, <1>3 DEF DrillStep, DrillOps, DrillLegal, Reaches
  <2>2. DrillStep(s2, L, T, E)
    BY <1>2, <1>3 DEF DrillStep, DrillOps, DrillLegal, Reaches, FallsTo
  <2>3. DrillStep(s3, T, L, IF c = 0 THEN Dead ELSE L)
    <3>1. CASE c = 0
      BY <1>2, <1>3, <3>1 DEF DrillStep, DrillOps, Instructions, DrillLegal, Reaches
    <3>2. CASE c # 0
      BY <1>2, <1>3, <3>2 DEF DrillStep, DrillOps, Instructions, DrillLegal, Reaches, FallsTo
    <3> QED BY <3>1, <3>2
  <2>4. DrillStep(s4, L, E, L)
    BY <1>2, <1>3 DEF DrillStep, DrillOps, DrillLegal, FallsTo
  <2> QED BY <1>2, <1>3, <2>1, <2>2, <2>3, <2>4 DEF Sound, Tests
<1>8. /\ Target(A, f, Closing, 1) = Dead /\ Target(A, f, Closing, 2) = E
      /\ Target(A, f, Closing, 3) = (IF c = 0 THEN Dead ELSE L) /\ Target(A, f, Closing, 4) = L
  <2>1. Target(A, f, Closing, 3) = (IF c = 0 THEN Dead ELSE L)
    <3>1. CASE c = 0
      BY <3>1, <1>2, <1>5 DEF Target
    <3>2. CASE c = -1
      BY <3>2, <1>2, <1>4, <1>5, <1>6 DEF Target
    <3> QED BY <3>1, <3>2
  <2> QED BY <2>1, <1>2, <1>4, <1>5, <1>6 DEF Target
<1>9. Annotated(A, f, Closing)
  <2>1. ASSUME NEW j \in 1 .. 4
        PROVE  /\ A[j].catch \in {0, RETURN} \/ j + A[j].catch \in 1 .. 4 + 1
               /\ Sound(A[j], f[j], f[j + 1], Target(A, f, Closing, j))
    <3>1. j = 1 \/ j = 2 \/ j = 3 \/ j = 4
      OBVIOUS
    <3> QED BY <3>1, <1>2, <1>4, <1>5, <1>7, <1>8
  <2> QED BY <1>5, <2>1 DEF Annotated
<1>10. f[4 + 1] = E
  BY <1>4
<1>11. Leads(Closing, 4, V, A, E)
  BY <1>4, <1>5, <1>9, <1>10 DEF Leads
<1> QED BY <1>1, <1>11 DEF V, E

-----------------------------------------------------------------------------
(***************************************************************************)
(* The shut-down, and the drills as a whole.                               *)
(***************************************************************************)
EndOps == {"PushOraclePrice", "KeeperCrank", "ResolveMarket", "WithdrawInsurance", "CloseSlab", "Read"}

LEMMA EndGoes ==
  ASSUME NEW op \in EndOps, NEW n \in Prices, NEW c \in {0, 1, RETURN}, NEW from, NEW to, to # "read", Reaches(op, from, to),
         c = 1 => FallsTo(op, from, to), c = RETURN => FallsTo(op, from, "closed")
  PROVE  Goes(Closing, Step(op, OWN, n, c), All(from), All(to))
<1> DEFINE s == Step(op, OWN, n, c)
           v == All(from)
           w == All(to)
           off == IF c = 0 THEN Dead ELSE IF c = RETURN THEN Closing ELSE w
<1>1. op \in OpNames \ (Tests \cup {"Take"}) /\ op \in DrillOps
      /\ op \notin {"Go", "ReadUsed", "Each", "Take", "IsLp", "Flat", "DepositCollateral", "TradeCpi", "Unwind", "CloseAccount",
                    "AdminForceCloseAccount", "Say"}
  BY DEF OpNames, Instructions, Reads, Tests, DrillOps, EndOps
<1>2. n \in Int /\ OWN \in Int /\ c \in Int /\ RETURN # 0 /\ RETURN # 1
  BY PricesAre, Numbers DEF RETURN
<1>3. s.op = op /\ s.slot = OWN /\ s.n = n
  BY <1>2, StepIs
<1>4. /\ v.kind = "drill" /\ v.stage = from /\ v.todo = Slots /\ v.idx = Slots \cup {OWN}
      /\ w.kind = "drill" /\ w.stage = to /\ w.todo = Slots /\ w.idx = Slots \cup {OWN}
      /\ Closing.kind = "drill" /\ Closing.stage = "closed" /\ Closing.todo = Slots /\ Closing.idx = Slots \cup {OWN}
      /\ Dead.kind = "dead"
  BY DEF Drill, All, Closing, Dead
<1> HIDE DEF s, v, w
<1>5. DrillLegal(s, v)
  BY <1>1, <1>3, <1>4 DEF DrillLegal
<1>6. DrillStep(s, v, w, off)
  <2>1. CASE c = 0
    BY <2>1, <1>1, <1>3, <1>4, <1>5 DEF DrillStep
  <2>2. CASE c = 1
    BY <2>2, <1>1, <1>2, <1>3, <1>4, <1>5 DEF DrillStep
  <2>3. CASE c = RETURN
    BY <2>3, <1>1, <1>2, <1>3, <1>4, <1>5 DEF DrillStep
  <2> QED BY <2>1, <2>2, <2>3
<1> QED BY <1>1, <1>2, <1>4, <1>6, DrillGoes DEF s, v, w

LEMMA EndWords ==
  /\ [Push(0) EXCEPT !.catch = RETURN] = Step("PushOraclePrice", OWN, 0, RETURN)
  /\ Caught(crank) = Step("KeeperCrank", OWN, 0, 1)
  /\ Try("WithdrawInsurance", OWN, 0) = Step("WithdrawInsurance", OWN, 0, 1)
  /\ Do("WithdrawInsurance", OWN, 0) = Step("WithdrawInsurance", OWN, 0, 0)
  /\ Try("CloseSlab", OWN, 0) = Step("CloseSlab", OWN, 0, 1) /\ Do("CloseSlab", OWN, 0) = Step("CloseSlab", OWN, 0, 0)
  /\ Do("ResolveMarket", OWN, 0) = Step("ResolveMarket", OWN, 0, 0)
BY DEF Push, Caught, crank, Try, Do, Step

LEMMA ShutDownLeads == Leads(Closing, (((3 + 4) + 2) + 4) + 3, All("live"), ShutDown, All("closed"))
<1> DEFINE p == Step("PushOraclePrice", OWN, 0, RETURN)
           r == Step("ResolveMarket", OWN, 0, RETURN)
           k == Step("KeeperCrank", OWN, 0, 1)
           i == Step("WithdrawInsurance", OWN, 0, 1)
           q == Step("Read", OWN, 0, 0)
           c == Step("CloseSlab", OWN, 0, 1)
           F == ForceCloseAll(-1)
<1>1. ShutDown = <<p, r, k>> \o F \o <<i, q>> \o F \o <<i, q, c>>
  <2>1. Read = q
    BY Words
  <2> HIDE DEF F, q
  <2> QED BY <2>1, EndWords DEF ShutDown, F
<1>2. 0 \in Prices /\ EndOps = {"PushOraclePrice", "KeeperCrank", "ResolveMarket", "WithdrawInsurance", "CloseSlab", "Read"}
      /\ RETURN # 0 /\ RETURN # 1
  BY PricesAre, Numbers DEF EndOps
<1>3. Goes(Closing, p, All("live"), All("live"))
  <2>1. Reaches("PushOraclePrice", "live", "live") /\ FallsTo("PushOraclePrice", "live", "closed")
    BY DEF Reaches, FallsTo, Sure, LiveStages
  <2> QED BY <1>2, <2>1, EndGoes
<1>4. Goes(Closing, r, All("live"), All("resolved"))
  <2>1. Reaches("ResolveMarket", "live", "resolved") /\ FallsTo("ResolveMarket", "live", "closed")
    BY DEF Reaches, FallsTo, Sure, LiveStages
  <2> QED BY <1>2, <2>1, EndGoes
<1>5. Goes(Closing, k, All("resolved"), All("resolved"))
  <2>1. Reaches("KeeperCrank", "resolved", "resolved") /\ FallsTo("KeeperCrank", "resolved", "resolved")
    BY DEF Reaches, FallsTo, ResolvedStages
  <2> QED BY <1>2, <2>1, EndGoes
<1>6. Goes(Closing, i, All("empty"), All("paid"))
  <2>1. Reaches("WithdrawInsurance", "empty", "paid") /\ FallsTo("WithdrawInsurance", "empty", "paid")
    BY DEF Reaches, FallsTo, Sure
  <2> QED BY <1>2, <2>1, EndGoes
<1>7. Goes(Closing, q, All("paid"), All("paid"))
  <2>1. Reaches("Read", "paid", "paid")
    BY DEF Reaches
  <2> QED BY <1>2, <2>1, EndGoes
<1>8. Goes(Closing, c, All("paid"), All("closed"))
  <2>1. Reaches("CloseSlab", "paid", "closed") /\ FallsTo("CloseSlab", "paid", "closed")
    BY DEF Reaches, FallsTo, Sure
  <2> QED BY <1>2, <2>1, EndGoes
<1>9. Leads(Closing, 4, All("resolved"), F, All("empty")) /\ Leads(Closing, 4, All("paid"), F, All("empty"))
  <2>1. "resolved" \in ResolvedStages /\ "paid" \in ResolvedStages /\ -1 \in {-1, 0}
    BY DEF ResolvedStages
  <2> QED BY <2>1, ForceCloseLeads
<1> HIDE DEF p, r, k, i, q, c, F
<1>10. /\ Leads(Closing, 3, All("live"), <<p, r, k>>, All("resolved")) /\ Leads(Closing, 2, All("empty"), <<i, q>>, All("paid"))
       /\ Leads(Closing, 3, All("empty"), <<i, q, c>>, All("closed"))
  BY <1>3, <1>4, <1>5, <1>6, <1>7, <1>8, Two, Three
<1>11. Leads(Closing, 3 + 4, All("live"), <<p, r, k>> \o F, All("empty"))
  BY <1>9, <1>10, Chain
<1>12. Leads(Closing, (3 + 4) + 2, All("live"), <<p, r, k>> \o F \o <<i, q>>, All("paid"))
  BY <1>10, <1>11, Chain
<1>13. Leads(Closing, ((3 + 4) + 2) + 4, All("live"), <<p, r, k>> \o F \o <<i, q>> \o F, All("empty"))
  BY <1>9, <1>12, Chain
<1>14. Leads(Closing, (((3 + 4) + 2) + 4) + 3, All("live"), <<p, r, k>> \o F \o <<i, q>> \o F \o <<i, q, c>>, All("closed"))
  BY <1>10, <1>13, Chain
<1> QED BY <1>1, <1>14

LEMMA BankLeads == \E n \in 0 .. 98 : Leads(Closing, n, Bare, bankrun[1], Closing)
<1> DEFINE n1 == 4 + 1 + (1 + 3) + 1 + (1 + 3) + 2 + 2
           n2 == ((2 + 1) + 3) + 1
           n3 == ((1 + 2) + 2) + 1
           n4 == (((1 + 1) + 1) + 3) + 1
           n5 == 12
           n6 == (((3 + 4) + 2) + 4) + 3
<1>1. /\ Leads(Closing, n1, Bare, BankSetup, Working) /\ Leads(Closing, n2, Working, OpenAll, Working)
      /\ Leads(Closing, n3, Working, Crash, Working) /\ Leads(Closing, n4, Working, Liquidate, Working)
      /\ Leads(Closing, n5, Working, BankRun, All("live")) /\ Leads(Closing, n6, All("live"), ShutDown, Closing)
  BY BankSetupLeads, OpenAllLeads, CrashLeads, LiquidateLeads, BankRunLeads, ShutDownLeads DEF All, Closing
<1>2. n1 + n2 + n3 + n4 + n5 + n6 \in 0 .. 98
  OBVIOUS
<1> HIDE DEF n1, n2, n3, n4, n5, n6
<1>3. Leads(Closing, n1 + n2, Bare, BankSetup \o OpenAll, Working)
  BY <1>1, Chain
<1>4. Leads(Closing, n1 + n2 + n3, Bare, BankSetup \o OpenAll \o Crash, Working)
  BY <1>1, <1>3, Chain
<1>5. Leads(Closing, n1 + n2 + n3 + n4, Bare, BankSetup \o OpenAll \o Crash \o Liquidate, Working)
  BY <1>1, <1>4, Chain
<1>6. Leads(Closing, n1 + n2 + n3 + n4 + n5, Bare, BankSetup \o OpenAll \o Crash \o Liquidate \o BankRun, All("live"))
  BY <1>1, <1>5, Chain
<1>7. Leads(Closing, n1 + n2 + n3 + n4 + n5 + n6, Bare, BankSetup \o OpenAll \o Crash \o Liquidate \o BankRun \o ShutDown, Closing)
  BY <1>1, <1>6, Chain
<1>8. bankrun[1] = BankSetup \o OpenAll \o Crash \o Liquidate \o BankRun \o ShutDown
  BY DEF bankrun
<1> QED BY <1>2, <1>7, <1>8

-----------------------------------------------------------------------------
(* live-verify.                                                            *)
LEMMA CalmGoes ==
  ASSUME NEW op \in OpNames \ (Tests \cup {"Take"}), NEW slot \in Int, NEW n \in Int, NEW c \in {0, RETURN}, NEW stage, NEW w,
         CalmStep(Step(op, slot, n, c), Calm(stage), w, IF c = 0 THEN Dead ELSE Closing)
  PROVE  Goes(Closing, Step(op, slot, n, c), Calm(stage), w)
<1> DEFINE s == Step(op, slot, n, c)
           v == Calm(stage)
<1>1. s \in StepType /\ s.op = op /\ s.catch = c
  <2>1. c \in Int
    BY DEF RETURN
  <2> QED BY <2>1, StepIs
<1>2. CalmStep(s, v, w, IF s.catch = 0 THEN Dead ELSE IF s.catch = RETURN THEN Closing ELSE w) /\ s.catch \in {0, 1, RETURN}
  BY <1>1, Numbers
<1>3. v.kind = "calm"
  BY DEF Calm
<1> HIDE DEF s, v
<1> QED BY <1>1, <1>2, <1>3 DEF Goes, Sound, s, v

LEMMA CalmDead ==
  /\ Dead.kind = "dead" /\ \A stage : Calm(stage).kind = "calm" /\ Calm(stage).stage = stage
  /\ Closing.kind = "drill" /\ Closing.stage = "closed" /\ 1 \in Closing.idx
<1>1. 1 \in Slots
  BY Natural DEF Slots, LP
<1> QED BY <1>1 DEF Dead, Calm, Closing, Drill

LEMMA FlatGoes ==
  ASSUME NEW op \in {"CreateAccount", "InitMarket", "SetOracleAuthority", "PushOraclePrice", "KeeperCrank",
                     "InitLP", "InitUser", "DepositCollateral", "TopUpInsurance", "Read"},
         NEW slot \in Int, NEW n \in Nat, op = "PushOraclePrice" => n = 0, op = "DepositCollateral" => slot \in {LP, 1}
  PROVE  Goes(Closing, Step(op, slot, n, 0), Calm("flat"), Calm("flat"))
<1> DEFINE s == Step(op, slot, n, 0)
<1>1. op \in OpNames \ (Tests \cup {"Take"}) /\ n \in Int
  BY DEF OpNames, Instructions, Reads, Tests
<1>2. s.op = op /\ s.slot = slot /\ s.n = n /\ s.catch = 0
  BY <1>1, StepIs
<1> HIDE DEF s
<1>3. CalmStep(s, Calm("flat"), Calm("flat"), Dead)
  BY <1>2, CalmDead DEF CalmStep
<1> QED BY <1>1, <1>3, CalmGoes DEF s

LEMMA OpenGoesOn ==
  ASSUME NEW op \in {"PushOraclePrice", "KeeperCrank", "Read", "WithdrawCollateral"}, NEW slot \in Int,
         op = "WithdrawCollateral" => slot = 1, NEW stage \in {"open", "picked"}, stage = "picked" => op \in {"PushOraclePrice", "KeeperCrank"}
  PROVE  Goes(Closing, Step(op, slot, 0, 0), Calm(stage), Calm(stage))
<1> DEFINE s == Step(op, slot, 0, 0)
<1>1. op \in OpNames \ (Tests \cup {"Take"}) /\ 0 \in Int
  BY DEF OpNames, Instructions, Reads, Tests
<1>2. s.op = op /\ s.slot = slot /\ s.n = 0 /\ s.catch = 0
  BY <1>1, StepIs
<1> HIDE DEF s
<1>3. CalmStep(s, Calm(stage), Calm(stage), Dead)
  BY <1>2, CalmDead DEF CalmStep
<1> QED BY <1>1, <1>3, CalmGoes DEF s

(* The steps that move on.                                                 *)
LEMMA VerifyGoes ==
  /\ Goes(Closing, Step("TradeCpi", 1, 1, 0), Calm("flat"), Calm("open"))
  /\ Goes(Closing, Step("Read", OWN, 0, 0), Calm("open"), Calm("known"))
  /\ Goes(Closing, Step("Pick", 1, 0, 0), Calm("known"), Calm("picked"))
  /\ Goes(Closing, Step("Unwind", OWN, 0, RETURN), Calm("picked"), Calm("unwound"))
  /\ Goes(Closing, Step("Read", OWN, 0, 0), Calm("unwound"), Calm("unwound"))
  /\ Goes(Closing, Step("KeeperCrank", OWN, 0, 0), Calm("unwound"), Calm("unwound"))
<1>1. {"TradeCpi", "Read", "Pick", "Unwind", "KeeperCrank"} \subseteq OpNames \ (Tests \cup {"Take"})
  BY DEF OpNames, Instructions, Reads, Tests
<1>2. 0 \in Int /\ 1 \in Int /\ OWN \in Int /\ RETURN \in Int /\ RETURN # 0
  BY Numbers
<1>3. Goes(Closing, Step("TradeCpi", 1, 1, 0), Calm("flat"), Calm("open"))
  <2> DEFINE s == Step("TradeCpi", 1, 1, 0)
  <2>1. s.op = "TradeCpi" /\ s.slot = 1 /\ s.n = 1 /\ s.catch = 0
    BY <1>2, StepIs
  <2> HIDE DEF s
  <2>2. CalmStep(s, Calm("flat"), Calm("open"), Dead)
    BY <2>1, CalmDead DEF CalmStep
  <2> QED BY <1>1, <1>2, <2>2, CalmGoes DEF s
<1>4. Goes(Closing, Step("Read", OWN, 0, 0), Calm("open"), Calm("known"))
  <2> DEFINE s == Step("Read", OWN, 0, 0)
  <2>1. s.op = "Read" /\ s.catch = 0
    BY <1>2, StepIs
  <2> HIDE DEF s
  <2>2. CalmStep(s, Calm("open"), Calm("known"), Dead)
    BY <2>1, CalmDead DEF CalmStep
  <2> QED BY <1>1, <1>2, <2>2, CalmGoes DEF s
<1>5. Goes(Closing, Step("Pick", 1, 0, 0), Calm("known"), Calm("picked"))
  <2> DEFINE s == Step("Pick", 1, 0, 0)
  <2>1. s.op = "Pick" /\ s.slot = 1
    BY <1>2, StepIs
  <2> HIDE DEF s
  <2>2. CalmStep(s, Calm("known"), Calm("picked"), Dead)
    BY <2>1, CalmDead DEF CalmStep
  <2> QED BY <1>1, <1>2, <2>2, CalmGoes DEF s
<1>6. Goes(Closing, Step("Unwind", OWN, 0, RETURN), Calm("picked"), Calm("unwound"))
  <2> DEFINE s == Step("Unwind", OWN, 0, RETURN)
  <2>1. s.op = "Unwind" /\ s.slot = OWN
    BY <1>2, StepIs
  <2> HIDE DEF s
  <2>2. CalmStep(s, Calm("picked"), Calm("unwound"), Closing)
    BY <2>1, CalmDead DEF CalmStep
  <2> QED BY <1>1, <1>2, <2>2, CalmGoes DEF s
<1>7. Goes(Closing, Step("Read", OWN, 0, 0), Calm("unwound"), Calm("unwound"))
  <2> DEFINE s == Step("Read", OWN, 0, 0)
  <2>1. s.op = "Read" /\ s.catch = 0
    BY <1>2, StepIs
  <2> HIDE DEF s
  <2>2. CalmStep(s, Calm("unwound"), Calm("unwound"), Dead)
    BY <2>1, CalmDead DEF CalmStep
  <2> QED BY <1>1, <1>2, <2>2, CalmGoes DEF s
<1>8. Goes(Closing, Step("KeeperCrank", OWN, 0, 0), Calm("unwound"), Calm("unwound"))
  <2> DEFINE s == Step("KeeperCrank", OWN, 0, 0)
  <2>1. s.op = "KeeperCrank" /\ s.catch = 0
    BY <1>2, StepIs
  <2> HIDE DEF s
  <2>2. CalmStep(s, Calm("unwound"), Calm("unwound"), Dead)
    BY <2>1, CalmDead DEF CalmStep
  <2> QED BY <1>1, <1>2, <2>2, CalmGoes DEF s
<1> QED BY <1>3, <1>4, <1>5, <1>6, <1>7, <1>8

(* A close ends the calm; so does saying so.                               *)
LEMMA SaysGoes ==
  LET S == Drill("any", Slots, Slots)
  IN  /\ Goes(Closing, Step("CloseAccount", CLOSE_IDX, 0, RETURN), Calm("unwound"), S)
      /\ Goes(Closing, Step("Say", OWN, 0, 0), S, All("any"))
<1> DEFINE S == Drill("any", Slots, Slots)
           s == Step("CloseAccount", LP, 0, RETURN)
           t == Step("Say", OWN, 0, 0)
<1>1. "CloseAccount" \in OpNames \ (Tests \cup {"Take"}) /\ "Say" \in OpNames \ (Tests \cup {"Take"})
  BY DEF OpNames, Instructions, Tests
<1>2. 0 \in Int /\ OWN \in Int /\ LP \in Int /\ RETURN \in Int /\ RETURN # 0 /\ CLOSE_IDX = LP /\ 1 \in Slots
  BY Natural, Numbers DEF CLOSE_IDX, LP, Slots
<1>3. s.op = "CloseAccount" /\ s.slot = LP /\ t.op = "Say" /\ t.slot = OWN
  BY <1>2, StepIs
<1>4. S.kind = "drill" /\ S.stage = "any" /\ S.todo = Slots /\ S.idx = Slots
      /\ All("any").kind = "drill" /\ All("any").stage = "any" /\ All("any").todo = Slots /\ All("any").idx = Slots \cup {OWN}
  BY DEF Drill, All
<1> HIDE DEF S, s, t
<1>5. CalmStep(s, Calm("unwound"), S, Closing)
  BY <1>2, <1>3, <1>4, CalmDead DEF CalmStep
<1>6. DrillStep(t, S, All("any"), Dead)
  BY <1>3, <1>4, CalmDead DEF DrillStep, DrillOps, DrillLegal, Reaches
<1>7. Goes(Closing, s, Calm("unwound"), S)
  BY <1>1, <1>2, <1>5, CalmGoes DEF s
<1>8. Goes(Closing, t, S, All("any"))
  BY <1>1, <1>2, <1>4, <1>6, DrillGoes DEF t
<1> QED BY <1>2, <1>7, <1>8 DEF S, s, t

-----------------------------------------------------------------------------
(* The market, its accounts and their funds.                               *)
LEMMA VerifyOpens ==
  /\ Leads(Closing, 4 + 2, Calm("flat"), VerifyMarket, Calm("flat"))
  /\ Leads(Closing, 3, Calm("flat"), VerifyAccounts, Calm("flat"))
  /\ Leads(Closing, 5, Calm("flat"), VerifyFunds, Calm("flat"))
<1> DEFINE F == Calm("flat")
<1>1. LP \in Int /\ OWN \in Int /\ 1 \in Int /\ 0 \in Nat /\ 2 \in Nat
  BY Numbers
<1>2. /\ Goes(Closing, Do("CreateAccount", OWN, 0), F, F) /\ Goes(Closing, Do("InitMarket", OWN, 0), F, F)
      /\ Goes(Closing, Do("SetOracleAuthority", OWN, 0), F, F) /\ Goes(Closing, Do("TopUpInsurance", OWN, 0), F, F)
  BY <1>1, FlatGoes, Writing
<1>3. Goes(Closing, Push(0), F, F) /\ Goes(Closing, crank, F, F) /\ Goes(Closing, Read, F, F)
  BY <1>1, FlatGoes, Words
<1>4. Goes(Closing, Do("InitLP", LP, 0), F, F) /\ Goes(Closing, Do("InitUser", OWN, 0), F, F)
  BY <1>1, FlatGoes, Writing
<1>5. Goes(Closing, Do("DepositCollateral", LP, 2), F, F) /\ Goes(Closing, Do("DepositCollateral", 1, 2), F, F)
  <2>1. LP \in {LP, 1} /\ 1 \in {LP, 1}
    OBVIOUS
  <2>2. Goes(Closing, Step("DepositCollateral", LP, 2, 0), F, F)
    BY <1>1, <2>1, FlatGoes
  <2>3. Goes(Closing, Step("DepositCollateral", 1, 2, 0), F, F)
    BY <1>1, <2>1, FlatGoes
  <2> HIDE DEF F
  <2> QED BY <2>2, <2>3, Writing
<1> HIDE DEF F
<1>6. Leads(Closing, 4, F, OwnMarket, F)
  BY <1>2, <1>3, Four DEF OwnMarket
<1>7. Leads(Closing, 2, F, <<crank, Read>>, F)
  BY <1>3, Two
<1>8. Leads(Closing, 4 + 2, F, VerifyMarket, F)
  BY <1>6, <1>7, Chain DEF VerifyMarket
<1>9. Leads(Closing, 3, F, VerifyAccounts, F)
  BY <1>3, <1>4, Three DEF VerifyAccounts
<1>10. Leads(Closing, 5, F, VerifyFunds, F)
  BY <1>2, <1>3, <1>5, Five DEF VerifyFunds
<1> QED BY <1>8, <1>9, <1>10 DEF F

(* The trade, the withdrawal and the bank run.                             *)
LEMMA VerifyTrades ==
  /\ Leads(Closing, 4, Calm("flat"), VerifyTrade, Calm("open"))
  /\ Leads(Closing, 2 + 3, Calm("open"), VerifyWithdraw, Calm("open"))
  /\ Leads(Closing, (2 + 2) + 6, Calm("open"), VerifyBankRun, All("any"))
<1> DEFINE F == Calm("flat")
           O == Calm("open")
           K == Calm("known")
           P == Calm("picked")
           U == Calm("unwound")
           S == Drill("any", Slots, Slots)
           c == Step("CloseAccount", CLOSE_IDX, 0, RETURN)
           u == Step("Unwind", OWN, 0, RETURN)
<1>1. OWN \in Int /\ 1 \in Int /\ 0 \in Nat /\ 0 \in Prices
  BY Numbers, PricesAre
<1>2. Goes(Closing, crank, F, F) /\ Goes(Closing, Read, F, F)
  BY <1>1, FlatGoes, Words
<1>3. /\ Goes(Closing, Push(0), O, O) /\ Goes(Closing, crank, O, O) /\ Goes(Closing, Read, O, O)
      /\ Goes(Closing, Push(0), P, P) /\ Goes(Closing, crank, P, P)
  BY <1>1, OpenGoesOn, Words
<1>4. Goes(Closing, Do("WithdrawCollateral", 1, 0), O, O)
  BY <1>1, OpenGoesOn, Writing
<1>5. /\ Goes(Closing, Do("TradeCpi", 1, SIZE), F, O) /\ Goes(Closing, Read, O, K) /\ Goes(Closing, Do("Pick", 1, 0), K, P)
      /\ Goes(Closing, u, P, U) /\ Goes(Closing, Read, U, U) /\ Goes(Closing, crank, U, U)
  BY VerifyGoes, Words, Writing DEF SIZE
<1>6. Goes(Closing, c, U, S) /\ Goes(Closing, Do("Say", OWN, 0), S, All("any"))
  BY SaysGoes, Writing
<1>7. Goes(Closing, Read, All("any"), All("any"))
  <2>1. "Read" \in EndOps /\ Reaches("Read", "any", "any")
    BY DEF EndOps, Reaches
  <2>2. Goes(Closing, Step("Read", OWN, 0, 0), All("any"), All("any"))
    BY <1>1, <2>1, EndGoes DEF RETURN
  <2> QED BY <2>2, Words
<1> HIDE DEF F, O, K, P, U, S, c, u
<1>8. Leads(Closing, 4, F, VerifyTrade, O)
  BY <1>2, <1>3, <1>5, Four DEF VerifyTrade
<1>9. Leads(Closing, 2 + 3, O, VerifyWithdraw, O)
  <2>1. Leads(Closing, 2, O, Fresh(0), O)
    BY <1>3, Two DEF Fresh
  <2>2. Leads(Closing, 3, O, <<Read, Do("WithdrawCollateral", 1, 0), Read>>, O)
    BY <1>3, <1>4, Three
  <2> QED BY <2>1, <2>2, Chain DEF VerifyWithdraw
<1>10. Leads(Closing, (2 + 2) + 6, O, VerifyBankRun, All("any"))
  <2>1. Leads(Closing, 2, O, <<Read, Do("Pick", 1, 0)>>, P)
    BY <1>5, Two
  <2>2. Leads(Closing, 2, P, Fresh(0), P)
    BY <1>3, Two DEF Fresh
  <2>3. Leads(Closing, 6, P, <<u, Read, crank, c, Do("Say", OWN, 0), Read>>, All("any"))
    BY <1>5, <1>6, <1>7, Six
  <2>4. Leads(Closing, 2 + 2, O, <<Read, Do("Pick", 1, 0)>> \o Fresh(0), P)
    BY <2>1, <2>2, Chain
  <2>5. Leads(Closing, (2 + 2) + 6, O, <<Read, Do("Pick", 1, 0)>> \o Fresh(0) \o <<u, Read, crank, c, Do("Say", OWN, 0), Read>>, All("any"))
    BY <2>3, <2>4, Chain
  <2> QED BY <2>5 DEF VerifyBankRun, u, c
<1> QED BY <1>8, <1>9, <1>10 DEF F, O

LEMMA VerifyEnds == Leads(Closing, (3 + 4) + 4, All("any"), VerifyShutDown, All("closed"))
<1> DEFINE p == Step("PushOraclePrice", OWN, 0, 0)
           r == Step("ResolveMarket", OWN, 0, 0)
           k == Step("KeeperCrank", OWN, 0, 0)
           i == Step("WithdrawInsurance", OWN, 0, 0)
           q == Step("Read", OWN, 0, 0)
           c == Step("CloseSlab", OWN, 0, 0)
           F == ForceCloseAll(0)
<1>1. VerifyShutDown = <<p, r, k>> \o F \o <<q, i, q, c>>
  <2>1. Read = q /\ Push(0) = p /\ crank = k
    BY Words
  <2> HIDE DEF F, q, p, k
  <2> QED BY <2>1, EndWords DEF VerifyShutDown, F
<1>2. 0 \in Prices /\ EndOps = {"PushOraclePrice", "KeeperCrank", "ResolveMarket", "WithdrawInsurance", "CloseSlab", "Read"}
      /\ RETURN # 0 /\ RETURN # 1
  BY PricesAre, Numbers DEF EndOps
<1>3. Goes(Closing, p, All("any"), All("any")) /\ Goes(Closing, r, All("any"), All("resolved")) /\ Goes(Closing, k, All("resolved"), All("resolved"))
  <2>1. Reaches("PushOraclePrice", "any", "any") /\ Reaches("ResolveMarket", "any", "resolved") /\ Reaches("KeeperCrank", "resolved", "resolved")
    BY DEF Reaches, ResolvedStages
  <2> QED BY <1>2, <2>1, EndGoes
<1>4. /\ Goes(Closing, q, All("empty"), All("empty")) /\ Goes(Closing, i, All("empty"), All("paid"))
      /\ Goes(Closing, q, All("paid"), All("paid")) /\ Goes(Closing, c, All("paid"), All("closed"))
  <2>1. /\ Reaches("Read", "empty", "empty") /\ Reaches("WithdrawInsurance", "empty", "paid") /\ Reaches("Read", "paid", "paid")
        /\ Reaches("CloseSlab", "paid", "closed")
    BY DEF Reaches
  <2> QED BY <1>2, <2>1, EndGoes
<1>5. Leads(Closing, 4, All("resolved"), F, All("empty"))
  <2>1. "resolved" \in ResolvedStages /\ 0 \in {-1, 0}
    BY DEF ResolvedStages
  <2> QED BY <2>1, ForceCloseLeads
<1> HIDE DEF p, r, k, i, q, c, F
<1>6. Leads(Closing, 3, All("any"), <<p, r, k>>, All("resolved")) /\ Leads(Closing, 4, All("empty"), <<q, i, q, c>>, All("closed"))
  BY <1>3, <1>4, Three, Four
<1>7. Leads(Closing, 3 + 4, All("any"), <<p, r, k>> \o F, All("empty"))
  BY <1>5, <1>6, Chain
<1>8. Leads(Closing, (3 + 4) + 4, All("any"), <<p, r, k>> \o F \o <<q, i, q, c>>, All("closed"))
  BY <1>6, <1>7, Chain
<1> QED BY <1>1, <1>8

LEMMA VerifyLeads == \E n \in 0 .. 98 : Leads(Closing, n, Calm("flat"), verify[1], Closing)
<1> DEFINE n1 == 4 + 2
           n2 == 3
           n3 == 5
           n4 == 4
           n5 == 2 + 3
           n6 == (2 + 2) + 6
           n7 == (3 + 4) + 4
<1>1. /\ Leads(Closing, n1, Calm("flat"), VerifyMarket, Calm("flat")) /\ Leads(Closing, n2, Calm("flat"), VerifyAccounts, Calm("flat"))
      /\ Leads(Closing, n3, Calm("flat"), VerifyFunds, Calm("flat")) /\ Leads(Closing, n4, Calm("flat"), VerifyTrade, Calm("open"))
      /\ Leads(Closing, n5, Calm("open"), VerifyWithdraw, Calm("open")) /\ Leads(Closing, n6, Calm("open"), VerifyBankRun, All("any"))
      /\ Leads(Closing, n7, All("any"), VerifyShutDown, Closing)
  BY VerifyOpens, VerifyTrades, VerifyEnds DEF All, Closing
<1>2. n1 + n2 + n3 + n4 + n5 + n6 + n7 \in 0 .. 98
  OBVIOUS
<1> HIDE DEF n1, n2, n3, n4, n5, n6, n7
<1>3. Leads(Closing, n1 + n2, Calm("flat"), VerifyMarket \o VerifyAccounts, Calm("flat"))
  BY <1>1, Chain
<1>4. Leads(Closing, n1 + n2 + n3, Calm("flat"), VerifyMarket \o VerifyAccounts \o VerifyFunds, Calm("flat"))
  BY <1>1, <1>3, Chain
<1>5. Leads(Closing, n1 + n2 + n3 + n4, Calm("flat"), VerifyMarket \o VerifyAccounts \o VerifyFunds \o VerifyTrade, Calm("open"))
  BY <1>1, <1>4, Chain
<1>6. Leads(Closing, n1 + n2 + n3 + n4 + n5, Calm("flat"),
            VerifyMarket \o VerifyAccounts \o VerifyFunds \o VerifyTrade \o VerifyWithdraw, Calm("open"))
  BY <1>1, <1>5, Chain
<1>7. Leads(Closing, n1 + n2 + n3 + n4 + n5 + n6, Calm("flat"),
            VerifyMarket \o VerifyAccounts \o VerifyFunds \o VerifyTrade \o VerifyWithdraw \o VerifyBankRun, All("any"))
  BY <1>1, <1>6, Chain
<1>8. Leads(Closing, n1 + n2 + n3 + n4 + n5 + n6 + n7, Calm("flat"),
            VerifyMarket \o VerifyAccounts \o VerifyFunds \o VerifyTrade \o VerifyWithdraw \o VerifyBankRun \o VerifyShutDown, Closing)
  BY <1>1, <1>7, Chain
<1>9. verify[1] = VerifyMarket \o VerifyAccounts \o VerifyFunds \o VerifyTrade \o VerifyWithdraw \o VerifyBankRun \o VerifyShutDown
  BY DEF verify
<1> QED BY <1>2, <1>8, <1>9

-----------------------------------------------------------------------------
(***************************************************************************)
(* Every test of every script: the view it starts from, and those it may   *)
(* end with.                                                               *)
(***************************************************************************)
First(s, t) ==
  CASE s = "test-comprehensive" -> IF t = 1 THEN Idle(FALSE) ELSE Done
    [] s = "test-happy-path"    -> IF t = 1 THEN Old ELSE IF t = 2 THEN Sweep("start", TRUE) ELSE Done
    [] s = "stress-bankrun"     -> Bare
    [] s = "live-verify"        -> Calm("flat")
Final(s, t) ==
  IF s \in OnOwnSlab THEN Closing ELSE IF s = "test-happy-path" /\ t = 1 THEN Swept ELSE Done
Ends(s, t)  ==
  IF s \in OnOwnSlab THEN {Closing} ELSE IF s = "test-happy-path" /\ t = 1 THEN {Swept} ELSE {Done, Gone}
Led(s, t) == \E n \in 0 .. 98, w \in Ends(s, t) : Leads(Final(s, t), n, First(s, t), Program[s][t], w)

LEMMA ComprehensiveLed ==
  /\ Program["test-comprehensive"] = comprehensive /\ Len(comprehensive) = 12
  /\ \A t \in 1 .. 12 : Led("test-comprehensive", t)
<1> DEFINE s == "test-comprehensive"
           c1 == comprehensive[1]
           c2 == testFullLifecycle
           c3 == testRoundTripFees
           c4 == testPnlAccounting
           c5 == testWarmupEnforcement
           c6 == testLiquidation
           c7 == testOverLeverageRejection
           c8 == testWithdrawalMargin
           c9 == testInsuranceFund
           c10 == testLpEquity
           c11 == testPositionFlip
           c12 == testSequentialTrades
<1>1. Program[s] = comprehensive
  BY DEF Program, OnDeployed, OnOwnSlab
<1>2. /\ Len(comprehensive) = 12 /\ comprehensive[2] = c2 /\ comprehensive[3] = c3 /\ comprehensive[4] = c4
      /\ comprehensive[5] = c5 /\ comprehensive[6] = c6 /\ comprehensive[7] = c7 /\ comprehensive[8] = c8
      /\ comprehensive[9] = c9 /\ comprehensive[10] = c10 /\ comprehensive[11] = c11 /\ comprehensive[12] = c12
  BY DEF comprehensive
<1>3. /\ Serves(c2) /\ Serves(c3) /\ Serves(c4) /\ Serves(c5) /\ Serves(c6) /\ Serves(c7)
      /\ Serves(c8) /\ Serves(c9) /\ Serves(c10) /\ Serves(c11) /\ Serves(c12)
  BY FullLifecycle, RoundTripFees, PnlAccounting, WarmupEnforcement, Liquidation, OverLeverageRejection, WithdrawalMargin,
     InsuranceFund, LpEquity, PositionFlip, SequentialTrades
<1> HIDE DEF c1, c2, c3, c4, c5, c6, c7, c8, c9, c10, c11, c12
<1>4. ASSUME NEW t \in 2 .. 12
      PROVE  Led(s, t)
  <2>1. Serves(comprehensive[t])
    <3>1. t \in {2, 3, 4, 5} \/ t \in {6, 7, 8, 9} \/ t \in {10, 11, 12}
      OBVIOUS
    <3>2. CASE t \in {2, 3, 4, 5}
      BY <3>2, <1>2, <1>3
    <3>3. CASE t \in {6, 7, 8, 9}
      BY <3>3, <1>2, <1>3
    <3>4. CASE t \in {10, 11, 12}
      BY <3>4, <1>2, <1>3
    <3> QED BY <3>1, <3>2, <3>3, <3>4
  <2>2. First(s, t) = Done /\ Final(s, t) = Done /\ Ends(s, t) = {Done, Gone}
    <3>1. t # 1
      OBVIOUS
    <3> QED BY <3>1 DEF First, Final, Ends, OnOwnSlab
  <2>3. PICK n \in 0 .. 98, w \in {Gone, Done} : Leads(Done, n, Done, comprehensive[t], w)
    BY <2>1 DEF Serves
  <2> QED BY <1>1, <2>2, <2>3 DEF Led
<1>5. Led(s, 1)
  <2>1. First(s, 1) = Idle(FALSE) /\ Final(s, 1) = Done /\ Ends(s, 1) = {Done, Gone}
    BY DEF First, Final, Ends, OnOwnSlab
  <2>2. PICK n \in 0 .. 98 : Leads(Done, n, Idle(FALSE), comprehensive[1], Done)
    BY PreludeLeads
  <2> QED BY <1>1, <2>1, <2>2 DEF Led
<1>6. \A t \in 1 .. 12 : t = 1 \/ t \in 2 .. 12
  OBVIOUS
<1> QED BY <1>1, <1>2, <1>4, <1>5, <1>6

(* Between the scenarios the price is moved.                               *)
LEMMA MovedServes == Serves(Moved(0)) /\ Serves(Moved(0) \o <<Read>>)
<1>1. Leads(Done, 2, Done, Moved(0), Done)
  BY MovedIdle DEF Done
<1>2. Leads(Done, 1, Done, <<Read>>, Done)
  <2>1. Goes(Done, Read, Done, Done)
    BY IdleSteps DEF Done
  <2> QED BY <2>1, Single
<1>3. Leads(Done, 2 + 1, Done, Moved(0) \o <<Read>>, Done)
  BY <1>1, <1>2, Chain
<1>4. 2 \in 0 .. 98 /\ 2 + 1 \in 0 .. 98
  OBVIOUS
<1> QED BY <1>1, <1>3, <1>4 DEF Serves

LEMMA HappyLed ==
  /\ Program["test-happy-path"] = happy_path /\ Len(happy_path) = 13
  /\ \A t \in 1 .. 13 : Led("test-happy-path", t)
<1> DEFINE s == "test-happy-path"
           c2 == scenarioRoundTrip
           c3 == Moved(0)
           c4 == scenarioWinner
           c6 == scenarioLoser
           c8 == scenarioMaxLeverageLong
           c10 == scenarioMaxLeverageShort
           c12 == scenarioOverLeverageRejection
           c13 == Moved(0) \o <<Read>>
<1>1. Program[s] = happy_path
  BY DEF Program, OnDeployed, OnOwnSlab
<1>2. /\ Len(happy_path) = 13 /\ happy_path[2] = c2 /\ happy_path[3] = c3 /\ happy_path[4] = c4
      /\ happy_path[5] = c3 /\ happy_path[6] = c6 /\ happy_path[7] = c3 /\ happy_path[8] = c8
      /\ happy_path[9] = c3 /\ happy_path[10] = c10 /\ happy_path[11] = c3 /\ happy_path[12] = c12 /\ happy_path[13] = c13
  BY DEF happy_path
<1>3. Serves(c3) /\ Serves(c4) /\ Serves(c6) /\ Serves(c8) /\ Serves(c10) /\ Serves(c12) /\ Serves(c13)
  BY MovedServes, WinnerScenario, LoserScenario, MaxLeverageScenarios, OverLeverageScenario
<1>4. PICK n \in 0 .. 98 : Leads(Done, n, Sweep("start", TRUE), c2, Gone)
  BY RoundTripScenario
<1> HIDE DEF c2, c3, c4, c6, c8, c10, c12, c13
<1>5. ASSUME NEW t \in 3 .. 13
      PROVE  Led(s, t)
  <2>1. Serves(happy_path[t])
    <3>1. t \in {3, 4, 5, 6} \/ t \in {7, 8, 9, 10} \/ t \in {11, 12, 13}
      OBVIOUS
    <3>2. CASE t \in {3, 4, 5, 6}
      BY <3>2, <1>2, <1>3
    <3>3. CASE t \in {7, 8, 9, 10}
      BY <3>3, <1>2, <1>3
    <3>4. CASE t \in {11, 12, 13}
      BY <3>4, <1>2, <1>3
    <3> QED BY <3>1, <3>2, <3>3, <3>4
  <2>2. First(s, t) = Done /\ Final(s, t) = Done /\ Ends(s, t) = {Done, Gone}
    <3>1. t # 1 /\ t # 2
      OBVIOUS
    <3> QED BY <3>1 DEF First, Final, Ends, OnOwnSlab
  <2>3. PICK m \in 0 .. 98, w \in {Gone, Done} : Leads(Done, m, Done, happy_path[t], w)
    BY <2>1 DEF Serves
  <2> QED BY <1>1, <2>2, <2>3 DEF Led
<1>6. Led(s, 2)
  <2>1. First(s, 2) = Sweep("start", TRUE) /\ Final(s, 2) = Done /\ Ends(s, 2) = {Done, Gone}
    BY DEF First, Final, Ends, OnOwnSlab
  <2> QED BY <1>1, <1>2, <1>4, <2>1 DEF Led
<1>7. Led(s, 1)
  <2>1. First(s, 1) = Old /\ Final(s, 1) = Swept /\ Ends(s, 1) = {Swept}
    BY DEF First, Final, Ends, OnOwnSlab
  <2>2. (((3 + 2) + 5) + 1 + 2) + 1 \in 0 .. 98
    OBVIOUS
  <2> QED BY <1>1, <2>1, <2>2, SweepLeads DEF Led
<1>8. \A t \in 1 .. 13 : t = 1 \/ t = 2 \/ t \in 3 .. 13
  OBVIOUS
<1> QED BY <1>1, <1>2, <1>5, <1>6, <1>7, <1>8

LEMMA DrillsLed ==
  /\ Program["stress-bankrun"] = bankrun /\ Len(bankrun) = 1 /\ Led("stress-bankrun", 1)
  /\ Program["live-verify"] = verify /\ Len(verify) = 1 /\ Led("live-verify", 1)
<1>1. Program["stress-bankrun"] = bankrun /\ Program["live-verify"] = verify
  BY DEF Program, OnDeployed, OnOwnSlab
<1>2. Len(bankrun) = 1
  BY DEF bankrun
<1>3. Len(verify) = 1
  BY DEF verify
<1>4. /\ First("stress-bankrun", 1) = Bare /\ Final("stress-bankrun", 1) = Closing /\ Ends("stress-bankrun", 1) = {Closing}
      /\ First("live-verify", 1) = Calm("flat") /\ Final("live-verify", 1) = Closing /\ Ends("live-verify", 1) = {Closing}
  BY DEF First, Final, Ends, OnOwnSlab
<1>5. Led("stress-bankrun", 1)
  BY <1>1, <1>4, BankLeads DEF Led
<1>6. Led("live-verify", 1)
  BY <1>1, <1>4, VerifyLeads DEF Led
<1> QED BY <1>1, <1>2, <1>3, <1>5, <1>6

LEMMA Programs ==
  ASSUME NEW s \in OnDeployed \cup OnOwnSlab
  PROVE  Len(Program[s]) \in Nat \ {0} /\ \A t \in 1 .. Len(Program[s]) : Led(s, t)
<1>1. s \in {"test-comprehensive", "test-happy-path", "stress-bankrun", "live-verify"}
  BY DEF OnDeployed, OnOwnSlab
<1>2. \A t \in 1 .. 1 : t = 1
  OBVIOUS
<1>3. CASE s = "test-comprehensive"
  BY <1>3, ComprehensiveLed
<1>4. CASE s = "test-happy-path"
  BY <1>4, HappyLed
<1>5. CASE s = "stress-bankrun"
  BY <1>2, <1>5, DrillsLed
<1>6. CASE s = "live-verify"
  BY <1>2, <1>6, DrillsLed
<1> QED BY <1>1, <1>3, <1>4, <1>5, <1>6

-----------------------------------------------------------------------------
(***************************************************************************)
(* The inductive invariant: a script that runs is at a step of an          *)
(* annotated test, and the view of that step holds.                        *)
(***************************************************************************)
Placed ==
  \E n \in 0 .. 98 : \E f :
    /\ Body \in Seq(StepType) /\ Len(Body) = n
    /\ f[1] = First(script, test) /\ f[n + 1] \in Ends(script, test) /\ Annotated(Body, f, Final(script, test))
    /\ pc \in 1 .. n + RETURN
    /\ Fits(IF pc <= n + 1 THEN f[pc] ELSE Final(script, test))

(* When the first scenario of the happy path starts.                       *)
SweptBefore == script = "test-happy-path" /\ test = 2 /\ pc = 1 => 1 \in hurt \/ AllOpen

Stopped ==
  /\ script \in OnDeployed => Clean
  /\ script \in OnOwnSlab /\ status = "ended" /\ Quiet => market.stage = "closed"

IInv ==
  /\ Shape /\ test \in 1 .. Len(Program[script]) /\ status \in {"running", "ended", "died"}
  /\ pc \in 1 .. Len(Body) + RETURN
  /\ status = "running" => Placed
  /\ status # "running" => Stopped
  /\ SweptBefore

(* A test that begins.                                                     *)
LEMMA Begins ==
  ASSUME script \in OnDeployed \cup OnOwnSlab, test \in 1 .. Len(Program[script]), pc = 1, Fits(First(script, test))
  PROVE  Placed /\ pc \in 1 .. Len(Body) + RETURN
<1>1. Led(script, test)
  BY Programs
<1>2. PICK n \in 0 .. 98, w \in Ends(script, test) : Leads(Final(script, test), n, First(script, test), Program[script][test], w)
  BY <1>1 DEF Led
<1>3. Body = Program[script][test]
  BY DEF Body
<1>4. PICK f : f[1] = First(script, test) /\ f[n + 1] = w /\ Annotated(Body, f, Final(script, test))
  BY <1>2, <1>3 DEF Leads
<1>5. Body \in Seq(StepType) /\ Len(Body) = n
  BY <1>2, <1>3 DEF Leads
<1>6. pc \in 1 .. n + RETURN /\ pc <= n + 1
  BY DEF RETURN
<1>7. Fits(IF pc <= n + 1 THEN f[pc] ELSE Final(script, test))
  BY <1>4, <1>6
<1> QED BY <1>2, <1>4, <1>5, <1>6, <1>7 DEF Placed

(* The view at the end of a test.                                          *)
LEMMA AtEnd ==
  ASSUME script \in OnDeployed \cup OnOwnSlab, Placed, pc > Len(Body)
  PROVE  \E w \in Ends(script, test) : Fits(w)
<1>1. PICK n \in 0 .. 98 : \E f : /\ Len(Body) = n /\ f[n + 1] \in Ends(script, test) /\ pc \in 1 .. n + RETURN
                              /\ Fits(IF pc <= n + 1 THEN f[pc] ELSE Final(script, test))
  BY DEF Placed
<1>5. PICK f : /\ Len(Body) = n /\ f[n + 1] \in Ends(script, test) /\ pc \in 1 .. n + RETURN
             /\ Fits(IF pc <= n + 1 THEN f[pc] ELSE Final(script, test))
  BY <1>1
<1>2. Final(script, test) \in Ends(script, test)
  BY DEF Final, Ends
<1>3. CASE pc <= n + 1
  <2>1. pc = n + 1
    BY <1>5, <1>3 DEF RETURN
  <2> QED BY <1>5, <1>3, <2>1
<1>4. CASE ~ (pc <= n + 1)
  BY <1>5, <1>2, <1>4
<1> QED BY <1>3, <1>4

(* The step a script is at.                                                *)
LEMMA AtStep ==
  ASSUME Shape, Placed, pc <= Len(Body)
  PROVE  \E n \in 0 .. 98 : \E f :
           /\ Body \in Seq(StepType) /\ Len(Body) = n
           /\ f[1] = First(script, test) /\ f[n + 1] \in Ends(script, test) /\ Annotated(Body, f, Final(script, test))
           /\ pc \in 1 .. n /\ At(Body[pc], f[pc])
           /\ Body[pc].catch \in {0, RETURN} \/ pc + Body[pc].catch \in 1 .. n + 1
           /\ Sound(Body[pc], f[pc], f[pc + 1], Target(Body, f, Final(script, test), pc))
<1>0. PICK n \in 0 .. 98 : \E f :
        /\ Body \in Seq(StepType) /\ Len(Body) = n
        /\ f[1] = First(script, test) /\ f[n + 1] \in Ends(script, test) /\ Annotated(Body, f, Final(script, test))
        /\ pc \in 1 .. n + RETURN
        /\ Fits(IF pc <= n + 1 THEN f[pc] ELSE Final(script, test))
  BY DEF Placed
<1>1. PICK f :
        /\ Body \in Seq(StepType) /\ Len(Body) = n
        /\ f[1] = First(script, test) /\ f[n + 1] \in Ends(script, test) /\ Annotated(Body, f, Final(script, test))
        /\ pc \in 1 .. n + RETURN
        /\ Fits(IF pc <= n + 1 THEN f[pc] ELSE Final(script, test))
  BY <1>0
<1>2. pc \in 1 .. n /\ pc <= n + 1
  BY <1>1 DEF RETURN
<1>3. At(Body[pc], f[pc])
  BY <1>1, <1>2 DEF At
<1>4. /\ Body[pc].catch \in {0, RETURN} \/ pc + Body[pc].catch \in 1 .. n + 1
      /\ Sound(Body[pc], f[pc], f[pc + 1], Target(Body, f, Final(script, test), pc))
  BY <1>1, <1>2 DEF Annotated
<1> QED BY <1>1, <1>2, <1>3, <1>4

-----------------------------------------------------------------------------
(* The markets a script starts with.                                       *)
LEMMA FreshBooks == Books(FreshSlab)
<1> DEFINE m == FreshSlab
<1>1. m.stage = "none" /\ m.mark = FALSE /\ m.price = 0 /\ m.fund = FALSE
      /\ m.account = [i \in Slots |-> NoAccount] /\ m.free = [i \in 1 .. MaxSlot + 1 |-> i - 1]
  BY DEF FreshSlab
<1>0. m \in [stage : {"none"}, mark : {FALSE}, price : {0}, fund : {FALSE}, account : {[i \in Slots |-> NoAccount]},
             free : {[i \in 1 .. MaxSlot + 1 |-> i - 1]}]
  BY DEF FreshSlab
<1> HIDE DEF m
<1>2. m.account \in [Slots -> Account] /\ \A i \in Slots : m.account[i] = NoAccount
  BY <1>1, NoAccountType
<1>3. /\ m.free \in [1 .. MaxSlot + 1 -> Slots] /\ MaxSlot + 1 \in Nat /\ m.free \in Seq(Slots) /\ Len(m.free) = MaxSlot + 1
      /\ \A i \in 1 .. MaxSlot + 1 : m.free[i] = i - 1
  <2>1. m.free \in [1 .. MaxSlot + 1 -> Slots] /\ MaxSlot + 1 \in Nat
    BY <1>1, Natural DEF Slots
  <2>2. m.free \in Seq(Slots) /\ Len(m.free) = MaxSlot + 1
    BY <2>1
  <2>3. \A i \in 1 .. MaxSlot + 1 : m.free[i] = i - 1
    BY <1>1
  <2> QED BY <2>1, <2>2, <2>3
<1>4. m \in Market
  <2>1. "none" \in Stages /\ 0 \in Prices
    BY DEF Stages, Prices
  <2>2. {m.account} \subseteq [Slots -> Account] /\ {m.free} \subseteq Seq(Slots)
    BY <1>2, <1>3
  <2>3. m \in [stage : {"none"}, mark : {FALSE}, price : {0}, fund : {FALSE}, account : {m.account}, free : {m.free}]
    BY <1>0, <1>1
  <2> QED BY <2>1, <2>2, <2>3 DEF Market
<1>5. Used(m) = {}
  BY <1>2 DEF Used
<1>6. ToSet(m.free) = Slots
  <2>1. \A k \in Slots : k + 1 \in 1 .. MaxSlot + 1 /\ m.free[k + 1] = k
    BY <1>3, Natural DEF Slots
  <2> QED BY <1>3, <2>1 DEF ToSet
<1>7. IsInjective(m.free)
  <2>1. DOMAIN m.free = 1 .. MaxSlot + 1
    BY <1>3
  <2> QED BY <1>3, <2>1 DEF IsInjective
<1>8. \A i \in Slots : Owned(m.account[i])
  BY <1>2, NoAccountType
<1> QED BY <1>1, <1>2, <1>4, <1>5, <1>6, <1>7, <1>8 DEF Books, m

(* An account of the wallet.                                               *)
LEMMA WalletUser ==
  ASSUME NEW c \in Nat, NEW p \in Int, NEW u, u = User(c, p)
  PROVE  /\ u \in Account /\ Owned(u) /\ u.owner = PAYER /\ ~ u.lp
         /\ u.capital = c /\ u.pos = p /\ u.at = 0 /\ u.pnl = "none"
<1>1. u \in [owner : {PAYER}, lp : {FALSE}, capital : {c}, pos : {p}, at : {0}, pnl : {"none"}]
  BY DEF User, NoAccount
<1>2. u \in Account
  <2>1. 0 \in Prices
    BY DEF Prices
  <2> QED BY <1>1, <2>1 DEF Account
<1>3. u.owner = PAYER /\ ~ u.lp /\ u.capital = c /\ u.pos = p /\ u.at = 0 /\ u.pnl = "none"
  BY <1>1
<1>4. Owned(u)
  BY <1>3, Wallets DEF Owned
<1> QED BY <1>2, <1>3, <1>4

LEMMA TwoOf ==
  ASSUME NEW a, NEW b, NEW c, MaxSlot # LP
  PROVE  [i \in Slots |-> CASE i = LP -> a [] i = MaxSlot -> b [] OTHER -> c]
         = [i \in Slots |-> IF i = LP THEN a ELSE IF i = MaxSlot THEN b ELSE c]
<1>1. ASSUME NEW i \in Slots
      PROVE  (CASE i = LP -> a [] i = MaxSlot -> b [] OTHER -> c) = IF i = LP THEN a ELSE IF i = MaxSlot THEN b ELSE c
  OBVIOUS
<1> QED BY <1>1

LEMMA DeployedBooks ==
  ASSUME NEW mark \in BOOLEAN, NEW left \in {NoAccount, User(1, 0), User(1, 1)}
  PROVE  LET m == Deployed(mark, left)
         IN  /\ Books(m) /\ m.stage = "live" /\ m.price = 0 /\ m.account[LP].lp
             /\ m.account[MaxSlot] = left /\ \A i \in Slots \ {LP, MaxSlot} : m.account[i] = NoAccount
             /\ left.pnl = "none" /\ left.at = 0 /\ (left.pos # 0 => left.capital >= 1)
<1> DEFINE m == Deployed(mark, left)
           lp == [User(4, -left.pos) EXCEPT !.lp = TRUE]
           k == MaxSlot - (IF left = NoAccount THEN 0 ELSE 1)
<1>1. MaxSlot \in Nat /\ MaxSlot # LP /\ LP \in Slots /\ MaxSlot \in Slots
  BY Natural DEF LP, Slots
<1>2. /\ left \in Account /\ Owned(left) /\ left.pos \in {0, 1} /\ left.pnl = "none" /\ left.at = 0 /\ (left.pos # 0 => left.capital >= 1)
      /\ (left = NoAccount <=> left.owner = "none") /\ ~ left.lp
  <2>1. CASE left = NoAccount
    BY <2>1, NoAccountType DEF NoAccount
  <2>2. CASE left = User(1, 0)
    <3>1. /\ left \in Account /\ Owned(left) /\ left.owner = PAYER /\ ~ left.lp
          /\ left.capital = 1 /\ left.pos = 0 /\ left.at = 0 /\ left.pnl = "none"
      BY <2>2, WalletUser
    <3> QED BY <3>1, Wallets DEF NoAccount
  <2>3. CASE left = User(1, 1)
    <3>1. /\ left \in Account /\ Owned(left) /\ left.owner = PAYER /\ ~ left.lp
          /\ left.capital = 1 /\ left.pos = 1 /\ left.at = 0 /\ left.pnl = "none"
      BY <2>3, WalletUser
    <3> QED BY <3>1, Wallets DEF NoAccount
  <2> QED BY <2>1, <2>2, <2>3
<1>3. lp \in Account /\ lp.lp /\ lp.pos = -left.pos /\ lp.owner = PAYER
  <2> DEFINE q == -left.pos
             u == User(4, q)
  <2>1. q \in Int
    BY <1>2
  <2>2. lp = [u EXCEPT !.lp = TRUE]
    OBVIOUS
  <2> HIDE DEF q
  <2>3. u \in Account /\ u.owner = PAYER /\ u.pos = q
    BY <2>1, WalletUser
  <2> HIDE DEF u, lp
  <2>4. lp \in Account /\ lp.lp /\ lp.pos = q /\ lp.owner = PAYER
    BY <2>2, <2>3 DEF Account
  <2> QED BY <2>4 DEF q
<1>4. Owned(lp) /\ lp # NoAccount
  <2> HIDE DEF lp
  <2> QED BY <1>3, Wallets DEF Owned, NoAccount
<1> DEFINE z == [i \in Slots |-> IF i = LP THEN lp ELSE IF i = MaxSlot THEN left ELSE NoAccount]
           g == [i \in 1 .. k |-> i]
<1>5. /\ m.stage = "live" /\ m.mark = mark /\ m.price = 0 /\ m.account = z /\ m.free = g
      /\ m \in [stage : {"live"}, mark : {mark}, price : {0}, fund : {TRUE}, account : {z}, free : {g}]
  <2>1. m = [FreshSlab EXCEPT !.stage = "live", !.mark = mark, !.fund = TRUE, !.account = z, !.free = g]
    <3>1. [i \in Slots |-> CASE i = LP -> lp [] i = MaxSlot -> left [] OTHER -> NoAccount] = z
      <4> HIDE DEF lp
      <4> QED BY <1>1, TwoOf
    <3> QED BY <3>1, Zenon DEF Deployed
  <2> HIDE DEF z, g, m
  <2> QED BY <2>1 DEF FreshSlab
<1> HIDE DEF m, lp, k
<1>6. /\ m.account \in [Slots -> Account] /\ m.account[LP] = lp /\ m.account[MaxSlot] = left
      /\ \A i \in Slots \ {LP, MaxSlot} : m.account[i] = NoAccount
  BY <1>1, <1>2, <1>3, <1>5, NoAccountType
<1>7. k \in Nat /\ k = IF left = NoAccount THEN MaxSlot ELSE MaxSlot - 1
  BY <1>1 DEF k, LP
<1>8. /\ m.free \in [1 .. k -> Slots] /\ m.free \in Seq(Slots) /\ Len(m.free) = k /\ \A i \in 1 .. k : m.free[i] = i
  <2>1. m.free \in [1 .. k -> Slots]
    BY <1>1, <1>5, <1>7 DEF Slots
  <2> QED BY <1>5, <1>7, <2>1
<1>9. m \in Market
  <2>1. "live" \in Stages /\ 0 \in Prices
    BY DEF Stages, Prices
  <2>2. z \in [Slots -> Account] /\ g \in Seq(Slots)
    BY <1>5, <1>6, <1>8
  <2> HIDE DEF z, g
  <2> QED BY <1>5, <2>1, <2>2 DEF Market
<1>10. Used(m) = IF left = NoAccount THEN {LP} ELSE {LP, MaxSlot}
  BY <1>1, <1>4, <1>6 DEF Used
<1>11. ToSet(m.free) = 1 .. k
  BY <1>8 DEF ToSet
<1>12. 1 .. k = Slots \ Used(m)
  BY <1>1, <1>7, <1>10 DEF Slots, LP
<1>13. IsInjective(m.free)
  <2>1. DOMAIN m.free = 1 .. k
    BY <1>8
  <2> QED BY <1>8, <2>1 DEF IsInjective
<1>14. \A i \in Slots : Owned(m.account[i])
  BY <1>2, <1>4, <1>6, NoAccountType
<1>15. OpenInterest(m.account) = 0
  <2> DEFINE none == [i \in Slots |-> NoAccount]
             d == left.pos
             acc == m.account
  <2>1. \A i \in Slots : none[i].pos = 0
    BY DEF NoAccount
  <2>2. /\ d \in Int /\ acc[LP].pos = -d /\ acc[MaxSlot].pos = d
        /\ \A i \in Slots : i \notin {MaxSlot, LP} => acc[i].pos = 0
    BY <1>2, <1>3, <1>6 DEF NoAccount
  <2> HIDE DEF none, d, acc
  <2>3. OpenInterest(none) = 0
    BY <2>1, SumZero
  <2>4. Positions(none)
    BY <2>1 DEF Positions
  <2>5. /\ acc[MaxSlot].pos = none[MaxSlot].pos + d /\ acc[LP].pos = none[LP].pos - d
        /\ \A i \in Slots : i \notin {MaxSlot, LP} => acc[i].pos = none[i].pos
    BY <1>1, <2>1, <2>2
  <2>6. d \in Int
    BY <2>2
  <2>7. OpenInterest(acc) = OpenInterest(none)
    BY <1>1, <2>4, <2>5, <2>6, SumSwap
  <2> QED BY <2>3, <2>7 DEF acc
<1>16. Backed(m)
  BY <1>3, <1>6 DEF Backed
<1>17. Books(m)
  BY <1>5, <1>9, <1>11, <1>12, <1>13, <1>14, <1>15, <1>16 DEF Books
<1> QED BY <1>2, <1>3, <1>5, <1>6, <1>17 DEF m

(* The first scenario of the happy path starts when all that is left is    *)
(* open.                                                                   *)
LEMMA StartsSwept == Placed /\ pc = 1 /\ script = "test-happy-path" /\ test = 2 => 1 \in hurt \/ AllOpen
<1> SUFFICES ASSUME Placed, pc = 1, script = "test-happy-path", test = 2
             PROVE  1 \in hurt \/ AllOpen
  OBVIOUS
<1>1. PICK n \in 0 .. 98 : \E f : f[1] = First(script, test) /\ Fits(IF pc <= n + 1 THEN f[pc] ELSE Final(script, test))
  BY DEF Placed
<1>2. Fits(First(script, test))
  BY <1>1
<1>3. First(script, test) = Sweep("start", TRUE)
  BY DEF First
<1>4. Sweep("start", TRUE).kind = "sweep" /\ Sweep("start", TRUE).stage = "start"
  BY DEF Sweep
<1> QED BY <1>2, <1>3, <1>4 DEF Fits, FitsSweep

LEMMA BeginsWell ==
  script \in OnDeployed \cup OnOwnSlab /\ test \in 1 .. Len(Program[script]) /\ pc = 1 /\ Fits(First(script, test))
    => Placed /\ pc \in 1 .. Len(Body) + RETURN
BY Begins

-----------------------------------------------------------------------------
(* A run begins well.                                                      *)
LEMMA KnownScript == script \in Scripts => script \in OnDeployed \cup OnOwnSlab /\ ~ (script \in OnDeployed /\ script \in OnOwnSlab)
BY LiveAssumption DEF OnDeployed, OnOwnSlab

LEMMA InitParts ==
  ASSUME Init, Books(market), market.account \in [Slots -> Account],
         script \in OnDeployed => market.stage = "live" /\ market.account[LP].lp,
         script \in OnOwnSlab => market.stage = "none" /\ \A i \in Slots : market.account[i] = NoAccount,
         Fits(First(script, test))
  PROVE  IInv
<1>1. /\ script \in Scripts /\ test = 1 /\ pc = 1 /\ idx = OWN /\ todo = {} /\ seen = [i \in Slots |-> NoAccount]
      /\ status = "running" /\ faults = 0 /\ joins = 0 /\ opened = [i \in Slots |-> Nobody] /\ hurt = {} /\ said = {}
  BY DEF Init
<1>2. script \in OnDeployed \cup OnOwnSlab
  BY <1>1, KnownScript
<1>3. MaxFaults \in Nat /\ MaxJoins \in Nat
  BY LiveAssumption
<1>4. seen \in [Slots -> Account] /\ opened \in [Slots -> Nat] /\ \A i \in Slots : opened[i] = Nobody /\ opened[i] <= test
  BY <1>1, NoAccountType DEF Nobody
<1>5. Past
  BY <1>4 DEF Past, Leftovers, Used
<1>6. script \in OnOwnSlab => Drilled(market) /\ \A i \in Slots : market.account[i].owner # STRANGER
  BY Wallets DEF Drilled, NoAccount
<1>7. Shape
  BY <1>1, <1>3, <1>4, <1>5, <1>6 DEF Shape
<1>8. test \in 1 .. Len(Program[script])
  BY <1>1, <1>2, Programs
<1>9. Placed /\ pc \in 1 .. Len(Body) + RETURN
  BY <1>1, <1>2, <1>8, Begins
<1> QED BY <1>1, <1>7, <1>8, <1>9 DEF IInv, SweptBefore

LEMMA InitWell == Init => IInv
<1> SUFFICES ASSUME Init PROVE IInv
  OBVIOUS
<1>1. /\ script \in Scripts /\ test = 1 /\ idx = OWN /\ todo = {} /\ hurt = {} /\ opened = [i \in Slots |-> Nobody]
      /\ market \in IF script \in OnOwnSlab THEN {FreshSlab}
                    ELSE {Deployed(mark, left) : mark \in BOOLEAN, left \in {NoAccount, User(1, 0), User(1, 1)}}
  BY DEF Init
<1>2. script \in OnDeployed \cup OnOwnSlab /\ ~ (script \in OnDeployed /\ script \in OnOwnSlab)
  BY <1>1, KnownScript
<1>3. CASE script \in OnOwnSlab
  <2>1. market = FreshSlab
    BY <1>1, <1>3
  <2>2. Books(market) /\ market.stage = "none" /\ market.price = 0
    BY <2>1, FreshBooks DEF FreshSlab
  <2>3. \A i \in Slots : market.account[i] = NoAccount
    BY <2>1 DEF FreshSlab
  <2>4. market.account \in [Slots -> Account]
    BY <2>2 DEF Books, Market
  <2>5. CASE script = "stress-bankrun"
    <3>1. First(script, test) = Bare
      BY <2>5 DEF First
    <3>2. Bare.kind = "drill" /\ Bare.stage = "any" /\ Bare.todo = Users /\ Bare.idx = Users \cup {OWN}
      BY DEF Bare, Drill
    <3>3. Fits(Bare)
      BY <1>1, <1>3, <3>2 DEF Fits, FitsDrill, TestKinds, DrillKinds
    <3> QED BY <1>2, <1>3, <2>2, <2>3, <2>4, <3>1, <3>3, InitParts
  <2>6. CASE script = "live-verify"
    <3>1. First(script, test) = Calm("flat")
      BY <2>6 DEF First
    <3>2. Calm("flat").kind = "calm" /\ Calm("flat").stage = "flat"
      BY DEF Calm
    <3>3. Still(market) /\ Even(market)
      BY <2>2, <2>3 DEF Still, Even, NoAccount
    <3>4. Fits(Calm("flat"))
      BY <1>1, <1>3, <2>6, <3>2, <3>3 DEF Fits, FitsCalm, TestKinds, DrillKinds
    <3> QED BY <1>2, <1>3, <2>2, <2>3, <2>4, <3>1, <3>4, InitParts
  <2> QED BY <1>3, <2>5, <2>6 DEF OnOwnSlab
<1>4. CASE script \in OnDeployed
  <2>1. PICK mark \in BOOLEAN, left \in {NoAccount, User(1, 0), User(1, 1)} : market = Deployed(mark, left)
    BY <1>1, <1>2, <1>4
  <2>2. /\ Books(market) /\ market.stage = "live" /\ market.price = 0 /\ market.account[LP].lp
        /\ market.account[MaxSlot] = left /\ \A i \in Slots \ {LP, MaxSlot} : market.account[i] = NoAccount
        /\ left.pnl = "none" /\ left.at = 0 /\ (left.pos # 0 => left.capital >= 1)
    BY <2>1, DeployedBooks
  <2>3. market.account \in [Slots -> Account]
    BY <2>2 DEF Books, Market
  <2>4. Clean
    BY <1>1 DEF Clean, Leftovers, Used, Nobody
  <2>5. AllLeft
    BY <2>2 DEF AllLeft, Leftovers, Used, Left
  <2>6. CASE script = "test-comprehensive"
    <3>1. First(script, test) = Idle(FALSE)
      BY <1>1, <2>6 DEF First
    <3>2. Idle(FALSE).kind = "idle" /\ ~ Idle(FALSE).mark
      BY DEF Idle
    <3>3. Fits(Idle(FALSE))
      BY <1>4, <2>4, <3>2 DEF Fits, FitsIdle, TestKinds, DrillKinds
    <3> QED BY <1>2, <1>4, <2>2, <2>3, <3>1, <3>3, InitParts
  <2>7. CASE script = "test-happy-path"
    <3>1. First(script, test) = Old
      BY <1>1, <2>7 DEF First
    <3>2. Old.kind = "sweep" /\ ~ Old.mark /\ Old.stage = "old"
      BY DEF Old, Sweep
    <3>3. Fits(Old)
      BY <1>1, <1>4, <2>4, <2>5, <3>2 DEF Fits, FitsSweep, TestKinds, DrillKinds
    <3> QED BY <1>2, <1>4, <2>2, <2>3, <3>1, <3>3, InitParts
  <2> QED BY <1>4, <2>6, <2>7 DEF OnDeployed
<1> QED BY <1>2, <1>3, <1>4

-----------------------------------------------------------------------------
(* A step of a test: where the script is then fits its view.               *)
LEMMA StepsOn ==
  ASSUME IInv, Move
  PROVE  /\ Shape' /\ UNCHANGED <<script, test>> /\ pc' \in 1 .. Len(Body) + RETURN
         /\ \/ status' = "running" /\ Placed'
            \/ status' = "died" /\ pc' = pc /\ (script \in OnDeployed => Clean')
<1>1. status = "running" /\ pc <= Len(Body)
  BY DEF Move, Execute, Refuse, Fail, GetState, Find, Jump, Skip, Take, Say, WaitForWarmup, Runs
<1>2. Shape /\ Placed
  BY <1>1 DEF IInv
<1>3. PICK n \in 0 .. 98 : \E f :
           /\ Body \in Seq(StepType) /\ Len(Body) = n
           /\ f[1] = First(script, test) /\ f[n + 1] \in Ends(script, test) /\ Annotated(Body, f, Final(script, test))
           /\ pc \in 1 .. n /\ At(Body[pc], f[pc])
           /\ Body[pc].catch \in {0, RETURN} \/ pc + Body[pc].catch \in 1 .. n + 1
           /\ Sound(Body[pc], f[pc], f[pc + 1], Target(Body, f, Final(script, test), pc))
  BY <1>1, <1>2, AtStep
<1>4. PICK f :
           /\ Body \in Seq(StepType) /\ Len(Body) = n
           /\ f[1] = First(script, test) /\ f[n + 1] \in Ends(script, test) /\ Annotated(Body, f, Final(script, test))
           /\ pc \in 1 .. n /\ At(Body[pc], f[pc])
           /\ Body[pc].catch \in {0, RETURN} \/ pc + Body[pc].catch \in 1 .. n + 1
           /\ Sound(Body[pc], f[pc], f[pc + 1], Target(Body, f, Final(script, test), pc))
  BY <1>3
<1>5. \E s, v, on, off, j, b, e : s = Body[pc] /\ v = f[pc] /\ on = f[pc + 1] /\ off = Target(Body, f, Final(script, test), pc)
                            /\ j = pc /\ b = Body /\ e = Final(script, test)
  OBVIOUS
<1>6. PICK s, v, on, off, j, b, e :
        s = Body[pc] /\ v = f[pc] /\ on = f[pc + 1] /\ off = Target(Body, f, Final(script, test), pc)
        /\ j = pc /\ b = Body /\ e = Final(script, test)
  BY <1>5
<1>7. At(s, v) /\ Sound(s, v, on, off)
  BY <1>4, <1>6
<1>8. Advance(s, on, off)
  BY <1>7, StepMove
<1>9. Shape' /\ UNCHANGED <<script, test>>
  BY <1>8 DEF Advance
<1>10. Body' = b /\ First(script, test)' = f[1] /\ Final(script, test)' = e /\ Ends(script, test)' = Ends(script, test)
  BY <1>4, <1>6, <1>9 DEF Body, First, Final, Ends
<1>11. j \in 1 .. n /\ Len(b) = n /\ b \in Seq(StepType) /\ Annotated(b, f, e) /\ f[n + 1] \in Ends(script, test)'
       /\ (s.catch \in {0, RETURN} \/ j + s.catch \in 1 .. n + 1) /\ on = f[j + 1]
       /\ off = IF s.catch = 0 THEN Dead ELSE IF s.catch = RETURN THEN e ELSE f[j + s.catch]
  BY <1>4, <1>6, <1>10 DEF Target
<1>12. n \in Nat /\ n <= 98
  OBVIOUS
<1>13. ASSUME NEW q \in 1 .. n + RETURN, pc' = q, Fits(IF q <= n + 1 THEN f[q] ELSE e)'
       PROVE  Placed'
  BY <1>10, <1>11, <1>13 DEF Placed
<1>14. CASE pc' = pc + 1 /\ status' = status /\ Fits(on)'
  <2>1. j + 1 \in 1 .. n + RETURN /\ j + 1 <= n + 1 /\ pc' = j + 1
    BY <1>6, <1>11, <1>14 DEF RETURN
  <2>2. Placed'
    BY <1>11, <1>13, <1>14, <2>1
  <2> QED BY <1>1, <1>4, <1>9, <1>14, <2>1, <2>2
<1>15. CASE s.catch # 0 /\ pc' = pc + s.catch /\ status' = status /\ Fits(off)'
  <2>1. CASE s.catch = RETURN
    <3>1. j + RETURN \in 1 .. n + RETURN /\ ~ (j + RETURN <= n + 1) /\ pc' = j + RETURN
      BY <1>6, <1>11, <1>12, <1>15, <2>1 DEF RETURN
    <3>2. Placed'
      BY <1>11, <1>13, <1>15, <2>1, <3>1
    <3> QED BY <1>1, <1>4, <1>9, <1>15, <3>1, <3>2
  <2>2. CASE s.catch # RETURN
    <3>1. j + s.catch \in 1 .. n + 1 /\ pc' = j + s.catch
      BY <1>6, <1>11, <1>15, <2>2
    <3>2. j + s.catch \in 1 .. n + RETURN /\ j + s.catch <= n + 1
      BY <3>1, <1>12 DEF RETURN
    <3>3. Placed'
      BY <1>11, <1>13, <1>15, <2>2, <3>1, <3>2
    <3> QED BY <1>1, <1>4, <1>9, <1>15, <3>1, <3>2, <3>3
  <2> QED BY <2>1, <2>2
<1>16. CASE s.catch = 0 /\ pc' = pc /\ status' = "died" /\ Fits(off)'
  <2>1. off = Dead
    BY <1>11, <1>16
  <2>2. Fits(Dead)'
    BY <1>16, <2>1
  <2>3. script' = script /\ Dead.kind = "dead"
    BY <1>9 DEF Dead
  <2>4. script \in OnDeployed => Clean'
    BY <2>2, <2>3 DEF Fits
  <2>5. pc' \in 1 .. Len(Body) + RETURN
    BY <1>16 DEF IInv
  <2> QED BY <1>9, <1>16, <2>4, <2>5
<1> QED BY <1>8, <1>14, <1>15, <1>16 DEF Advance

(* The read that starts the first scenario leaves everything as it is when *)
(* it fails.                                                               *)
LEMMA StartDies ==
  ASSUME IInv, Move, status' = "died", script = "test-happy-path", test = 2, pc = 1
  PROVE  hurt \subseteq hurt' /\ UNCHANGED <<market, opened>>
<1>1. status = "running" /\ pc <= Len(Body)
  BY DEF Move, Execute, Refuse, Fail, GetState, Find, Jump, Skip, Take, Say, WaitForWarmup, Runs
<1>2. Shape /\ Placed
  BY <1>1 DEF IInv
<1>3. PICK n \in 0 .. 98 : \E f : f[1] = First(script, test) /\ At(Body[pc], f[pc])
                                  /\ Sound(Body[pc], f[pc], f[pc + 1], Target(Body, f, Final(script, test), pc))
  BY <1>1, <1>2, AtStep
<1>4. \E v, on, off : v = First(script, test) /\ Sound(Body[pc], v, on, off)
  BY <1>3
<1>5. PICK v, on, off : v = First(script, test) /\ Sound(Body[pc], v, on, off)
  BY <1>4
<1>6. v.kind = "sweep" /\ v.stage = "start"
  BY <1>5 DEF First, Sweep
<1>7. Body[pc].op = "Read"
  <2>1. SweepStep(Body[pc], v, on, off)
    BY <1>5, <1>6 DEF Sound
  <2> QED BY <1>6, <2>1 DEF SweepStep
<1>8. ~ Sends(Body[pc])
  BY <1>7 DEF Sends, Instructions
<1>9. CASE Fail
  BY <1>7, <1>8, <1>9 DEF Fail, Opens
<1>10. CASE GetState
  BY <1>1, <1>7, <1>10 DEF GetState
<1> QED BY <1>1, <1>7, <1>8, <1>9, <1>10
        DEF Move, Execute, Refuse, Find, Jump, Skip, Take, Say, WaitForWarmup, Tests

LEMMA MoveKeeps == IInv /\ Move => IInv'
<1> SUFFICES ASSUME IInv, Move PROVE IInv'
  OBVIOUS
<1>1. /\ Shape' /\ UNCHANGED <<script, test>> /\ pc' \in 1 .. Len(Body) + RETURN
      /\ \/ status' = "running" /\ Placed'
         \/ status' = "died" /\ pc' = pc /\ (script \in OnDeployed => Clean')
  BY StepsOn
<1>2. Body' = Body
  BY <1>1 DEF Body
<1>3. CASE status' = "running" /\ Placed'
  <2>1. (Placed /\ pc = 1 /\ script = "test-happy-path" /\ test = 2 => 1 \in hurt \/ AllOpen)'
    BY StartsSwept, PTL
  <2>2. SweptBefore'
    BY <1>3, <2>1 DEF SweptBefore
  <2> QED BY <1>1, <1>2, <1>3, <2>2 DEF IInv
<1>4. CASE status' = "died" /\ pc' = pc /\ (script \in OnDeployed => Clean')
  <2>1. Stopped'
    BY <1>1, <1>4 DEF Stopped
  <2>2. SweptBefore'
    <3>1. SUFFICES ASSUME script = "test-happy-path", test = 2, pc = 1 PROVE 1 \in hurt' \/ AllOpen'
      BY <1>1, <1>4 DEF SweptBefore
    <3>2. hurt \subseteq hurt' /\ UNCHANGED <<market, opened>>
      BY <1>4, <3>1, StartDies
    <3>3. 1 \in hurt \/ AllOpen
      BY <3>1 DEF IInv, SweptBefore
    <3> QED BY <3>2, <3>3 DEF AllOpen, Leftovers, Used
  <2> QED BY <1>1, <1>2, <1>4, <2>1, <2>2 DEF IInv
<1> QED BY <1>1, <1>3, <1>4

(* What happens around a script leaves it where it is.                     *)
LEMMA DriftKeeps == IInv /\ (Join \/ \E i \in Slots : Mature(i)) => IInv'
<1> SUFFICES ASSUME IInv, Join \/ \E i \in Slots : Mature(i) PROVE IInv'
  OBVIOUS
<1>1. status = "running"
  BY DEF Join, Mature
<1>2. Shape /\ Placed
  BY <1>1 DEF IInv
<1>3. Drifts /\ Shape'
  BY <1>2, JoinDrifts, MatureDrifts
<1>4. UNCHANGED <<script, test, pc, status>>
  BY <1>3 DEF Drifts
<1>5. /\ Body' = Body /\ First(script, test)' = First(script, test) /\ Final(script, test)' = Final(script, test)
      /\ Ends(script, test)' = Ends(script, test)
  BY <1>4 DEF Body, First, Final, Ends
<1>6. PICK n \in 0 .. 98 : \E f :
        /\ Body \in Seq(StepType) /\ Len(Body) = n
        /\ f[1] = First(script, test) /\ f[n + 1] \in Ends(script, test) /\ Annotated(Body, f, Final(script, test))
        /\ pc \in 1 .. n + RETURN
        /\ Fits(IF pc <= n + 1 THEN f[pc] ELSE Final(script, test))
  BY <1>2 DEF Placed
<1>7. PICK f :
        /\ Body \in Seq(StepType) /\ Len(Body) = n
        /\ f[1] = First(script, test) /\ f[n + 1] \in Ends(script, test) /\ Annotated(Body, f, Final(script, test))
        /\ pc \in 1 .. n + RETURN
        /\ Fits(IF pc <= n + 1 THEN f[pc] ELSE Final(script, test))
  BY <1>6
<1>8. \E v, q, e : v = (IF pc <= n + 1 THEN f[pc] ELSE Final(script, test)) /\ q = pc /\ e = Final(script, test)
  OBVIOUS
<1>9. PICK v, q, e : v = (IF pc <= n + 1 THEN f[pc] ELSE Final(script, test)) /\ q = pc /\ e = Final(script, test)
  BY <1>8
<1>10. Fits(v)
  BY <1>7, <1>9
<1>11. Fits(v)'
  BY <1>2, <1>3, <1>10, DriftsFits
<1>12. pc' = q /\ Final(script, test)' = e /\ v = (IF q <= n + 1 THEN f[q] ELSE e)
  BY <1>4, <1>5, <1>9
<1>13. Fits(IF q <= n + 1 THEN f[q] ELSE e)'
  BY <1>11, <1>12
<1>14. Placed'
  BY <1>5, <1>7, <1>9, <1>12, <1>13 DEF Placed
<1>15. (Placed /\ pc = 1 /\ script = "test-happy-path" /\ test = 2 => 1 \in hurt \/ AllOpen)'
  BY StartsSwept, PTL
<1>16. SweptBefore'
  BY <1>14, <1>15 DEF SweptBefore
<1> QED BY <1>1, <1>3, <1>4, <1>5, <1>14, <1>16 DEF IInv

-----------------------------------------------------------------------------
(***************************************************************************)
(* A test that ends has given its account back, or was disturbed.          *)
(***************************************************************************)
LEMMA GoneIsClean ==
  ASSUME Fits(Gone), Shape
  PROVE  Clean /\ market.mark
<1>1. Gone.kind = "own" /\ Gone.cap = {}
  BY DEF Gone, Own
<1>2. FitsOwn(Gone)
  BY <1>1 DEF Fits
<1>3. /\ market.mark
      /\ test \in hurt \/ \A i \in Leftovers : opened[i] = test => i = idx
      /\ test \in hurt \/ ~ Mine(market, idx)
  BY <1>1, <1>2 DEF FitsOwn, Agrees
<1> QED BY <1>3 DEF Clean, Leftovers, Mine

(* What a test leaves, if it has not the drill's.                          *)
LEMMA EndIs ==
  ASSUME IInv, status = "running", pc > Len(Body)
  PROVE  /\ script \in OnDeployed => Clean /\ market.mark
         /\ script = "test-happy-path" /\ test = 1 => 1 \in hurt \/ AllOpen
         /\ script \in OnOwnSlab /\ Quiet => market.stage = "closed"
<1>1. Shape /\ Placed /\ script \in OnDeployed \cup OnOwnSlab /\ ~ (script \in OnDeployed /\ script \in OnOwnSlab)
  BY KnownScript DEF IInv, Shape
<1>2. PICK w \in Ends(script, test) : Fits(w)
  BY <1>1, AtEnd
<1>3. CASE script \in OnOwnSlab
  <2>1. w = Closing
    BY <1>2, <1>3 DEF Ends
  <2>2. w.kind = "drill" /\ w.stage = "closed"
    BY <2>1 DEF Closing, Drill
  <2>3. Quiet => market.stage = "closed"
    BY <1>2, <2>2 DEF Fits, FitsDrill
  <2> QED BY <1>1, <1>3, <2>3 DEF OnOwnSlab
<1>4. CASE script = "test-happy-path" /\ test = 1
  <2>1. w = Swept
    BY <1>2, <1>4 DEF Ends, OnOwnSlab
  <2>2. w.kind = "sweep" /\ w.stage = "swept" /\ w.mark
    BY <2>1 DEF Swept, Sweep
  <2>3. FitsSweep(w)
    BY <1>2, <2>2 DEF Fits
  <2> QED BY <1>1, <1>4, <2>2, <2>3 DEF FitsSweep, OnDeployed
<1>5. CASE script \in OnDeployed /\ ~ (script = "test-happy-path" /\ test = 1)
  <2>1. w = Done \/ w = Gone
    BY <1>1, <1>2, <1>5 DEF Ends
  <2>2. CASE w = Done
    <3>1. w.kind = "idle" /\ w.mark
      BY <2>2 DEF Done, Idle
    <3>2. Clean /\ market.mark
      BY <1>2, <3>1 DEF Fits, FitsIdle
    <3> QED BY <1>1, <1>5, <3>2
  <2>3. CASE w = Gone
    BY <1>1, <1>2, <1>5, <2>3, GoneIsClean
  <2> QED BY <2>1, <2>2, <2>3
<1> QED BY <1>1, <1>3, <1>4, <1>5

LEMMA NextTestKeeps == IInv /\ NextTest => IInv'
<1> SUFFICES ASSUME IInv, NextTest PROVE IInv'
  OBVIOUS
<1>1. /\ status = "running" /\ pc > Len(Body)
      /\ idx' = OWN /\ todo' = {} /\ seen' = [i \in Slots |-> NoAccount]
      /\ UNCHANGED <<script, market, faults, joins, opened, hurt, said>>
  BY DEF NextTest, world
<1>2. Shape /\ test \in 1 .. Len(Program[script]) /\ script \in OnDeployed \cup OnOwnSlab
  BY KnownScript DEF IInv, Shape
<1>3. seen' \in [Slots -> Account]
  BY <1>1, NoAccountType
<1>4. Leftovers' = Leftovers /\ Drilled(market') = Drilled(market)
  BY <1>1 DEF Leftovers, Used
<1>5. CASE test < Len(Program[script])
  <2>1. test' = test + 1 /\ pc' = 1 /\ status' = status
    BY <1>5 DEF NextTest
  <2>2. script \in OnDeployed
    <3>1. CASE script = "stress-bankrun"
      <4>1. Len(Program[script]) = 1
        BY <3>1, DrillsLed
      <4> QED BY <1>2, <1>5, <4>1
    <3>2. CASE script = "live-verify"
      <4>1. Len(Program[script]) = 1
        BY <3>2, DrillsLed
      <4> QED BY <1>2, <1>5, <4>1
    <3> QED BY <1>2, <3>1, <3>2 DEF OnOwnSlab
  <2>3. Clean /\ market.mark
    BY <1>1, <2>2, EndIs
  <2>4. \A i \in Slots : opened'[i] <= test /\ opened'[i] <= test' /\ opened'[i] # test'
    BY <1>1, <1>2, <2>1 DEF Shape
  <2>5. Past'
    BY <1>1, <1>2, <1>4, <2>2, <2>3 DEF Past, Clean, Shape
  <2>6. Shape'
    BY <1>1, <1>2, <1>3, <1>4, <2>1, <2>4, <2>5 DEF Shape
  <2>7. Clean' /\ market'.mark
    <3>1. \A i \in Leftovers' : i \in Slots
      BY <1>4 DEF Leftovers, Used
    <3>2. Clean'
      BY <2>4, <3>1 DEF Clean
    <3> QED BY <1>1, <2>3, <3>2
  <2>8. test' \in 1 .. Len(Program[script]) /\ test' # 1
    BY <1>2, <1>5, <2>1
  <2>9. Fits(First(script, test))'
    <3>1. CASE script = "test-happy-path" /\ test = 1
      <4>1. First(script, test)' = Sweep("start", TRUE)
        BY <1>1, <2>1, <3>1 DEF First
      <4>2. Sweep("start", TRUE).kind = "sweep" /\ Sweep("start", TRUE).stage = "start"
        BY DEF Sweep
      <4>3. 1 \in hurt' \/ AllOpen'
        BY <1>1, <1>4, <3>1, EndIs DEF AllOpen
      <4>4. Fits(Sweep("start", TRUE))'
        <5>1. PICK v : v = Sweep("start", TRUE)
          OBVIOUS
        <5>2. v.kind = "sweep" /\ v.stage = "start"
          BY <4>2, <5>1
        <5>3. FitsSweep(v)'
          BY <2>1, <2>7, <3>1, <4>3, <5>2 DEF FitsSweep
        <5>4. Fits(v)'
          BY <1>1, <2>2, <5>2, <5>3 DEF Fits, TestKinds, DrillKinds
        <5> QED BY <5>1, <5>4
      <4> QED BY <4>1, <4>4
    <3>2. CASE ~ (script = "test-happy-path" /\ test = 1)
      <4>1. First(script, test)' = Done
        <5>1. test \in Nat \ {0} /\ script' = script
          BY <1>1, <1>2, Programs
        <5>2. test' # 1 /\ (script = "test-happy-path" => test' # 2)
          BY <2>1, <3>2, <5>1
        <5> QED BY <2>2, <5>1, <5>2 DEF First, OnDeployed
      <4>2. Done.kind = "idle" /\ Done.mark
        BY DEF Done, Idle
      <4>3. Fits(Done)'
        BY <1>1, <2>2, <2>7, <4>2 DEF Fits, FitsIdle, TestKinds, DrillKinds
      <4> QED BY <4>1, <4>3
    <3> QED BY <3>1, <3>2
  <2>10. (script \in OnDeployed \cup OnOwnSlab /\ test \in 1 .. Len(Program[script]) /\ pc = 1 /\ Fits(First(script, test))
            => Placed /\ pc \in 1 .. Len(Body) + RETURN)'
    BY BeginsWell, PTL
  <2>11. Placed' /\ (pc \in 1 .. Len(Body) + RETURN)'
    BY <1>1, <1>2, <2>1, <2>8, <2>9, <2>10
  <2>12. (Placed /\ pc = 1 /\ script = "test-happy-path" /\ test = 2 => 1 \in hurt \/ AllOpen)'
    BY StartsSwept, PTL
  <2>13. SweptBefore'
    BY <2>11, <2>12 DEF SweptBefore
  <2> QED BY <1>1, <2>1, <2>6, <2>8, <2>11, <2>13 DEF IInv
<1>6. CASE ~ (test < Len(Program[script]))
  <2>1. status' = "ended" /\ UNCHANGED <<test, pc>>
    BY <1>6 DEF NextTest, where
  <2>2. Past' = Past /\ Clean' = Clean /\ AllOpen' = AllOpen /\ Quiet' = Quiet /\ Body' = Body
    BY <1>1, <1>4, <2>1 DEF Past, Clean, AllOpen, Quiet, Body
  <2>3. Shape'
    BY <1>1, <1>2, <1>3, <1>4, <2>1, <2>2 DEF Shape
  <2>4. Stopped'
    BY <1>1, <2>2, EndIs DEF Stopped
  <2>5. SweptBefore'
    BY <1>1, <2>1, <2>2 DEF IInv, SweptBefore
  <2> QED BY <1>1, <2>1, <2>2, <2>3, <2>4, <2>5 DEF IInv
<1> QED BY <1>5, <1>6

-----------------------------------------------------------------------------
LEMMA StutterKeeps == IInv /\ UNCHANGED vars => IInv'
<1> SUFFICES ASSUME IInv, UNCHANGED vars PROVE IInv'
  OBVIOUS
<1>1. UNCHANGED <<script, market, test, pc, idx, seen, todo, status, faults, joins, opened, hurt, said>>
  BY DEF vars, where, world
<1>2. ASSUME NEW v, Fits(v) PROVE Fits(v)'
  BY <1>1, <1>2 DEF Fits, FitsIdle, FitsAsked, FitsFresh, FitsOwn, FitsSweep, FitsDrill, FitsCalm, Clean, Leftovers, Used,
                    AllLeft, Listed, Emptied, AllOpen, Quiet
<1>3. Shape'
  BY <1>1 DEF IInv, Shape, Past, Leftovers, Used
<1>4. /\ Body' = Body /\ First(script, test)' = First(script, test) /\ Final(script, test)' = Final(script, test)
      /\ Ends(script, test)' = Ends(script, test)
  BY <1>1 DEF Body, First, Final, Ends
<1>5. Placed => Placed'
  <2> SUFFICES ASSUME Placed PROVE Placed'
    OBVIOUS
  <2>1. PICK n \in 0 .. 98 : \E f :
          /\ Body \in Seq(StepType) /\ Len(Body) = n
          /\ f[1] = First(script, test) /\ f[n + 1] \in Ends(script, test) /\ Annotated(Body, f, Final(script, test))
          /\ pc \in 1 .. n + RETURN
          /\ Fits(IF pc <= n + 1 THEN f[pc] ELSE Final(script, test))
    BY DEF Placed
  <2>2. PICK f :
          /\ Body \in Seq(StepType) /\ Len(Body) = n
          /\ f[1] = First(script, test) /\ f[n + 1] \in Ends(script, test) /\ Annotated(Body, f, Final(script, test))
          /\ pc \in 1 .. n + RETURN
          /\ Fits(IF pc <= n + 1 THEN f[pc] ELSE Final(script, test))
    BY <2>1
  <2>3. \E q, e : q = pc /\ e = Final(script, test)
    OBVIOUS
  <2>4. PICK q, e : q = pc /\ e = Final(script, test)
    BY <2>3
  <2>5. Fits(IF q <= n + 1 THEN f[q] ELSE e)
    BY <2>2, <2>4
  <2>6. Fits(IF q <= n + 1 THEN f[q] ELSE e)'
    BY <1>2, <2>5
  <2>7. pc' = q /\ Final(script, test)' = e
    BY <1>1, <1>4, <2>4
  <2> QED BY <1>4, <2>2, <2>4, <2>6, <2>7 DEF Placed
<1>6. Stopped => Stopped'
  BY <1>1 DEF Stopped, Clean, Leftovers, Used, Quiet
<1>7. SweptBefore'
  BY <1>1 DEF IInv, SweptBefore, AllOpen, Leftovers, Used
<1> QED BY <1>1, <1>3, <1>4, <1>5, <1>6, <1>7 DEF IInv

-----------------------------------------------------------------------------
(***************************************************************************)
(* The theorems.                                                           *)
(***************************************************************************)
(* A script that runs is where an annotated test says it is.               *)
THEOREM Invariance == Spec => []IInv
<1>1. IInv /\ [Next]_vars => IInv'
  <2> SUFFICES ASSUME IInv, [Next]_vars PROVE IInv'
    OBVIOUS
  <2>1. CASE Move
    BY <2>1, MoveKeeps
  <2>2. CASE NextTest
    BY <2>2, NextTestKeeps
  <2>3. CASE Join \/ \E i \in Slots : Mature(i)
    BY <2>3, DriftKeeps
  <2>4. CASE UNCHANGED vars
    BY <2>4, StutterKeeps
  <2> QED BY <2>1, <2>2, <2>3, <2>4 DEF Next, Move
<1> QED BY <1>1, InitWell, PTL DEF Spec

(* Every variable has its type, the freelist holds the free slots, and the *)
(* positions of a live market add up to nothing, for any number of slots,  *)
(* users, faults and strangers.                                            *)
THEOREM TypeCorrect == Spec => []TypeOK
<1>1. IInv => TypeOK
  BY DEF IInv, Shape, Books, Market, Account, Stages, Prices, TypeOK
<1> QED BY <1>1, Invariance, PTL

(* A test gives back the account it opened unless it met a fault or a      *)
(* stranger (cleanup, the closes that end each scenario), and the flat     *)
(* accounts of earlier runs are closed before the first scenario.          *)
THEOREM NothingLeft == Spec => []LeftOnlyByFaults
<1>1. IInv => LeftOnlyByFaults
  <2> SUFFICES ASSUME IInv, script \in OnDeployed
               PROVE  /\ \A i \in Leftovers :
                           opened[i] # Nobody => opened[i] \in hurt \cup (IF status = "running" THEN {test} ELSE {})
                      /\ script = "test-happy-path" /\ test = 2 /\ pc = 1 /\ 1 \notin hurt
                           => \A i \in Leftovers : market.account[i].pos # 0
    BY DEF LeftOnlyByFaults
  <2>1. Past
    BY DEF IInv, Shape
  <2>2. status # "running" => Clean
    BY DEF IInv, Stopped
  <2>3. \A i \in Leftovers : opened[i] # Nobody => opened[i] \in hurt \cup (IF status = "running" THEN {test} ELSE {})
    BY <2>1, <2>2 DEF Past, Clean
  <2>4. script = "test-happy-path" /\ test = 2 /\ pc = 1 /\ 1 \notin hurt => \A i \in Leftovers : market.account[i].pos # 0
    BY DEF IInv, SweptBefore, AllOpen
  <2> QED BY <2>3, <2>4
<1> QED BY <1>1, Invariance, PTL

(* A drill that nothing disturbed ends with its slab closed and the rent   *)
(* back (phase 6 of stress-bankrun, the clean-up of live-verify).          *)
THEOREM SlabReturned == Spec => []DrillReturnsSlab
<1>1. IInv => DrillReturnsSlab
  BY DEF IInv, Stopped, Quiet, DrillReturnsSlab
<1> QED BY <1>1, Invariance, PTL
===============================================================================
