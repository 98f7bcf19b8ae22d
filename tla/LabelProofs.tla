------------------------------ MODULE LabelProofs ------------------------------
(***************************************************************************)
(* Proofs about label: what becomes of one record (LabelRuns), and what    *)
(* becomes of all of them in the threads (LabelPipeline).                  *)
(*                                                                         *)
(* What a worker of label does to a record's observations, for any number  *)
(* of records and runs, any command lines, and any use that other          *)
(* processes make of the cache: no request is answered twice in a record,  *)
(* nothing is lost from one but for an answer of its own request, the      *)
(* cache gives a run what its own engine could have answered, and a        *)
(* resumed run searches for nothing that is covered.  All of it rests on   *)
(* what Vec::retain does (RetainedIs), and on the cache holding under each *)
(* key an answer to a request that has this key.                           *)
(*                                                                         *)
(* The threads, for every set of workers, every window, every capacity of  *)
(* the job channel and every length of the input.  The argument is the     *)
(* invariant IInv: a dispatched record is in exactly one place of the      *)
(* pipeline, and permits count the records between dispatch and the file.  *)
(***************************************************************************)
EXTENDS LabelPipeline, LabelRuns, FiniteSetTheorems, WellFoundedInduction, TLAPS

-----------------------------------------------------------------------------
(* retain.                                                                 *)

LEMMA Least ==
    ASSUME NEW T, T \subseteq Nat, T # {}
    PROVE  \E x \in T : \A y \in T : x <= y
<1> DEFINE R == OpToRel(<, Nat)
<1>1. IsWellFoundedOn(R, Nat)
  BY NatLessThanWellFounded
<1> HIDE DEF R
<1>2. PICK x \in T : \A y \in T : ~ (<<y, x>> \in R)
  BY <1>1, WFMin
<1>3. \A y \in T : y < x => <<y, x>> \in R
  BY Zenon DEF R, OpToRel
<1>4. \A y \in T : x <= y
  <2>1. \A y \in T : ~ (y < x)
    BY <1>2, <1>3
  <2>2. x \in Nat /\ \A y \in T : y \in Nat
    OBVIOUS
  <2> QED BY <2>1, <2>2
<1> QED BY <1>4

\* g[m] is what is left of the first m observations of s, for m up to n.
Kept(g, s, o, n) ==
    g = [m \in 0..n |->
            IF m = 0 THEN <<>>
            ELSE IF SameSearchRequest(s[m], o) THEN g[m - 1] ELSE Append(g[m - 1], s[m])]

LEMMA KeptExtends ==
    ASSUME NEW s, NEW o, NEW n \in Nat \ {0}, NEW g, Kept(g, s, o, n - 1)
    PROVE  \E h : Kept(h, s, o, n)
<1> DEFINE step(f, m) == IF m = 0 THEN <<>>
                         ELSE IF SameSearchRequest(s[m], o) THEN f[m - 1]
                                                            ELSE Append(f[m - 1], s[m])
           h == [m \in 0..n |-> IF m = n THEN step(g, n) ELSE g[m]]
<1>1. \A m \in 0..n - 1 : h[m] = g[m] /\ m \in 0..n /\ m # n
  OBVIOUS
<1>2. \A m \in 0..n : step(h, m) = step(g, m)
  <2> TAKE m \in 0..n
  <2>1. CASE m = 0
    BY <2>1
  <2>2. CASE m # 0
    <3>1. m - 1 \in 0..n - 1
      BY <2>2
    <3>2. h[m - 1] = g[m - 1]
      BY <1>1, <3>1
    <3> HIDE DEF h
    <3> QED BY <3>2
  <2> QED BY <2>1, <2>2
<1>3. \A m \in 0..n - 1 : g[m] = step(g, m)
  <2>1. g = [m \in 0..n - 1 |-> step(g, m)]
    BY DEF Kept
  <2> HIDE DEF step
  <2> QED BY <2>1
<1>4. \A m \in 0..n : h[m] = step(g, m)
  <2> TAKE m \in 0..n
  <2>1. CASE m = n
    <3> HIDE DEF step
    <3> QED BY <2>1
  <2>2. CASE m # n
    <3>1. m \in 0..n - 1
      BY <2>2
    <3> QED BY <1>1, <1>3, <3>1, Zenon
  <2> QED BY <2>1, <2>2
<1>5. h = [m \in 0..n |-> h[m]]
  OBVIOUS
<1> HIDE DEF h
<1>6. h = [m \in 0..n |-> step(h, m)]
  <2>1. \A m \in 0..n : h[m] = step(h, m)
    BY <1>2, <1>4, Zenon
  <2> HIDE DEF step
  <2> QED BY <1>5, <2>1
<1>7. Kept(h, s, o, n)
  BY <1>6 DEF Kept
<1> QED BY <1>7

LEMMA KeptExists ==
    ASSUME NEW s, NEW o, NEW n \in Nat
    PROVE  \E g : Kept(g, s, o, n)
<1> DEFINE T == {m \in Nat : ~ \E g : Kept(g, s, o, m)}
<1> SUFFICES ASSUME T # {} PROVE FALSE
  OBVIOUS
<1>1. PICK m \in T : \A k \in T : m <= k
  <2>1. T \subseteq Nat
    OBVIOUS
  <2> HIDE DEF T
  <2> QED BY <2>1, Least
<1>2. CASE m = 0
  <2> DEFINE g == [k \in 0..0 |-> <<>>]
  <2>1. g = [k \in 0..0 |->
                IF k = 0 THEN <<>>
                ELSE IF SameSearchRequest(s[k], o) THEN g[k - 1] ELSE Append(g[k - 1], s[k])]
    OBVIOUS
  <2> HIDE DEF g
  <2>2. Kept(g, s, o, 0)
    BY <2>1 DEF Kept
  <2> QED BY <1>2, <2>2
<1>3. CASE m # 0
  <2>1. m \in Nat \ {0} /\ m - 1 \in Nat /\ m - 1 \notin T
    BY <1>1, <1>3
  <2>2. \E g : Kept(g, s, o, m - 1)
    BY <2>1
  <2> QED BY <2>1, <2>2, KeptExtends
<1> QED BY <1>2, <1>3

LEMMA RetainedUnfolds ==
    ASSUME NEW s, NEW o, Len(s) \in Nat
    PROVE  \E g : Kept(g, s, o, Len(s)) /\ Retained(s, o) = g[Len(s)]
<1> DEFINE kept == CHOOSE f : f = [n \in 0..Len(s) |->
                        IF n = 0 THEN <<>>
                        ELSE IF SameSearchRequest(s[n], o) THEN f[n - 1]
                                                           ELSE Append(f[n - 1], s[n])]
<1>1. PICK g : Kept(g, s, o, Len(s))
  BY KeptExists
<1>2. kept = [n \in 0..Len(s) |->
                IF n = 0 THEN <<>>
                ELSE IF SameSearchRequest(s[n], o) THEN kept[n - 1]
                                                   ELSE Append(kept[n - 1], s[n])]
  BY <1>1, Zenon DEF Kept
<1>3. Kept(kept, s, o, Len(s))
  BY <1>2, Zenon DEF Kept
<1>4. Retained(s, o) = kept[Len(s)]
  BY Zenon DEF Retained
<1> QED BY <1>3, <1>4

\* What one step of the loop does with the elements.
LEMMA AppendElems ==
    ASSUME NEW S, NEW s \in Seq(S), NEW x \in S
    PROVE  /\ Append(s, x) \in Seq(S)
           /\ Elems(Append(s, x)) = Elems(s) \union {x}
<1> DEFINE new == Append(s, x)
<1>1. /\ new \in Seq(S) /\ Len(new) = Len(s) + 1 /\ Len(s) \in Nat
      /\ \A i \in 1..Len(s) : new[i] = s[i]
      /\ new[Len(s) + 1] = x
  OBVIOUS
<1> HIDE DEF new
<1>2. Elems(new) = Elems(s) \union {x}
  <2>1. \A i \in 1..Len(s) + 1 : i \in 1..Len(s) \/ i = Len(s) + 1
    BY <1>1
  <2>2. Len(s) + 1 \in 1..Len(s) + 1 /\ \A i \in 1..Len(s) : i \in 1..Len(s) + 1
    BY <1>1
  <2> QED BY <1>1, <2>1, <2>2 DEF Elems
<1> QED BY <1>1, <1>2 DEF new

LEMMA AppendDistinct ==
    ASSUME NEW s \in Seq(Observations), NEW x \in Observations, DistinctRequests(s),
           \A p \in Elems(s) : ~SameSearchRequest(p, x) /\ ~SameSearchRequest(x, p)
    PROVE  DistinctRequests(Append(s, x))
<1> DEFINE new == Append(s, x)
<1>1. /\ Len(new) = Len(s) + 1 /\ Len(s) \in Nat
      /\ \A i \in 1..Len(s) : new[i] = s[i] /\ s[i] \in Elems(s)
      /\ new[Len(s) + 1] = x
  BY DEF Elems
<1> HIDE DEF new
<1> SUFFICES ASSUME NEW i \in 1..Len(new), NEW j \in 1..Len(new), i # j
             PROVE  ~SameSearchRequest(new[i], new[j])
  BY DEF DistinctRequests, new
<1>2. CASE i \in 1..Len(s) /\ j \in 1..Len(s)
  BY <1>1, <1>2 DEF DistinctRequests
<1>3. CASE i \in 1..Len(s) /\ j = Len(s) + 1
  BY <1>1, <1>3
<1>4. CASE i = Len(s) + 1 /\ j \in 1..Len(s)
  BY <1>1, <1>4
<1> QED BY <1>1, <1>2, <1>3, <1>4

\* retain leaves what is not of the request of o, and keeps distinct what is distinct.
LEMMA RetainedIs ==
    ASSUME NEW s \in Seq(Observations), NEW o
    PROVE  /\ Retained(s, o) \in Seq(Observations)
           /\ \A p : p \in Elems(Retained(s, o)) <=> p \in Elems(s) /\ ~SameSearchRequest(p, o)
           /\ DistinctRequests(s) => DistinctRequests(Retained(s, o))
<1>0. Len(s) \in Nat /\ \A i \in 1..Len(s) : s[i] \in Observations
  OBVIOUS
<1>1. PICK g : Kept(g, s, o, Len(s)) /\ Retained(s, o) = g[Len(s)]
  BY <1>0, RetainedUnfolds
<1> DEFINE Good(n) ==
        /\ g[n] \in Seq(Observations)
        /\ \A p : p \in Elems(g[n]) <=> \E i \in 1..n : p = s[i] /\ ~SameSearchRequest(s[i], o)
        /\ DistinctRequests(s) => DistinctRequests(g[n])
<1>2. g[0] = <<>>
  BY <1>0, <1>1 DEF Kept
<1>3. ASSUME NEW n \in 1..Len(s)
      PROVE  g[n] = IF SameSearchRequest(s[n], o) THEN g[n - 1] ELSE Append(g[n - 1], s[n])
  <2>1. n \in 0..Len(s) /\ n # 0
    BY <1>0
  <2>2. g = [m \in 0..Len(s) |->
                IF m = 0 THEN <<>>
                ELSE IF SameSearchRequest(s[m], o) THEN g[m - 1] ELSE Append(g[m - 1], s[m])]
    BY <1>1 DEF Kept
  <2> QED BY <2>1, <2>2
<1>4. Good(0)
  BY <1>2 DEF Elems, DistinctRequests
<1>5. ASSUME NEW n \in 1..Len(s), Good(n - 1) PROVE Good(n)
  <2>1. \A i \in 1..n : i \in 1..n - 1 \/ i = n
    OBVIOUS
  <2>2. n \in 1..n /\ \A i \in 1..n - 1 : i \in 1..n
    OBVIOUS
  <2>3. CASE SameSearchRequest(s[n], o)
    <3>1. g[n] = g[n - 1]
      BY <1>3, <2>3
    <3>2. ASSUME NEW p
          PROVE  (\E i \in 1..n : p = s[i] /\ ~SameSearchRequest(s[i], o))
                 <=> \E i \in 1..n - 1 : p = s[i] /\ ~SameSearchRequest(s[i], o)
      BY <2>1, <2>2, <2>3, Zenon
    <3> QED BY <1>5, <3>1, <3>2
  <2>4. CASE ~SameSearchRequest(s[n], o)
    <3>1. g[n] = Append(g[n - 1], s[n]) /\ s[n] \in Observations
      BY <1>0, <1>3, <2>4
    <3>2. /\ g[n] \in Seq(Observations)
          /\ Elems(g[n]) = Elems(g[n - 1]) \union {s[n]}
      BY <1>5, <3>1, AppendElems
    <3>3. ASSUME NEW p
          PROVE  p \in Elems(g[n]) <=> \E i \in 1..n : p = s[i] /\ ~SameSearchRequest(s[i], o)
      <4>1. p \in Elems(g[n]) <=> p \in Elems(g[n - 1]) \/ p = s[n]
        BY <3>2
      <4>2. p \in Elems(g[n - 1]) <=> \E i \in 1..n - 1 : p = s[i] /\ ~SameSearchRequest(s[i], o)
        BY <1>5
      <4> QED BY <2>1, <2>2, <2>4, <4>1, <4>2, Zenon
    <3>4. ASSUME DistinctRequests(s) PROVE DistinctRequests(g[n])
      <4>1. \A p \in Elems(g[n - 1]) : ~SameSearchRequest(p, s[n]) /\ ~SameSearchRequest(s[n], p)
        <5> TAKE p \in Elems(g[n - 1])
        <5>1. PICK i \in 1..n - 1 : p = s[i]
          BY <1>5
        <5>2. i \in 1..Len(s) /\ i # n
          BY <1>0
        <5> QED BY <3>4, <5>1, <5>2 DEF DistinctRequests
      <4> QED BY <1>5, <3>1, <3>4, <4>1, AppendDistinct
    <3> QED BY <3>2, <3>3, <3>4
  <2> QED BY <2>3, <2>4
<1>6. \A n \in 0..Len(s) : Good(n)
  <2> DEFINE T == {n \in 0..Len(s) : ~Good(n)}
  <2> SUFFICES ASSUME T # {} PROVE FALSE
    OBVIOUS
  <2> HIDE DEF Good
  <2>1. PICK n \in T : \A k \in T : n <= k
    <3>1. T \subseteq Nat
      BY <1>0
    <3> HIDE DEF T
    <3> QED BY <3>1, Least
  <2>2. n # 0
    BY <1>4
  <2>3. n \in 1..Len(s) /\ n - 1 \in 0..Len(s) /\ n - 1 \notin T
    BY <1>0, <2>1, <2>2
  <2>4. Good(n - 1)
    BY <2>3
  <2> QED BY <1>5, <2>3, <2>4
<1>7. Good(Len(s))
  <2>1. Len(s) \in 0..Len(s)
    BY <1>0
  <2> HIDE DEF Good
  <2> QED BY <1>6, <2>1
<1>8. \A p : p \in Elems(s) <=> \E i \in 1..Len(s) : p = s[i]
  BY DEF Elems
<1>9. ASSUME NEW p
      PROVE  p \in Elems(Retained(s, o)) <=> p \in Elems(s) /\ ~SameSearchRequest(p, o)
  BY <1>1, <1>7, <1>8
<1> QED BY <1>1, <1>7, <1>9

-----------------------------------------------------------------------------
(* The invariant.                                                          *)

WrittenOrNot == {<<>>} \union {<<s>> : s \in Seq(Observations)}
Files == [1..Records -> WrittenOrNot]

RecordInHand == pc \in {"engine", "limits", "write"}

TypeInv ==
    /\ input \in [1..Records -> Inputs]
    /\ outs \in Seq(Files)
    /\ pc \in {"off", "read", "engine", "limits", "write"}
    /\ pc # "off" => run \in Configs /\ base \in 0..Len(outs) - 1 /\ pos # 0
    /\ pos \in Nat /\ (RecordInHand => pos \in 1..Records)
    /\ obs \in Seq(Observations)
    /\ searches \in Nat
    /\ pc = "limits" => at \in Nat \ {0}

\* Under each key lies an answer to a request that has this key.
CacheInv ==
    \A k \in DOMAIN cache : \E c \in Configs : \E r \in Nat : \E i \in 1..Len(c.limits) :
        k = LabelCachePath(c, r, c.limits[i]) /\ cache[k] \in Answers(c, c.limits[i])

DistinctInv ==
    RecordInHand /\ base = 0 /\ ExistingPolicy(run) # "append" /\ DistinctRequests(input[pos]) => DistinctRequests(obs)

\* What the file to resume from says of the record is still in it, if only by the depth
\* that was reached, or its node budget was searched again.
Survives(o) ==
    \/ o \in Elems(obs)
    \/ o.kind = "depth" /\ \E p \in Elems(obs) :
           p.kind = "depth" /\ p.ranks = o.ranks /\ p.achieved = o.achieved
    \/ pc = "limits" /\ \E i \in 1..at - 1 : run.limits[i] = [kind |-> "nodes", value |-> o.requested]

ResumeInv ==
    pc \in {"engine", "limits"} /\ resumed =>
        /\ base # 0 /\ outs[base][pos] # <<>>
        /\ \A o \in Elems(outs[base][pos][1]) : Survives(o)

Inv == TypeInv /\ CacheInv /\ DistinctInv /\ ResumeInv

-----------------------------------------------------------------------------
(* The cache.                                                              *)

LEMMA AnswersAreObservations ==
    ASSUME NEW c \in Configs, NEW i \in 1..Len(c.limits), NEW o \in Answers(c, c.limits[i])
    PROVE  /\ o \in Observations /\ c.limits[i] \in Limits
           /\ o.kind = c.limits[i].kind /\ o.requested = c.limits[i].value
           /\ o.requested # 0
<1>1. /\ c.limits \in Seq(Limits) /\ c.multipv \in Nat /\ c.build \in Nat
  BY RunsAssumption
<1>2. c.limits[i] \in Limits
  BY <1>1
<1>3. c.limits[i].kind \in {"depth", "nodes"} /\ c.limits[i].value \in Nat \ {0}
  BY <1>2 DEF Limits
<1>4. \A a \in Reached(c.limits[i]) : a \in Nat
  BY <1>3 DEF Reached
<1>5. o \in [kind : {c.limits[i].kind}, requested : {c.limits[i].value},
             achieved : Reached(c.limits[i]), ranks : 1..c.multipv, build : {c.build}]
  BY DEF Answers
<1>6. /\ o = [kind |-> o.kind, requested |-> o.requested, achieved |-> o.achieved,
              ranks |-> o.ranks, build |-> o.build]
      /\ o.kind = c.limits[i].kind /\ o.requested = c.limits[i].value
      /\ o.achieved \in Reached(c.limits[i]) /\ o.ranks \in 1..c.multipv
      /\ o.build = c.build
  BY <1>5
<1>7. \A k \in 1..c.multipv : k \in Nat
  BY <1>1
<1>8. /\ o.kind \in {"depth", "nodes"} /\ o.requested \in Nat /\ o.achieved \in Nat
      /\ o.ranks \in Nat /\ o.build \in Nat
  BY <1>1, <1>3, <1>4, <1>6, <1>7
<1>9. o \in Observations
  BY <1>6, <1>8 DEF Observations
<1> QED BY <1>2, <1>3, <1>6, <1>9

\* What a hit returns was asked for by the limit in hand.
LEMMA HitAnswers ==
    ASSUME TypeInv, CacheInv, AtLimit, CacheHit
    PROVE  /\ cache[Key] \in Observations
           /\ cache[Key].kind = Limit.kind /\ cache[Key].requested = Limit.value
           /\ cache[Key].requested # 0
           /\ run.fingerprint => cache[Key] \in Answers(run, Limit)
<1>1. Key \in DOMAIN cache
  BY DEF CacheHit
<1>a. PICK c \in Configs : \E r \in Nat : \E i \in 1..Len(c.limits) :
          Key = LabelCachePath(c, r, c.limits[i]) /\ cache[Key] \in Answers(c, c.limits[i])
  BY <1>1 DEF CacheInv
<1>b. PICK r \in Nat : \E i \in 1..Len(c.limits) :
          Key = LabelCachePath(c, r, c.limits[i]) /\ cache[Key] \in Answers(c, c.limits[i])
  BY <1>a
<1>2. PICK i \in 1..Len(c.limits) :
          Key = LabelCachePath(c, r, c.limits[i]) /\ cache[Key] \in Answers(c, c.limits[i])
  BY <1>b
<1>3. /\ Limit = c.limits[i] /\ run.multipv = c.multipv
      /\ (IF run.fingerprint THEN run.build ELSE 0) = (IF c.fingerprint THEN c.build ELSE 0)
  BY <1>2 DEF Key, LabelCachePath
<1>4. run \in Configs
  BY DEF TypeInv, AtLimit
<1>5. run.fingerprint => cache[Key] \in Answers(run, Limit)
  <2> HAVE run.fingerprint
  <2>1. run.build # 0
    BY <1>4, RunsAssumption
  <2>2. run.build = c.build
    BY <1>3, <2>1
  <2> QED BY <1>2, <1>3, <2>2 DEF Answers
<1>6. /\ cache[Key] \in Observations
      /\ cache[Key].kind = c.limits[i].kind /\ cache[Key].requested = c.limits[i].value
      /\ cache[Key].requested # 0
  BY <1>2, AnswersAreObservations
<1> QED BY <1>3, <1>5, <1>6

\* An entry written under a key is an answer to a request that has it.
LEMMA CacheWrite ==
    ASSUME CacheInv, NEW c \in Configs, NEW r \in Nat, NEW i \in 1..Len(c.limits),
           NEW o \in Answers(c, c.limits[i]), NEW k, k = LabelCachePath(c, r, c.limits[i]),
           DOMAIN cache' = DOMAIN cache \union {k}, cache'[k] = o,
           \A q \in DOMAIN cache : q # k => cache'[q] = cache[q]
    PROVE  CacheInv'
<1> SUFFICES ASSUME NEW q \in DOMAIN cache'
             PROVE  \E d \in Configs : \E s \in Nat : \E j \in 1..Len(d.limits) :
                        /\ q = LabelCachePath(d, s, d.limits[j])
                        /\ cache'[q] \in Answers(d, d.limits[j])
  BY DEF CacheInv
<1>1. CASE q = k
  <2>1. cache'[q] = o
    BY <1>1
  <2> QED BY <1>1, <2>1
<1>2. CASE q # k
  <2>1. q \in DOMAIN cache /\ cache'[q] = cache[q]
    BY <1>2
  <2> QED BY <2>1 DEF CacheInv
<1> QED BY <1>1, <1>2

-----------------------------------------------------------------------------
(* What the loop over the limits does to a record.                         *)

\* Keep loses only observations of the request of o, which is there afterwards.
LEMMA KeepIs ==
    ASSUME TypeInv, NEW o \in Observations, o.requested # 0, Keep(o)
    PROVE  /\ obs' \in Seq(Observations) /\ o \in Elems(obs')
           /\ \A p \in Elems(obs) : p \in Elems(obs') \/ SameSearchRequest(p, o)
           /\ ExistingPolicy(run) # "append" /\ DistinctRequests(obs) => DistinctRequests(obs')
<1>1. obs \in Seq(Observations)
  BY DEF TypeInv
<1> DEFINE left == IF ExistingPolicy(run) = "append" THEN obs ELSE Retained(obs, o)
<1>2. obs' = Append(left, o)
  BY DEF Keep
<1>3. /\ Retained(obs, o) \in Seq(Observations)
      /\ \A p : p \in Elems(Retained(obs, o)) <=> p \in Elems(obs) /\ ~SameSearchRequest(p, o)
      /\ DistinctRequests(obs) => DistinctRequests(Retained(obs, o))
  BY <1>1, RetainedIs
<1>4. left \in Seq(Observations)
  BY <1>1, <1>3
<1>5. \A p \in Elems(obs) : p \in Elems(left) \/ SameSearchRequest(p, o)
  BY <1>3
<1>6. ExistingPolicy(run) # "append" /\ DistinctRequests(obs) => DistinctRequests(obs')
  <2> HAVE ExistingPolicy(run) # "append" /\ DistinctRequests(obs)
  <2>1. left = Retained(obs, o)
    OBVIOUS
  <2>2. DistinctRequests(left) /\ \A p \in Elems(left) : p \in Elems(obs) /\ ~SameSearchRequest(p, o)
    BY <1>3, <2>1
  <2>3. \A p \in Elems(left) : ~SameSearchRequest(o, p)
    <3> TAKE p \in Elems(left)
    <3>1. p \in Observations
      <4>1. PICK i \in 1..Len(obs) : p = obs[i]
        BY <2>2 DEF Elems
      <4> QED BY <1>1, <4>1
    <3>2. ~SameSearchRequest(p, o)
      BY <2>2
    <3> QED BY <3>1, <3>2 DEF SameSearchRequest
  <2> HIDE DEF left
  <2> QED BY <1>2, <1>4, <2>2, <2>3, AppendDistinct
<1> HIDE DEF left
<1>7. obs' \in Seq(Observations) /\ Elems(obs') = Elems(left) \union {o}
  BY <1>2, <1>4, AppendElems
<1> QED BY <1>5, <1>6, <1>7

\* What the limits do to a record that was resumed, when the limit in hand is answered
\* by o and when it is passed over.
LEMMA KeepSurvives ==
    ASSUME TypeInv, ResumeInv, AtLimit, NEW o \in Observations,
           o.kind = Limit.kind, o.requested = Limit.value, o.requested # 0, Keep(o),
           at' = at + 1, UNCHANGED <<outs, run, pc, pos, base, resumed>>
    PROVE  ResumeInv'
<1>1. /\ o \in Elems(obs')
      /\ \A p \in Elems(obs) : p \in Elems(obs') \/ SameSearchRequest(p, o)
  BY KeepIs
<1>2. run.limits \in Seq(Limits) /\ at \in 1..Len(run.limits) /\ pc = "limits"
  BY RunsAssumption DEF TypeInv, AtLimit
<1>3. Limit = [kind |-> o.kind, value |-> o.requested] /\ o.kind \in {"depth", "nodes"}
  <2>1. Limit \in Limits
    BY <1>2 DEF Limit
  <2> QED BY <2>1 DEF Limits, Observations
<1> SUFFICES ASSUME resumed, base # 0, outs[base][pos] # <<>>,
                    NEW q \in Elems(outs[base][pos][1]), Survives(q)
             PROVE  Survives(q)'
  BY <1>2 DEF ResumeInv, AtLimit, Elems
<1>4. \A i \in 1..at - 1 : i \in 1..at' - 1
  BY <1>2
<1>5. at \in 1..at' - 1 /\ run'.limits[at] = Limit /\ pc' = "limits"
  BY <1>2 DEF Limit
<1>6. CASE q \in Elems(obs)
  <2>1. CASE SameSearchRequest(q, o) /\ o.kind = "depth"
    BY <1>1, <2>1 DEF Survives, SameSearchRequest
  <2>2. CASE SameSearchRequest(q, o) /\ o.kind = "nodes"
    <3>1. Limit = [kind |-> "nodes", value |-> q.requested]
      BY <1>3, <2>2 DEF SameSearchRequest
    <3> QED BY <1>5, <3>1 DEF Survives
  <2>3. CASE q \in Elems(obs')
    BY <2>3 DEF Survives
  <2> QED BY <1>1, <1>3, <1>6, <2>1, <2>2, <2>3
<1>7. ASSUME q.kind = "depth", NEW p \in Elems(obs),
             p.kind = "depth", p.ranks = q.ranks, p.achieved = q.achieved
      PROVE  Survives(q)'
  <2>1. CASE SameSearchRequest(p, o)
    BY <1>1, <1>7, <2>1 DEF Survives, SameSearchRequest
  <2>2. CASE p \in Elems(obs')
    BY <1>7, <2>2 DEF Survives
  <2> QED BY <1>1, <2>1, <2>2
<1>8. CASE \E i \in 1..at - 1 : run.limits[i] = [kind |-> "nodes", value |-> q.requested]
  <2>1. run' = run
    OBVIOUS
  <2> QED BY <1>4, <1>5, <1>8, <2>1 DEF Survives
<1> QED BY <1>6, <1>7, <1>8 DEF Survives

LEMMA PassSurvives ==
    ASSUME TypeInv, ResumeInv, pc = "limits", pc' = "limits", at' = at \/ at' = at + 1,
           UNCHANGED <<outs, run, pos, base, resumed, obs>>
    PROVE  ResumeInv'
<1>1. at \in Nat
  BY DEF TypeInv
<1>2. \A i \in 1..at - 1 : i \in 1..at' - 1
  <2>1. CASE at' = at
    BY <2>1
  <2>2. CASE at' = at + 1
    BY <1>1, <2>2
  <2> QED BY <2>1, <2>2
<1> SUFFICES ASSUME resumed, base # 0, outs[base][pos] # <<>>,
                    NEW q \in Elems(outs[base][pos][1]), Survives(q)
             PROVE  Survives(q)'
  BY DEF ResumeInv, Elems
<1>3. run' = run /\ obs' = obs /\ Elems(obs') = Elems(obs)
  BY DEF Elems
<1> QED BY <1>2, <1>3 DEF Survives

\* The answer to the limit in hand.
LEMMA AnswerKept ==
    ASSUME Inv, AtLimit, NEW o \in Observations,
           o.kind = Limit.kind, o.requested = Limit.value, o.requested # 0, Keep(o),
           at' = at + 1, searches' \in Nat,
           UNCHANGED <<input, outs, run, pc, pos, base, resumed>>
    PROVE  TypeInv' /\ DistinctInv' /\ ResumeInv'
<1>1. /\ obs' \in Seq(Observations)
      /\ ExistingPolicy(run) # "append" /\ DistinctRequests(obs) => DistinctRequests(obs')
  BY KeepIs DEF Inv
<1>2. TypeInv'
  BY <1>1 DEF Inv, TypeInv, AtLimit, RecordInHand
<1>3. DistinctInv'
  <2>1. /\ RecordInHand' <=> RecordInHand /\ base' = base
        /\ ExistingPolicy(run)' = ExistingPolicy(run)
        /\ DistinctRequests(input[pos])' <=> DistinctRequests(input[pos])
    BY DEF RecordInHand, ExistingPolicy, DistinctRequests
  <2>2. DistinctRequests(obs') => DistinctRequests(obs)'
    BY DEF DistinctRequests
  <2> QED BY <1>1, <2>1, <2>2 DEF Inv, DistinctInv
<1>4. ResumeInv'
  BY KeepSurvives DEF Inv
<1> QED BY <1>2, <1>3, <1>4

-----------------------------------------------------------------------------
(* The invariant is inductive.                                             *)

LEMMA InitInv == RunsInit => Inv
<1> SUFFICES ASSUME RunsInit PROVE Inv
  OBVIOUS
<1>1. TypeInv
  <2>1. <<>> \in Seq(Files) /\ <<>> \in Seq(Observations)
    OBVIOUS
  <2> QED BY <2>1 DEF RunsInit, TypeInv, RecordInHand
<1>2. CacheInv
  BY DEF RunsInit, CacheInv
<1>3. DistinctInv /\ ResumeInv
  BY DEF RunsInit, DistinctInv, ResumeInv, RecordInHand
<1> QED BY <1>1, <1>2, <1>3 DEF Inv

\* Between records nothing is said of the one in hand.
LEMMA NothingInHand ==
    ASSUME pc' \in {"off", "read"}
    PROVE  ~RecordInHand' /\ DistinctInv' /\ ResumeInv'
BY DEF RecordInHand, DistinctInv, ResumeInv

LEMMA StartRunInv ==
    ASSUME Inv, StartRun
    PROVE  Inv'
<1>1. DistinctInv' /\ ResumeInv' /\ ~RecordInHand'
  BY NothingInHand DEF StartRun
<1>2. CacheInv'
  BY DEF Inv, StartRun, CacheInv
<1>3. outs' \in Seq(Files) /\ Len(outs') = Len(outs) + 1 /\ Len(outs) \in Nat
  <2>1. [r \in 1..Records |-> <<>>] \in Files
    BY DEF Files, WrittenOrNot
  <2> QED BY <2>1 DEF Inv, TypeInv, StartRun
<1>4. run' \in Configs /\ base' \in 0..Len(outs') - 1
  <2>1. base' \in 0..Len(outs)
    <3>1. PICK c \in Configs : base' \in IF c.resume THEN 0..Current ELSE {0}
      BY DEF StartRun
    <3>2. Current \in Nat /\ Current = Len(outs)
      BY <1>3 DEF Current
    <3> QED BY <3>1, <3>2
  <2> QED BY <1>3, <2>1 DEF StartRun
<1>5. TypeInv'
  BY <1>1, <1>3, <1>4 DEF Inv, TypeInv, StartRun
<1> QED BY <1>1, <1>2, <1>5 DEF Inv

\* What the file to resume from says of a record.
LEMMA FileTyped ==
    ASSUME TypeInv, NEW b \in 1..Len(outs), NEW r \in 1..Records, outs[b][r] # <<>>
    PROVE  outs[b][r][1] \in Seq(Observations)
<1>1. outs[b] \in Files
  BY DEF TypeInv
<1>2. outs[b][r] \in WrittenOrNot
  BY <1>1 DEF Files
<1>3. PICK s \in Seq(Observations) : outs[b][r] = <<s>>
  BY <1>2 DEF WrittenOrNot
<1> QED BY <1>3

LEMMA ReadRecordInv ==
    ASSUME Inv, ReadRecord
    PROVE  Inv'
<1>1. CacheInv'
  BY DEF Inv, ReadRecord, CacheInv
<1>2. pos \in 1..Records /\ pc' = "engine"
  BY RunsAssumption DEF Inv, TypeInv, ReadRecord
<1>3. input[pos] \in Seq(Observations)
  BY <1>2, RunsAssumption DEF Inv, TypeInv
<1>4. CASE base # 0 /\ Present(outs[base], pos) /\ resumed' = TRUE
           /\ obs' = input[pos] \o outs[base][pos][1]
  <2> DEFINE s == outs[base][pos][1]
             t == input[pos]
  <2>1. base \in 1..Len(outs) /\ outs[base][pos] # <<>>
    BY <1>4 DEF Inv, TypeInv, ReadRecord, Present
  <2>2. s \in Seq(Observations)
    BY <1>2, <2>1, FileTyped DEF Inv
  <2> HIDE DEF s, t
  <2>3. t \in Seq(Observations) /\ obs' = t \o s
    BY <1>3, <1>4 DEF s, t
  <2>4. /\ obs' \in Seq(Observations)
        /\ Len(obs') = Len(t) + Len(s) /\ Len(t) \in Nat /\ Len(s) \in Nat
        /\ \A i \in 1..Len(s) : obs'[Len(t) + i] = s[i]
    BY <2>2, <2>3
  <2>5. \A q \in Elems(s) : q \in Elems(obs')
    <3> TAKE q \in Elems(s)
    <3>1. PICK i \in 1..Len(s) : q = s[i]
      BY DEF Elems
    <3>2. Len(t) + i \in 1..Len(obs') /\ obs'[Len(t) + i] = q
      BY <2>4, <3>1
    <3> QED BY <3>2 DEF Elems
  <2>6. ResumeInv'
    <3>1. base' # 0 /\ outs'[base'][pos'] # <<>> /\ outs'[base'][pos'][1] = s
      BY <1>4, <2>1 DEF ReadRecord, s
    <3>2. \A q \in Elems(outs[base][pos][1])' : Survives(q)'
      BY <2>5, <3>1 DEF Survives, Elems
    <3> QED BY <3>1, <3>2 DEF ResumeInv
  <2>7. TypeInv'
    BY <1>2, <2>4 DEF Inv, TypeInv, ReadRecord, RecordInHand
  <2>8. DistinctInv'
    BY <1>4 DEF ReadRecord, DistinctInv
  <2> QED BY <1>1, <2>6, <2>7, <2>8 DEF Inv
<1>5. CASE obs' = input[pos] /\ resumed' = FALSE
  <2>1. TypeInv'
    BY <1>2, <1>3, <1>5 DEF Inv, TypeInv, ReadRecord, RecordInHand
  <2>2. DistinctInv'
    BY <1>5 DEF ReadRecord, DistinctInv, DistinctRequests
  <2>3. ResumeInv'
    BY <1>5 DEF ResumeInv
  <2> QED BY <1>1, <2>1, <2>2, <2>3 DEF Inv
<1> QED BY <1>4, <1>5 DEF ReadRecord

LEMMA WriteRecordInv ==
    ASSUME Inv, WriteRecord
    PROVE  Inv'
<1>1. DistinctInv' /\ ResumeInv' /\ ~RecordInHand'
  BY NothingInHand DEF WriteRecord
<1>2. CacheInv'
  BY DEF Inv, WriteRecord, CacheInv
<1>3. outs' \in Seq(Files) /\ Len(outs') = Len(outs)
  <2>1. /\ outs \in Seq(Files) /\ Current \in 1..Len(outs) /\ pos \in 1..Records
        /\ obs \in Seq(Observations)
    BY DEF Inv, TypeInv, WriteRecord, RecordInHand, Current
  <2>2. outs[Current] \in Files /\ <<obs>> \in WrittenOrNot
    BY <2>1 DEF WrittenOrNot
  <2>3. [outs[Current] EXCEPT ![pos] = <<obs>>] \in Files
    BY <2>1, <2>2 DEF Files
  <2>4. outs' = [outs EXCEPT ![Current] = [outs[Current] EXCEPT ![pos] = <<obs>>]]
    BY DEF WriteRecord
  <2> QED BY <2>1, <2>3, <2>4
<1>4. <<>> \in Seq(Observations)
  OBVIOUS
<1>5. TypeInv'
  BY <1>1, <1>3, <1>4 DEF Inv, TypeInv, WriteRecord
<1> QED BY <1>1, <1>2, <1>5 DEF Inv

LEMMA EndRunInv ==
    ASSUME Inv, EndRun
    PROVE  Inv'
<1>1. DistinctInv' /\ ResumeInv' /\ ~RecordInHand'
  BY NothingInHand DEF EndRun
<1>2. CacheInv'
  BY DEF Inv, EndRun, CacheInv
<1>3. <<>> \in Seq(Observations)
  OBVIOUS
<1>4. TypeInv'
  BY <1>1, <1>3 DEF Inv, TypeInv, EndRun
<1> QED BY <1>1, <1>2, <1>4 DEF Inv

\* A step that leaves the record and its observations as they are.
LEMMA RecordAsItIs ==
    ASSUME Inv, RecordInHand, pc' \in {"limits", "write"}, searches' \in Nat,
           pc' = "limits" => at' \in Nat \ {0},
           UNCHANGED <<input, outs, run, pos, base, obs>>
    PROVE  TypeInv' /\ DistinctInv'
<1>1. TypeInv'
  BY DEF Inv, TypeInv, RecordInHand
<1>2. DistinctInv'
  BY DEF Inv, DistinctInv, RecordInHand, ExistingPolicy, DistinctRequests
<1> QED BY <1>1, <1>2

LEMMA EngineInv ==
    ASSUME Inv, HaveEngine \/ NoEngine
    PROVE  Inv'
<1>1. CacheInv'
  BY DEF Inv, HaveEngine, NoEngine, CacheInv
<1>2. TypeInv' /\ DistinctInv'
  <2>1. RecordInHand /\ pc # "off"
    BY DEF HaveEngine, NoEngine, RecordInHand
  <2>2. searches' \in Nat
    BY DEF HaveEngine, NoEngine, engineVars, Inv, TypeInv
  <2> QED BY <2>1, <2>2, RecordAsItIs DEF HaveEngine, NoEngine, engineVars
<1>3. CASE HaveEngine
  <2>1. ASSUME resumed, base # 0, outs[base][pos] # <<>>,
               NEW q \in Elems(outs[base][pos][1]), Survives(q)
        PROVE  Survives(q)'
    BY <1>3, <2>1 DEF HaveEngine, Survives, Elems
  <2>2. ResumeInv'
    BY <1>3, <2>1 DEF Inv, HaveEngine, ResumeInv, Elems
  <2> QED BY <1>1, <1>2, <2>2 DEF Inv
<1>4. CASE NoEngine
  <2>1. ResumeInv'
    BY <1>4 DEF NoEngine, ResumeInv
  <2> QED BY <1>1, <1>2, <2>1 DEF Inv
<1> QED BY <1>3, <1>4

LEMMA PassedOverInv ==
    ASSUME Inv, SkipLimit \/ SearchFails
    PROVE  Inv'
<1>1. CacheInv'
  BY DEF Inv, SkipLimit, SearchFails, CacheInv
<1>2. /\ pc = "limits" /\ pc' = "limits" /\ at' = at + 1
      /\ at \in Nat \ {0} /\ searches' \in Nat
      /\ UNCHANGED <<input, outs, run, pos, base, resumed, obs>>
  BY DEF SkipLimit, SearchFails, AtLimit, Inv, TypeInv
<1>3. TypeInv' /\ DistinctInv'
  BY <1>2, RecordAsItIs DEF RecordInHand
<1>4. ResumeInv'
  BY <1>2, PassSurvives DEF Inv
<1> QED BY <1>1, <1>3, <1>4 DEF Inv

LEMMA UseCachedInv ==
    ASSUME Inv, UseCached
    PROVE  Inv'
<1>1. CacheInv'
  BY DEF Inv, UseCached, CacheInv
<1> DEFINE o == cache[Key]
<1>2. /\ AtLimit /\ Keep(o) /\ at' = at + 1 /\ searches' \in Nat
      /\ UNCHANGED <<input, outs, run, pc, pos, base, resumed>>
  BY DEF UseCached, Inv, TypeInv
<1>3. /\ o \in Observations /\ o.kind = Limit.kind /\ o.requested = Limit.value
      /\ o.requested # 0
  BY HitAnswers DEF Inv, UseCached
<1> HIDE DEF o
<1>4. TypeInv' /\ DistinctInv' /\ ResumeInv'
  BY <1>2, <1>3, AnswerKept
<1> QED BY <1>1, <1>4 DEF Inv

LEMMA SearchOkInv ==
    ASSUME Inv, SearchOk
    PROVE  Inv'
<1>1. PICK o \in Answers(run, Limit) :
          /\ Keep(o)
          /\ \/ cache' = [k \in DOMAIN cache \union {Key} |-> IF k = Key THEN o ELSE cache[k]]
             \/ UNCHANGED cache
  BY DEF SearchOk
<1>2. /\ AtLimit /\ at' = at + 1 /\ searches' \in Nat
      /\ UNCHANGED <<input, outs, run, pc, pos, base, resumed>>
  BY DEF SearchOk, Inv, TypeInv
<1>3. /\ run \in Configs /\ at \in 1..Len(run.limits) /\ pos \in Nat
      /\ Limit = run.limits[at] /\ Key = LabelCachePath(run, pos, run.limits[at])
  BY <1>2, RunsAssumption DEF Inv, TypeInv, AtLimit, Limit, Key
<1>4. /\ o \in Observations /\ o.kind = Limit.kind /\ o.requested = Limit.value
      /\ o.requested # 0
  BY <1>1, <1>3, AnswersAreObservations
<1>5. TypeInv' /\ DistinctInv' /\ ResumeInv'
  BY <1>1, <1>2, <1>4, AnswerKept
<1>6. CacheInv'
  <2>1. CASE cache' = [k \in DOMAIN cache \union {Key} |-> IF k = Key THEN o ELSE cache[k]]
    <3>1. o \in Answers(run, run.limits[at])
      BY <1>1, <1>3
    <3> DEFINE key == Key
    <3>2. /\ cache' = [k \in DOMAIN cache \union {key} |-> IF k = key THEN o ELSE cache[k]]
          /\ key = LabelCachePath(run, pos, run.limits[at])
      BY <1>3, <2>1
    <3> HIDE DEF key
    <3>3. /\ DOMAIN cache' = DOMAIN cache \union {key} /\ cache'[key] = o
          /\ \A q \in DOMAIN cache : q # key => cache'[q] = cache[q]
      BY <3>2
    <3>4. CacheInv
      BY DEF Inv
    <3> QED BY <1>3, <3>1, <3>2, <3>3, <3>4, CacheWrite
  <2>2. CASE UNCHANGED cache
    BY <2>2 DEF Inv, CacheInv
  <2> QED BY <1>1, <2>1, <2>2
<1> QED BY <1>5, <1>6 DEF Inv

LEMMA EndLimitsInv ==
    ASSUME Inv, EndLimits
    PROVE  Inv'
<1>1. CacheInv'
  BY DEF Inv, EndLimits, CacheInv
<1>2. TypeInv' /\ DistinctInv'
  <2>1. searches' \in Nat
    BY DEF EndLimits, Inv, TypeInv
  <2> QED BY <2>1, RecordAsItIs DEF EndLimits, RecordInHand
<1>3. ResumeInv'
  BY DEF EndLimits, ResumeInv
<1> QED BY <1>1, <1>2, <1>3 DEF Inv

LEMMA OthersInv ==
    ASSUME Inv, OtherProcess \/ LoseEntry
    PROVE  Inv'
<1>1. /\ AtLimit /\ UNCHANGED <<input, outs, run, pc, pos, base, resumed, engineVars>>
  BY DEF OtherProcess, LoseEntry
<1>2. /\ pc = "limits" /\ pc' = "limits" /\ at' = at
      /\ at \in Nat \ {0} /\ searches' \in Nat
      /\ UNCHANGED <<input, outs, run, pos, base, resumed, obs>>
  BY <1>1 DEF AtLimit, engineVars, Inv, TypeInv
<1>3. TypeInv' /\ DistinctInv' /\ ResumeInv'
  BY <1>2, RecordAsItIs, PassSurvives DEF Inv, RecordInHand
<1>4. CASE OtherProcess
  <2> DEFINE key == Key
  <2>1. PICK c \in Configs : \E i \in 1..Len(c.limits) :
            /\ LabelCachePath(c, pos, c.limits[i]) = key
            /\ \E o \in Answers(c, c.limits[i]) :
                  cache' = [k \in DOMAIN cache \union {key} |->
                               IF k = key THEN o ELSE cache[k]]
    BY <1>4 DEF OtherProcess
  <2>2. PICK i \in 1..Len(c.limits) :
            /\ LabelCachePath(c, pos, c.limits[i]) = key
            /\ \E o \in Answers(c, c.limits[i]) :
                  cache' = [k \in DOMAIN cache \union {key} |->
                               IF k = key THEN o ELSE cache[k]]
    BY <2>1
  <2>3. PICK o \in Answers(c, c.limits[i]) :
            cache' = [k \in DOMAIN cache \union {key} |-> IF k = key THEN o ELSE cache[k]]
    BY <2>2
  <2>4. pos \in Nat /\ key = LabelCachePath(c, pos, c.limits[i])
    BY <2>2 DEF Inv, TypeInv
  <2> HIDE DEF key
  <2>5. /\ DOMAIN cache' = DOMAIN cache \union {key} /\ cache'[key] = o
        /\ \A q \in DOMAIN cache : q # key => cache'[q] = cache[q]
    BY <2>3
  <2>6. CacheInv
    BY DEF Inv
  <2>7. CacheInv'
    BY <2>4, <2>5, <2>6, CacheWrite
  <2> QED BY <1>3, <2>7 DEF Inv
<1>5. CASE LoseEntry
  <2>1. \A k \in DOMAIN cache' : k \in DOMAIN cache /\ cache'[k] = cache[k]
    BY <1>5 DEF LoseEntry
  <2>2. CacheInv'
    BY <2>1 DEF Inv, CacheInv
  <2> QED BY <1>3, <2>2 DEF Inv
<1> QED BY <1>4, <1>5

LEMMA NextInv ==
    ASSUME Inv, [RunsNext]_runsVars
    PROVE  Inv'
<1>1. CASE UNCHANGED runsVars
  <2>1. TypeInv'
    BY <1>1 DEF Inv, TypeInv, RecordInHand, runsVars, engineVars
  <2>2. CacheInv'
    BY <1>1 DEF Inv, CacheInv, runsVars
  <2>3. DistinctInv'
    BY <1>1 DEF Inv, DistinctInv, RecordInHand, ExistingPolicy, DistinctRequests, runsVars, engineVars
  <2>4. \A q : Survives(q) => Survives(q)'
    BY <1>1 DEF Survives, Elems, runsVars, engineVars
  <2>5. ResumeInv'
    BY <1>1, <2>4 DEF Inv, ResumeInv, Elems, runsVars, engineVars
  <2> QED BY <2>1, <2>2, <2>3, <2>5 DEF Inv
<1> QED BY <1>1, StartRunInv, ReadRecordInv, EngineInv, PassedOverInv, UseCachedInv,
           SearchOkInv, EndLimitsInv, WriteRecordInv, EndRunInv, OthersInv DEF RunsNext

-----------------------------------------------------------------------------
(* The theorems.                                                           *)

\* Every value has its type, every entry of the cache answers a request that has its
\* key, and the record in hand is as the invariant says.
THEOREM InvHolds == RunsSpec => []Inv
<1>1. RunsInit => Inv
  BY InitInv
<1>2. Inv /\ [RunsNext]_runsVars => Inv'
  BY NextInv
<1> QED BY <1>1, <1>2, PTL DEF RunsSpec

\* A skip or a replace run answers no request twice for a record that came without
\* doubles, whatever came from the cache and whatever from a search.
THEOREM NoDuplicatesHold == RunsSpec => []NoDuplicateRequests
<1>1. Inv => NoDuplicateRequests
  BY DEF Inv, DistinctInv, NoDuplicateRequests, RecordInHand
<1> QED BY <1>1, InvHolds, PTL

\* With the engine binary in the key, an entry that a run finds answers the request it
\* makes, whichever process wrote it and with whatever options.
THEOREM CacheAnswersHold == RunsSpec => []CacheAnswersTheRequest
<1>1. Inv => CacheAnswersTheRequest
  BY HitAnswers DEF Inv, CacheAnswersTheRequest
<1> QED BY <1>1, InvHolds, PTL

\* What an answer o to the limit in hand takes the place of.
LEMMA AnswerReplaces ==
    ASSUME TypeInv, NEW o \in Observations, o.requested # 0, Keep(o)
    PROVE  \A q \in Elems(obs) : q \in Elems(obs') \/
             \E p \in Elems(obs') :
                /\ p.ranks = q.ranks /\ p.kind = q.kind
                /\ p.requested = q.requested \/ q.requested = 0
                /\ q.kind = "depth" => p.achieved = q.achieved
<1>1. /\ o \in Elems(obs')
      /\ \A q \in Elems(obs) : q \in Elems(obs') \/ SameSearchRequest(q, o)
  BY KeepIs
<1>2. o.kind \in {"depth", "nodes"}
  BY DEF Observations
<1> SUFFICES ASSUME NEW q \in Elems(obs), SameSearchRequest(q, o)
             PROVE  /\ o.ranks = q.ranks /\ o.kind = q.kind
                    /\ o.requested = q.requested \/ q.requested = 0
                    /\ q.kind = "depth" => o.achieved = q.achieved
  BY <1>1
<1> QED BY <1>2 DEF SameSearchRequest

\* An observation leaves a record only for one that answers the same request as well.
THEOREM ReplacedHolds == RunsSpec => OnlyReplacedByItsLike
<1> DEFINE P == (pc = "limits" /\ pc' = "limits") =>
                  \A o \in Elems(obs) : o \in Elems(obs') \/
                     \E p \in Elems(obs') :
                        /\ p.ranks = o.ranks /\ p.kind = o.kind
                        /\ p.requested = o.requested \/ o.requested = 0
                        /\ o.kind = "depth" => p.achieved = o.achieved
<1>1. ASSUME Inv, RunsNext, pc = "limits", pc' = "limits" PROVE P
  <2>1. CASE UNCHANGED obs
    BY <2>1
  <2>2. CASE UseCached
    <3> DEFINE new == cache[Key]
    <3>1. new \in Observations /\ new.requested # 0 /\ Keep(new) /\ TypeInv
      BY <1>1, <2>2, HitAnswers DEF UseCached, Inv
    <3> HIDE DEF new
    <3> QED BY <3>1, AnswerReplaces
  <2>3. CASE SearchOk
    <3>1. PICK new \in Answers(run, Limit) : Keep(new)
      BY <2>3 DEF SearchOk
    <3>2. run \in Configs /\ at \in 1..Len(run.limits) /\ Limit = run.limits[at] /\ TypeInv
      BY <1>1, <2>3, RunsAssumption DEF SearchOk, Inv, TypeInv, AtLimit, Limit
    <3>3. new \in Observations /\ new.requested # 0
      BY <3>1, <3>2, AnswersAreObservations
    <3> QED BY <3>1, <3>2, <3>3, AnswerReplaces
  <2>4. UNCHANGED obs \/ UseCached \/ SearchOk
    BY <1>1 DEF RunsNext, StartRun, ReadRecord, HaveEngine, NoEngine, SkipLimit, SearchFails,
                EndLimits, WriteRecord, EndRun, OtherProcess, LoseEntry, engineVars
  <2> QED BY <2>1, <2>2, <2>3, <2>4
<1>2. Inv /\ [RunsNext]_runsVars => [P]_runsVars
  BY <1>1
<1>3. RunsSpec => [][Inv /\ [RunsNext]_runsVars]_runsVars
  BY InvHolds, PTL DEF RunsSpec
<1>4. RunsSpec => [][P]_runsVars
  BY <1>2, <1>3, PTL
<1> QED BY <1>4 DEF OnlyReplacedByItsLike

\* A resumed run searches for no limit that the file it resumes from covers, unless it
\* has asked again for the node budget that covered it.
THEOREM ResumeHolds == RunsSpec => ResumeSkipsCovered
<1> DEFINE P == (searches' > searches /\ resumed /\ ExistingPolicy(run) = "skip") =>
                  \A o \in Elems(outs[base][pos][1]) : CoversLimit(o, Limit, run.multipv) =>
                      \E i \in 1..at - 1 :
                          run.limits[i] = [kind |-> "nodes", value |-> o.requested]
<1>1. ASSUME Inv, RunsNext, searches' > searches, resumed, ExistingPolicy(run) = "skip" PROVE P
  <2>1. AtLimit /\ ~Covered
    <3>1. searches \in Nat /\ searches' # searches /\ searches' # 0
      BY <1>1 DEF Inv, TypeInv
    <3>2. SearchOk \/ SearchFails
      <4>1. ~StartRun /\ ~ReadRecord /\ ~HaveEngine /\ ~NoEngine /\ ~EndRun
        BY <3>1 DEF StartRun, ReadRecord, HaveEngine, NoEngine, EndRun, engineVars
      <4>2. ~SkipLimit /\ ~UseCached /\ ~EndLimits /\ ~WriteRecord
        BY <3>1 DEF SkipLimit, UseCached, EndLimits, WriteRecord
      <4>3. ~OtherProcess /\ ~LoseEntry
        BY <3>1 DEF OtherProcess, LoseEntry, engineVars
      <4> QED BY <1>1, <4>1, <4>2, <4>3 DEF RunsNext
    <3> QED BY <3>2 DEF SearchOk, SearchFails
  <2>2. \A p \in Elems(obs) : ~CoversLimit(p, Limit, run.multipv)
    BY <1>1, <2>1 DEF Covered, Elems
  <2>3. \A o \in Elems(outs[base][pos][1]) : Survives(o)
    BY <1>1, <2>1 DEF Inv, ResumeInv, AtLimit
  <2>4. ASSUME NEW o \in Elems(outs[base][pos][1]), CoversLimit(o, Limit, run.multipv)
        PROVE  \E i \in 1..at - 1 : run.limits[i] = [kind |-> "nodes", value |-> o.requested]
    <3>1. o \notin Elems(obs)
      BY <2>2, <2>4
    <3>2. ~ (o.kind = "depth" /\ \E p \in Elems(obs) :
                p.kind = "depth" /\ p.ranks = o.ranks /\ p.achieved = o.achieved)
      BY <2>2, <2>4 DEF CoversLimit
    <3> QED BY <2>3, <3>1, <3>2 DEF Survives
  <2> QED BY <2>4
<1>2. Inv /\ [RunsNext]_runsVars => [P]_runsVars
  BY <1>1
<1>3. RunsSpec => [][Inv /\ [RunsNext]_runsVars]_runsVars
  BY InvHolds, PTL DEF RunsSpec
<1>4. RunsSpec => [][P]_runsVars
  BY <1>2, <1>3, PTL
<1> QED BY <1>4 DEF ResumeSkipsCovered


USE QueueAssumption

-----------------------------------------------------------------------------
(* Sequences as sets of records.                                           *)

LEMMA SeqMonotonic ==
    ASSUME NEW S, NEW T, S \subseteq T, NEW s \in Seq(S)
    PROVE  s \in Seq(T)
  OBVIOUS

LEMMA AppendIndex ==
    ASSUME NEW S, NEW s \in Seq(S), NEW e \in S
    PROVE  /\ Append(s, e) \in Seq(S) /\ Len(Append(s, e)) = Len(s) + 1
           /\ Len(s) \in Nat
           /\ \A i \in 1..Len(s) : Append(s, e)[i] = s[i]
           /\ Append(s, e)[Len(s) + 1] = e
           /\ 1..(Len(s) + 1) = (1..Len(s)) \union {Len(s) + 1}
  OBVIOUS

LEMMA AppendElements ==
    ASSUME NEW S, NEW s \in Seq(S), NEW e \in S
    PROVE  /\ Append(s, e) \in Seq(S) /\ Len(Append(s, e)) = Len(s) + 1
           /\ Elements(Append(s, e)) = Elements(s) \union {e}
           /\ Distinct(s) /\ e \notin Elements(s) => Distinct(Append(s, e))
  <1>1. /\ Append(s, e) \in Seq(S) /\ Len(Append(s, e)) = Len(s) + 1 /\ Len(s) \in Nat
        /\ \A i \in 1..Len(s) : Append(s, e)[i] = s[i]
        /\ Append(s, e)[Len(s) + 1] = e
    BY AppendIndex
  <1>2. 1..(Len(s) + 1) = (1..Len(s)) \union {Len(s) + 1}
    BY AppendIndex
  <1>3. Elements(Append(s, e)) = Elements(s) \union {e}
    <2>1. ASSUME NEW x \in Elements(Append(s, e)) PROVE x \in Elements(s) \union {e}
      BY <1>1, <1>2, <2>1 DEF Elements
    <2>2. ASSUME NEW x \in Elements(s) PROVE x \in Elements(Append(s, e))
      <3>1. PICK i \in 1..Len(s) : x = s[i]
        BY <2>2 DEF Elements
      <3>2. i \in 1..Len(Append(s, e)) /\ x = Append(s, e)[i]
        BY <1>1, <3>1
      <3> QED
        BY <3>2 DEF Elements
    <2>3. e \in Elements(Append(s, e))
      <3>1. Len(s) + 1 \in 1..Len(Append(s, e))
        BY <1>1
      <3> QED
        BY <1>1, <3>1 DEF Elements
    <2> QED
      BY <2>1, <2>2, <2>3
  <1>4. ASSUME Distinct(s), e \notin Elements(s) PROVE Distinct(Append(s, e))
    <2>1. \A i \in 1..Len(s) : s[i] # e
      BY <1>4 DEF Elements
    <2> QED
      BY <1>1, <1>2, <1>4, <2>1 DEF Distinct
  <1> QED
    BY <1>1, <1>3, <1>4

LEMMA TailElements ==
    ASSUME NEW S, NEW s \in Seq(S), s # <<>>
    PROVE  /\ Tail(s) \in Seq(S) /\ Len(Tail(s)) = Len(s) - 1 /\ Len(s) \in Nat \ {0}
           /\ \A i \in 1..Len(Tail(s)) : Tail(s)[i] = s[i + 1]
           /\ Head(s) = s[1] /\ Head(s) \in Elements(s) /\ Head(s) \in S
           /\ Distinct(s) => /\ Distinct(Tail(s))
                             /\ Elements(Tail(s)) = Elements(s) \ {Head(s)}
  <1>1. /\ Tail(s) \in Seq(S) /\ Len(Tail(s)) = Len(s) - 1 /\ Len(s) \in Nat \ {0}
        /\ \A i \in 1..Len(Tail(s)) : Tail(s)[i] = s[i + 1]
        /\ Head(s) = s[1] /\ Head(s) \in S
    OBVIOUS
  <1>2. Head(s) \in Elements(s)
    BY <1>1 DEF Elements
  <1>3. ASSUME Distinct(s)
        PROVE  Distinct(Tail(s)) /\ Elements(Tail(s)) = Elements(s) \ {Head(s)}
    <2>1. Distinct(Tail(s))
      BY <1>1, <1>3 DEF Distinct
    <2>2. ASSUME NEW x \in Elements(Tail(s)) PROVE x \in Elements(s) \ {Head(s)}
      <3>1. PICK i \in 1..Len(Tail(s)) : x = Tail(s)[i]
        BY <2>2 DEF Elements
      <3>2. x = s[i + 1] /\ i + 1 \in 1..Len(s) /\ i + 1 # 1 /\ 1 \in 1..Len(s)
        BY <1>1, <3>1
      <3>3. s[i + 1] # s[1]
        BY <1>3, <3>2 DEF Distinct
      <3> QED
        BY <1>1, <3>2, <3>3 DEF Elements
    <2>3. ASSUME NEW x \in Elements(s) \ {Head(s)} PROVE x \in Elements(Tail(s))
      <3>1. PICK i \in 1..Len(s) : x = s[i]
        BY <2>3 DEF Elements
      <3>2. i - 1 \in 1..Len(Tail(s)) /\ Tail(s)[i - 1] = x
        BY <1>1, <2>3, <3>1
      <3> QED
        BY <3>2 DEF Elements
    <2> QED
      BY <2>1, <2>2, <2>3
  <1> QED
    BY <1>1, <1>2, <1>3

(* Steps that leave the records where they are.                            *)
LEMMA ChannelUnchanged ==
    ASSUME UNCHANGED <<results, out>>
    PROVE  /\ Written' = Written
           /\ Elements(results)' = Elements(results)
           /\ Distinct(results)' <=> Distinct(results)
           /\ Distinct(out)' <=> Distinct(out)
  BY DEF Written, Elements, Distinct

LEMMA PlacesUnchanged ==
    ASSUME UNCHANGED <<held, results, pending, out>>
    PROVE  /\ InHand' = InHand /\ Written' = Written /\ pending' = pending
           /\ Elements(results)' = Elements(results)
           /\ Distinct(results)' <=> Distinct(results)
           /\ Distinct(out)' <=> Distinct(out)
  BY ChannelUnchanged DEF InHand

-----------------------------------------------------------------------------
LEMMA IInvInit == Init => IInv
  BY DEF Init, IInv, TypeOK, HeldInv, PermitsConserved, OrderPreserved, OnePlace,
         Lossless, Drained, Finished, NoPanic, InHand, Elements, Written, Distinct,
         Dequeued, Ids, Holding, ReaderGone, WorkersGone, Flushing, Writable,
         ReaderStates, WorkerStates, MainStates

-----------------------------------------------------------------------------
(* Steps of the reader.                                                    *)

(* Dispatching a record: it is the newest of the job channel.              *)
LEMMA IInvSendJob ==
    ASSUME IInv, Running, SendJob,
           UNCHANGED <<preserve, lock, workerVars, results, writerVars>>
    PROVE  IInv'
  <1> USE DEF IInv, workerVars, writerVars
  <1>1. /\ nextJob \in Nat /\ nextJob' = nextJob + 1 /\ Ids \subseteq Ids' /\ nextJob \in Ids'
        /\ reader = "send" /\ reader' = "read" /\ ~ReaderGone /\ ~ReaderGone'
        /\ jobs' = Append(jobs, nextJob)
        /\ jobs \in Seq(Ids') /\ Len(jobs) \in Nat /\ Len(jobs') = Len(jobs) + 1
        /\ Len(out) \in Nat
    BY SeqMonotonic DEF SendJob, TypeOK, Ids, ReaderGone
  <1>2. TypeOK'
    <2>1. results' \in Seq(Ids') /\ out' \in Seq(Ids')
      BY <1>1, SeqMonotonic DEF TypeOK
    <2>2. held' \in [Workers -> Ids' \union {None}] /\ pending' \in SUBSET Ids'
      BY <1>1 DEF TypeOK
    <2>3. /\ jobs' \in Seq(Ids') /\ Len(jobs') <= JobCapacity
      BY <1>1, <2>1, JobCapacity \in Nat DEF SendJob
    <2>4. reader' \in ReaderStates /\ permits' = permits /\ skipped' = skipped /\ nextJob' \in Nat
      BY <1>1 DEF SendJob, ReaderStates
    <2> QED
      BY <2>1, <2>2, <2>3, <2>4 DEF TypeOK
  <1>3. PermitsConserved' /\ (nextJob <= Len(out) + QueueDepth)'
    <2>1. permits + 1 + (nextJob - Len(out)) = QueueDepth /\ permits' = permits /\ permits \in Nat
      BY <1>1 DEF PermitsConserved, Holding, TypeOK, SendJob
    <2> QED
      BY <1>1, <2>1 DEF PermitsConserved, Holding
  <1>4. Dequeued' = Dequeued
    BY <1>1 DEF Dequeued
  <1>5. OnePlace'
    <2>1. Len(jobs') <= nextJob'
      BY <1>1 DEF OnePlace
    <2>2. \A i \in 1..Len(jobs') : jobs'[i] = nextJob' - Len(jobs') + i - 1
      <3>1. /\ \A i \in 1..Len(jobs) : jobs'[i] = jobs[i]
            /\ jobs'[Len(jobs) + 1] = nextJob
            /\ 1..Len(jobs') = (1..Len(jobs)) \union {Len(jobs) + 1}
        BY <1>1, AppendIndex
      <3>2. \A i \in 1..Len(jobs) : jobs[i] = nextJob - Len(jobs) + i - 1
        BY DEF OnePlace
      <3>3. nextJob' - Len(jobs') = nextJob - Len(jobs)
        BY <1>1
      <3>4. ASSUME NEW i \in 1..Len(jobs') PROVE jobs'[i] = nextJob' - Len(jobs') + i - 1
        <4>1. CASE i \in 1..Len(jobs)
          BY <3>1, <3>2, <3>3, <4>1
        <4>2. CASE i = Len(jobs) + 1
          BY <1>1, <3>1, <3>3, <4>2
        <4> QED
          BY <3>1, <4>1, <4>2
      <3> QED
        BY <3>4
    <2> QED
      BY <1>4, <2>1, <2>2, PlacesUnchanged DEF OnePlace
  <1>6. HeldInv' /\ OrderPreserved'
    BY DEF HeldInv, OrderPreserved
  <1>7. Lossless'
    <2>1. ~(NoPanic' /\ main' \notin {"failed", "exited"}) \/
          \A w \in Workers : worker[w] # "ended"
      BY <1>1 DEF Lossless, NoPanic
    <2> QED
      BY <1>4, <2>1, PlacesUnchanged DEF Lossless, NoPanic
  <1>8. Drained' /\ Finished'
    BY DEF Drained, Finished, WorkersGone, WorkerGone, Flushing, Writable, Running
  <1> QED
    BY <1>2, <1>3, <1>5, <1>6, <1>7, <1>8

(* The other steps of the reader touch its own state and the permits only. *)
LEMMA IInvReader == IInv /\ ReaderStep => IInv'
  <1> SUFFICES ASSUME IInv, ReaderStep
               PROVE  IInv'
    OBVIOUS
  <1>1. CASE SendJob
    BY <1>1, IInvSendJob DEF ReaderStep
  <1>2. CASE ReadValid \/ ReadInvalid \/ ReadError \/ ReadEof \/ TakePermit
             \/ PermitClosed \/ SendClosed
    <2> USE DEF IInv, ReaderStep, workerVars, writerVars
    <2>1. /\ nextJob' = nextJob /\ jobs' = jobs /\ skipped' \in Nat /\ reader' \in ReaderStates
          /\ permits' \in 0..QueueDepth
      BY <1>2 DEF TypeOK, ReaderStates, ReadValid, ReadInvalid, ReadError, ReadEof,
                  TakePermit, PermitClosed, SendClosed
    <2>2. /\ ReaderGone => ReaderGone'
          /\ ~ReaderGone' => permits' + Holding' = permits + Holding
      BY <1>2 DEF TypeOK, Holding, ReaderGone, ReadValid, ReadInvalid, ReadError, ReadEof,
                  TakePermit, PermitClosed, SendClosed
    <2>3. TypeOK' /\ HeldInv' /\ OrderPreserved' /\ (nextJob <= Len(out) + QueueDepth)'
      BY <2>1 DEF TypeOK, Ids, HeldInv, OrderPreserved
    <2>4. PermitsConserved'
      BY <2>1, <2>2 DEF PermitsConserved, TypeOK, Holding
    <2>5. OnePlace'
      BY <2>1, PlacesUnchanged DEF OnePlace, Dequeued
    <2>6. Lossless'
      BY <2>1, <2>2, PlacesUnchanged DEF Lossless, NoPanic, Dequeued
    <2>7. Drained' /\ Finished'
      BY DEF Drained, Finished, WorkersGone, WorkerGone, Flushing, Writable, Running
    <2> QED
      BY <2>3, <2>4, <2>5, <2>6, <2>7
  <1> QED
    BY <1>1, <1>2 DEF ReaderStep

-----------------------------------------------------------------------------
(* Steps of a worker.                                                      *)

(* Taking a record in hand, and giving it out of hand.                     *)
LEMMA TakeInHand ==
    ASSUME TypeOK, NEW w \in Workers, held[w] = None, NEW h \in Nat,
           held' = [held EXCEPT ![w] = h]
    PROVE  InHand' = InHand \union {h}
  <1>1. \A v \in Workers : held'[v] = IF v = w THEN h ELSE held[v]
    BY DEF TypeOK
  <1>2. h # None
    OBVIOUS
  <1>3. InHand' = {held'[v] : v \in Workers} \ {None}
    BY DEF InHand
  <1>4. ASSUME NEW x \in InHand' PROVE x \in InHand \union {h}
    BY <1>1, <1>3, <1>4 DEF InHand
  <1>5. ASSUME NEW x \in InHand \union {h} PROVE x \in InHand'
    BY <1>1, <1>2, <1>3, <1>5 DEF InHand
  <1> QED
    BY <1>4, <1>5

LEMMA GiveFromHand ==
    ASSUME TypeOK, HeldInv, NEW w \in Workers, held[w] # None,
           held' = [held EXCEPT ![w] = None]
    PROVE  InHand' = InHand \ {held[w]} /\ held[w] \in InHand /\ held[w] \in Ids
  <1>1. \A v \in Workers : held'[v] = IF v = w THEN None ELSE held[v]
    BY DEF TypeOK
  <1>2. InHand' = {held'[v] : v \in Workers} \ {None}
    BY DEF InHand
  <1>3. ASSUME NEW x \in InHand' PROVE x \in InHand \ {held[w]}
    <2>1. PICK v \in Workers : x = held'[v] /\ x # None
      BY <1>2, <1>3
    <2>2. v # w /\ x = held[v]
      BY <1>1, <2>1
    <2>3. held[v] # held[w]
      BY <2>1, <2>2 DEF HeldInv
    <2> QED
      BY <2>1, <2>2, <2>3 DEF InHand
  <1>4. ASSUME NEW x \in InHand \ {held[w]} PROVE x \in InHand'
    <2>1. PICK v \in Workers : x = held[v] /\ x # None
      BY <1>4 DEF InHand
    <2>2. v # w /\ x = held'[v]
      BY <1>1, <1>4, <2>1
    <2> QED
      BY <1>2, <2>1, <2>2
  <1>5. held[w] \in InHand /\ held[w] \in Ids
    BY DEF InHand, TypeOK
  <1> QED
    BY <1>3, <1>4, <1>5

LEMMA IInvWorker ==
    ASSUME IInv, NEW w \in Workers, WorkerStep(w)
    PROVE  IInv'
  <1> USE DEF IInv, WorkerStep, readerVars, writerVars
  <1>1. \A v \in Workers \ {w} : worker'[v] = worker[v] /\ held'[v] = held[v]
    BY DEF TypeOK, Lock, Receive, ReceiveClosed, Analyse, LaunchFails, Report, Panic
  <1>2. ~WorkerGone(w)
    BY DEF WorkerGone, Lock, Receive, ReceiveClosed, Analyse, LaunchFails, Report, Panic
  <1>3. main' = main /\ main \notin {"join", "ok", "exited"}
    BY <1>2 DEF Drained, WorkersGone, Running
  <1>4. Drained' /\ Finished' /\ OrderPreserved' /\ PermitsConserved'
        /\ (nextJob <= Len(out) + QueueDepth)'
    BY <1>3 DEF Drained, Finished, OrderPreserved, PermitsConserved, ReaderGone, Holding
  <1>5. CASE Lock(w) \/ Analyse(w) \/ LaunchFails(w)
    <2>1. /\ UNCHANGED <<held, results, pending, out, jobs>>
          /\ worker[w] \in {"idle", "work"}
          /\ worker' \in [Workers -> WorkerStates]
          /\ worker'[w] = IF worker[w] = "idle" THEN "recv" ELSE "report"
      BY <1>5 DEF Lock, Analyse, LaunchFails, TypeOK, WorkerStates
    <2>2. TypeOK'
      <3>1. /\ lock' \in Workers \union {None} /\ engineUp' \in [Workers -> BOOLEAN]
            /\ launchFailures' \in Nat
        <4>1. CASE Analyse(w)
          BY <4>1 DEF Analyse, TypeOK
        <4>2. CASE Lock(w) \/ LaunchFails(w)
          BY <4>2 DEF Lock, LaunchFails, TypeOK
        <4> QED
          BY <1>5, <4>1, <4>2
      <3> QED
        BY <2>1, <3>1, <1>3 DEF TypeOK, Ids
    <2>3. HeldInv'
      BY <1>1, <2>1 DEF HeldInv
    <2>4. OnePlace'
      BY <2>1, PlacesUnchanged DEF OnePlace, Dequeued
    <2>5. Lossless'
      BY <1>1, <1>3, <2>1, PlacesUnchanged DEF Lossless, NoPanic, ReaderGone, Dequeued
    <2> QED
      BY <1>4, <2>2, <2>3, <2>4, <2>5
  <1>6. CASE Receive(w)
    <2> DEFINE h == Head(jobs)
    <2>1. /\ UNCHANGED <<results, pending, out, engineUp, launchFailures>>
          /\ worker[w] = "recv" /\ worker'[w] = "work" /\ lock' = None
          /\ worker' \in [Workers -> WorkerStates] /\ held[w] = None
          /\ jobs # <<>> /\ jobs' = Tail(jobs) /\ held' = [held EXCEPT ![w] = h]
      BY <1>6 DEF Receive, TypeOK, WorkerStates, HeldInv
    <2>2. /\ jobs \in Seq(Ids) /\ nextJob \in Nat /\ Len(jobs) \in Nat \ {0}
          /\ jobs' \in Seq(Ids) /\ Len(jobs') = Len(jobs) - 1
          /\ \A i \in 1..Len(jobs') : jobs'[i] = jobs[i + 1]
          /\ h = jobs[1] /\ h \in Ids
      BY <2>1, TailElements DEF TypeOK
    <2>3. /\ h = nextJob - Len(jobs) /\ h \in Nat /\ Len(jobs) <= nextJob
          /\ h \notin Dequeued /\ Dequeued' = Dequeued \union {h}
      <3>1. h = nextJob - Len(jobs) /\ Len(jobs) <= nextJob
        BY <2>2 DEF OnePlace
      <3>2. Dequeued = 0..(h - 1) /\ Dequeued' = 0..h /\ h \in Nat
        BY <2>2, <3>1 DEF Dequeued
      <3> QED
        BY <3>1, <3>2
    <2>4. InHand' = InHand \union {h} /\ held'[w] = h /\ h # None
      BY <2>1, <2>3, TakeInHand DEF TypeOK
    <2>5. TypeOK'
      <3>1. held' \in [Workers -> Ids \union {None}]
        BY <2>1, <2>2 DEF TypeOK
      <3> QED
        BY <2>1, <2>2, <3>1, <1>3 DEF TypeOK, Ids
    <2>6. HeldInv'
      <3>1. \A v \in Workers \ {w} : held[v] # h
        BY <2>3, <2>4 DEF OnePlace, InHand
      <3> QED
        BY <1>1, <2>1, <2>4, <3>1 DEF HeldInv
    <2>7. OnePlace'
      <3>1. /\ Len(jobs') <= nextJob'
            /\ \A i \in 1..Len(jobs') : jobs'[i] = nextJob' - Len(jobs') + i - 1
        <4>1. \A i \in 1..Len(jobs) : jobs[i] = nextJob - Len(jobs) + i - 1
          BY DEF OnePlace
        <4>2. \A i \in 1..Len(jobs') : i + 1 \in 1..Len(jobs)
          BY <2>2
        <4> QED
          BY <2>2, <2>3, <4>1, <4>2
      <3> QED
        BY <2>1, <2>3, <2>4, <3>1, ChannelUnchanged DEF OnePlace
    <2>8. Lossless'
      BY <1>1, <1>3, <2>1, <2>3, <2>4, ChannelUnchanged DEF Lossless, NoPanic, ReaderGone
    <2> QED
      BY <1>4, <2>5, <2>6, <2>7, <2>8
  <1>7. CASE ReceiveClosed(w)
    <2>1. /\ UNCHANGED <<held, results, pending, out, jobs, engineUp, launchFailures>>
          /\ worker[w] = "recv" /\ worker'[w] = "ended" /\ lock' = None
          /\ worker' \in [Workers -> WorkerStates] /\ jobs = <<>> /\ ReaderGone
      BY <1>7 DEF ReceiveClosed, TypeOK, WorkerStates
    <2>2. TypeOK'
      BY <2>1, <1>3 DEF TypeOK, Ids
    <2>3. HeldInv'
      BY <1>1, <2>1 DEF HeldInv
    <2>4. OnePlace'
      BY <2>1, PlacesUnchanged DEF OnePlace, Dequeued
    <2>5. Lossless'
      BY <1>1, <1>3, <2>1, PlacesUnchanged DEF Lossless, NoPanic, ReaderGone, Dequeued
    <2> QED
      BY <1>4, <2>2, <2>3, <2>4, <2>5
  <1>8. CASE Report(w)
    <2>1. /\ UNCHANGED <<pending, out, jobs, lock, engineUp, launchFailures>>
          /\ worker[w] = "report" /\ held[w] # None /\ held'[w] = None
          /\ held' = [held EXCEPT ![w] = None]
          /\ worker' \in [Workers -> WorkerStates]
          /\ worker'[w] = IF Returning THEN "ended" ELSE "idle"
          /\ results' = IF Returning THEN results ELSE Append(results, held[w])
      BY <1>8 DEF Report, TypeOK, WorkerStates, HeldInv
    <2>2. InHand' = InHand \ {held[w]} /\ held[w] \in InHand /\ held[w] \in Ids
      BY <2>1, GiveFromHand
    <2>3. HeldInv'
      BY <1>1, <2>1 DEF HeldInv
    <2>4. held[w] \notin Elements(results)
      BY <2>2 DEF OnePlace
    <2>5. /\ results' \in Seq(Ids)
          /\ Distinct(results')
          /\ Elements(results') =
                IF Returning THEN Elements(results) ELSE Elements(results) \union {held[w]}
      <3>1. results \in Seq(Ids) /\ Distinct(results)
        BY DEF TypeOK, OnePlace
      <3>2. /\ Append(results, held[w]) \in Seq(Ids)
            /\ Distinct(Append(results, held[w]))
            /\ Elements(Append(results, held[w])) = Elements(results) \union {held[w]}
        BY <2>2, <2>4, <3>1, AppendElements
      <3> QED
        BY <2>1, <3>1, <3>2
    <2>6. TypeOK'
      BY <2>1, <2>5, <1>3 DEF TypeOK, Ids
    <2>7. /\ Written' = Written /\ (Distinct(out)' <=> Distinct(out)) /\ Dequeued' = Dequeued
      BY <2>1 DEF Written, Elements, Distinct, Dequeued
    <2>8. OnePlace'
      BY <2>1, <2>2, <2>5, <2>7 DEF OnePlace
    <2>9. Lossless'
      BY <1>1, <1>3, <2>1, <2>2, <2>5, <2>7 DEF Lossless, NoPanic, ReaderGone, Returning
    <2> QED
      BY <1>4, <2>3, <2>6, <2>8, <2>9
  <1>9. CASE Panic(w)
    <2>1. /\ UNCHANGED <<results, pending, out, jobs, lock, engineUp, launchFailures>>
          /\ worker[w] = "report" /\ worker'[w] = "panicked"
          /\ worker' \in [Workers -> WorkerStates]
          /\ held' = [held EXCEPT ![w] = None] /\ held[w] # None /\ held'[w] = None
      BY <1>9 DEF Panic, TypeOK, WorkerStates, HeldInv
    <2>2. TypeOK'
      BY <2>1, <1>3 DEF TypeOK, Ids
    <2>3. HeldInv'
      BY <1>1, <2>1 DEF HeldInv
    <2>4. OnePlace'
      <3>1. InHand' = InHand \ {held[w]}
        BY <2>1, GiveFromHand
      <3>2. /\ Written' = Written /\ Elements(results)' = Elements(results)
            /\ Distinct(results)' <=> Distinct(results)
            /\ Distinct(out)' <=> Distinct(out)
        BY <2>1, ChannelUnchanged
      <3> QED
        BY <2>1, <3>1, <3>2 DEF OnePlace, Dequeued
    <2>5. Lossless'
      BY <2>1 DEF Lossless, NoPanic
    <2> QED
      BY <1>4, <2>2, <2>3, <2>4, <2>5
  <1> QED
    BY <1>5, <1>6, <1>7, <1>8, <1>9

-----------------------------------------------------------------------------
(* Steps of the writer.                                                    *)

LEMMA IInvTakeResult ==
    ASSUME IInv, TakeResult, UNCHANGED <<preserve, readerVars, jobs, lock, workerVars>>
    PROVE  IInv'
  <1> USE DEF IInv, readerVars, workerVars
  <1> DEFINE id == Head(results)
  <1>1. /\ UNCHANGED <<reader, nextJob, jobs, worker, held, permits, nextId, out, main>>
        /\ main = "drain" /\ results # <<>> /\ results' = Tail(results)
        /\ pending' = pending \union {id}
    BY DEF TakeResult
  <1>2. /\ results' \in Seq(Ids) /\ id \in Ids /\ id \in Elements(results)
        /\ Distinct(results') /\ Elements(results') = Elements(results) \ {id}
    BY <1>1, TailElements DEF TypeOK, OnePlace
  <1>3. /\ InHand' = InHand /\ Written' = Written /\ Dequeued' = Dequeued
        /\ (Distinct(out)' <=> Distinct(out))
    BY <1>1 DEF InHand, Written, Elements, Distinct, Dequeued
  <1>4. TypeOK'
    BY <1>1, <1>2 DEF TypeOK, Ids, TakeResult
  <1>5. HeldInv' /\ OrderPreserved' /\ PermitsConserved' /\ (nextJob <= Len(out) + QueueDepth)'
    BY <1>1 DEF HeldInv, OrderPreserved, PermitsConserved, ReaderGone, Holding
  <1>6. OnePlace'
    BY <1>1, <1>2, <1>3 DEF OnePlace
  <1>7. Lossless'
    BY <1>1, <1>2, <1>3 DEF Lossless, NoPanic, ReaderGone
  <1>8. Drained' /\ Finished'
    BY <1>1 DEF Drained, Finished
  <1> QED
    BY <1>4, <1>5, <1>6, <1>7, <1>8

LEMMA IInvWriteOne ==
    ASSUME IInv, NEW id \in pending, WriteOne(id),
           UNCHANGED <<preserve, readerVars, jobs, lock, workerVars>>
    PROVE  IInv'
  <1> USE DEF IInv, readerVars, workerVars
  <1>1. /\ UNCHANGED <<reader, nextJob, jobs, worker, held, results, main>>
        /\ main = "drain" /\ out' = Append(out, id) /\ pending' = pending \ {id}
        /\ nextId' = IF preserve THEN nextId + 1 ELSE nextId
        /\ preserve => id = nextId
        /\ permits' = IF ReaderGone THEN permits ELSE permits + 1
        /\ ~ReaderGone => permits < QueueDepth
    BY DEF WriteOne, Writable
  <1>2. /\ out \in Seq(Ids) /\ id \in Ids /\ id \notin Written /\ Len(out) \in Nat
        /\ Distinct(out) /\ nextJob \in Nat /\ permits \in 0..QueueDepth
    BY DEF TypeOK, OnePlace
  <1>3. /\ out' \in Seq(Ids) /\ Len(out') = Len(out) + 1 /\ Distinct(out')
        /\ Elements(out') = Elements(out) \union {id}
        /\ \A i \in 1..Len(out) : out'[i] = out[i]
        /\ out'[Len(out) + 1] = id
        /\ 1..Len(out') = (1..Len(out)) \union {Len(out) + 1}
    BY <1>1, <1>2, AppendElements, AppendIndex DEF Written
  <1>4. /\ InHand' = InHand /\ Dequeued' = Dequeued /\ Written' = Written \union {id}
        /\ Elements(results)' = Elements(results)
        /\ (Distinct(results)' <=> Distinct(results))
    BY <1>1, <1>3 DEF InHand, Written, Elements, Distinct, Dequeued
  <1>5. TypeOK'
    <2>1. permits' \in 0..QueueDepth /\ nextId' \in Nat
      BY <1>1, <1>2 DEF TypeOK
    <2> QED
      BY <1>1, <1>3, <2>1 DEF TypeOK, Ids, WriteOne
  <1>6. PermitsConserved' /\ (nextJob <= Len(out) + QueueDepth)'
    <2>1. PermitsConserved'
      BY <1>1, <1>2, <1>3 DEF PermitsConserved, ReaderGone, Holding
    <2> QED
      BY <1>1, <1>2, <1>3, <2>1
  <1>7. OrderPreserved'
    BY <1>1, <1>2, <1>3 DEF OrderPreserved
  <1>8. OnePlace'
    BY <1>1, <1>3, <1>4 DEF OnePlace
  <1>9. Lossless'
    BY <1>1, <1>4 DEF Lossless, NoPanic, ReaderGone
  <1>10. HeldInv' /\ Drained' /\ Finished'
    BY <1>1 DEF HeldInv, Drained, Finished
  <1> QED
    BY <1>5, <1>6, <1>7, <1>8, <1>9, <1>10

(* The steps in which the writer changes only its control state.           *)
LEMMA IInvControl ==
    ASSUME IInv, CreateOutput \/ WriteFails \/ ResultsClosed \/ Join \/ Exit,
           UNCHANGED <<preserve, readerVars, jobs, lock, workerVars>>
    PROVE  IInv'
  <1> USE DEF IInv, readerVars, workerVars
  <1>1. /\ UNCHANGED <<permits, results, pending, nextId, out>>
        /\ main' \in MainStates
        /\ main' \notin {"failed", "exited"} => main \notin {"failed", "exited"}
    BY DEF CreateOutput, WriteFails, ResultsClosed, Join, Exit, MainStates, TypeOK
  <1>2. TypeOK' /\ HeldInv' /\ OrderPreserved' /\ PermitsConserved'
        /\ (nextJob <= Len(out) + QueueDepth)'
    BY <1>1 DEF TypeOK, Ids, HeldInv, OrderPreserved, PermitsConserved, ReaderGone, Holding
  <1>3. OnePlace'
    BY <1>1, PlacesUnchanged DEF OnePlace, Dequeued
  <1>4. Lossless'
    BY <1>1, PlacesUnchanged DEF Lossless, NoPanic, Dequeued, ReaderGone
  <1>5. Drained' /\ Finished'
    BY <1>1 DEF Drained, Finished, NoPanic, WorkersGone, WorkerGone, Flushing, Writable,
                CreateOutput, WriteFails, ResultsClosed, Join, Exit
  <1> QED
    BY <1>2, <1>3, <1>4, <1>5

LEMMA IInvNext == IInv /\ [Next]_vars => IInv'
  <1> SUFFICES ASSUME IInv, [Next]_vars
               PROVE  IInv'
    OBVIOUS
  <1>1. CASE ReaderStep
    BY <1>1, IInvReader
  <1>2. ASSUME NEW w \in Workers, WorkerStep(w) PROVE IInv'
    BY <1>2, IInvWorker
  <1>3. CASE MainStep
    BY <1>3, IInvTakeResult, IInvWriteOne, IInvControl DEF MainStep
  <1>4. CASE UNCHANGED vars
    <2> USE <1>4 DEF vars, readerVars, workerVars, writerVars, IInv
    <2>1. TypeOK' /\ HeldInv' /\ OrderPreserved' /\ PermitsConserved'
          /\ (nextJob <= Len(out) + QueueDepth)'
      BY DEF TypeOK, Ids, HeldInv, OrderPreserved, PermitsConserved, ReaderGone, Holding
    <2>2. OnePlace' /\ Lossless'
      BY PlacesUnchanged DEF OnePlace, Lossless, NoPanic, Dequeued, ReaderGone
    <2>3. Drained' /\ Finished'
      BY DEF Drained, Finished, NoPanic, WorkersGone, WorkerGone, Flushing, Writable
    <2> QED
      BY <2>1, <2>2, <2>3
  <1> QED
    BY <1>1, <1>2, <1>3, <1>4 DEF Next, Ended

(* IInv holds in every reachable state, whatever the constants.            *)
THEOREM Invariance == Spec => []IInv
  BY IInvInit, IInvNext, PTL DEF Spec

-----------------------------------------------------------------------------
(* Consequences.                                                           *)

(* Types, and with them: the permit channel never holds more than          *)
(* queue_depth tokens and the job channel never more than its capacity.    *)
THEOREM TypeCorrect == Spec => []TypeOK
  <1>1. IInv => TypeOK
    BY DEF IInv
  <1> QED
    BY <1>1, Invariance, PTL

(* No interleaving of the threads loses or invents a permit.               *)
THEOREM WindowConserved == Spec => []PermitsConserved
  <1>1. IInv => PermitsConserved
    BY DEF IInv
  <1> QED
    BY <1>1, Invariance, PTL

(* Under --preserve-order the file is in input order at every moment.      *)
THEOREM InputOrder == Spec => []OrderPreserved
  <1>1. IInv => OrderPreserved
    BY DEF IInv
  <1> QED
    BY <1>1, Invariance, PTL

(* As many records are written as the file has lines.                      *)
LEMMA WrittenCardinality ==
    ASSUME TypeOK, Distinct(out)
    PROVE  IsFiniteSet(Written) /\ Cardinality(Written) = Len(out)
  <1>1. out \in [1..Len(out) -> Ids] /\ Len(out) \in Nat
    BY DEF TypeOK
  <1>2. out \in Bijection(1..Len(out), Written)
    <2>1. \A i \in 1..Len(out) : out[i] \in Written
      BY DEF Written, Elements
    <2>2. out \in [1..Len(out) -> Written]
      BY <1>1, <2>1
    <2>3. \A t \in Written : \E i \in 1..Len(out) : out[i] = t
      BY DEF Written, Elements
    <2>4. \A i, j \in 1..Len(out) : out[i] = out[j] => i = j
      BY DEF Distinct
    <2> QED
      BY <2>2, <2>3, <2>4 DEF Bijection, Injection, Surjection, IsInjective
  <1>3. ExistsBijection(1..Len(out), Written)
    BY <1>2 DEF ExistsBijection
  <1> QED
    BY <1>1, <1>3, FS_CountingElements, FS_NatBijection

(* Records that are dispatched and not written: an upper bound on any set  *)
(* of them.                                                                *)
LEMMA UnwrittenBound ==
    ASSUME TypeOK, Distinct(out), Written \subseteq Ids, NEW P, P \subseteq Ids,
           P \intersect Written = {}
    PROVE  IsFiniteSet(P) /\ Cardinality(P) \in Nat /\ Cardinality(P) + Len(out) <= nextJob
  <1>1. nextJob \in Nat /\ Len(out) \in Nat
    BY DEF TypeOK
  <1>2. IsFiniteSet(Ids) /\ Cardinality(Ids) = nextJob
    <2>1. /\ IsFiniteSet(0..(nextJob - 1))
          /\ Cardinality(0..(nextJob - 1)) =
                IF 0 > nextJob - 1 THEN 0 ELSE (nextJob - 1) - 0 + 1
      BY <1>1, FS_Interval
    <2> QED
      BY <1>1, <2>1 DEF Ids
  <1>3. IsFiniteSet(P) /\ IsFiniteSet(P \union Written)
        /\ Cardinality(P \union Written) <= Cardinality(Ids)
    BY <1>2, FS_Subset
  <1>4. IsFiniteSet(Written) /\ Cardinality(Written) = Len(out)
    BY WrittenCardinality
  <1>5. Cardinality(P \union Written) =
            Cardinality(P) + Cardinality(Written) - Cardinality(P \intersect Written)
    BY <1>3, <1>4, FS_Union
  <1>6. Cardinality(P \intersect Written) = 0 /\ Cardinality(P) \in Nat
    BY <1>3, FS_EmptySet, FS_CardinalityType
  <1> QED
    BY <1>1, <1>2, <1>3, <1>4, <1>5, <1>6

(* The reorder buffer never outgrows the window, so neither does the       *)
(* memory of the run, and the writer never blocks on the permit channel.   *)
THEOREM BoundedReorderBuffer == Spec => []ReorderBufferBounded
  <1>1. ASSUME IInv PROVE ReorderBufferBounded
    <2> USE <1>1 DEF IInv
    <2>1. /\ nextJob \in Nat /\ Len(out) \in Nat /\ nextJob <= Len(out) + QueueDepth
          /\ Distinct(out) /\ Written \subseteq Ids /\ pending \subseteq Ids
          /\ pending \intersect Written = {} /\ QueueDepth \in Nat \ {0}
      BY DEF TypeOK, OnePlace, Dequeued, Ids
    <2>2. /\ IsFiniteSet(pending) /\ Cardinality(pending) \in Nat
          /\ Cardinality(pending) + Len(out) <= nextJob
      BY <2>1, UnwrittenBound
    <2>3. Cardinality(pending) <= QueueDepth
      BY <2>1, <2>2
    <2>4. ASSUME pending # {}, ~ReaderGone PROVE permits < QueueDepth
      <3>1. Cardinality(pending) # 0
        BY <2>2, <2>4, FS_EmptySet
      <3>2. permits + Holding + (nextJob - Len(out)) = QueueDepth /\ permits \in Nat
            /\ Holding \in {0, 1}
        BY <2>4 DEF PermitsConserved, TypeOK, Holding
      <3> QED
        BY <2>1, <2>2, <3>1, <3>2
    <2>5. ASSUME ~Flushing PROVE Cardinality(pending) < QueueDepth
      <3>1. CASE pending = {}
        BY <2>1, <3>1, FS_EmptySet
      <3>2. CASE pending # {}
        <4>1. preserve /\ nextId = Len(out) /\ \A i \in 1..Len(out) : out[i] = i - 1
          BY <2>5, <3>2 DEF Flushing, Writable, OrderPreserved, TypeOK
        <4>2. nextId \notin pending
          BY <2>5, <4>1 DEF Flushing, Writable
        <4>3. \A x \in Written : x < nextId
          BY <2>1, <4>1 DEF Written, Elements
        <4>4. 0..(nextId - 1) \subseteq Written
          <5>1. ASSUME NEW x \in 0..(nextId - 1) PROVE x \in Written
            <6>1. x + 1 \in 1..Len(out) /\ out[x + 1] = x
              BY <2>1, <4>1
            <6> QED
              BY <6>1 DEF Written, Elements
          <5> QED
            BY <5>1
        <4>5. nextId \in Ids
          <5>1. PICK p \in pending : TRUE
            BY <3>2
          <5>2. p \in Nat /\ p < nextJob /\ p \notin 0..(nextId - 1) /\ p # nextId
            BY <2>1, <4>2, <4>4, <5>1 DEF Ids
          <5> QED
            BY <2>1, <4>1, <5>2 DEF Ids
        <4>6. nextId \notin Written
          BY <2>1, <4>1, <4>3
        <4>7. Cardinality(pending \union {nextId}) + Len(out) <= nextJob
          BY <2>1, <4>5, <4>6, UnwrittenBound
        <4>8. Cardinality(pending \union {nextId}) = Cardinality(pending) + 1
          BY <2>2, <4>2, FS_AddElement
        <4> QED
          BY <2>1, <2>2, <4>7, <4>8
      <3> QED
        BY <3>1, <3>2
    <2> QED
      BY <2>1, <2>3, <2>4, <2>5 DEF ReorderBufferBounded
  <1> QED
    BY <1>1, Invariance, PTL

(* Once the writer is past its loop nothing is left in the pipeline.       *)
LEMMA JoinedComplete ==
    ASSUME IInv, main \in {"join", "ok"}, NoPanic
    PROVE  Written = Ids /\ Len(out) = nextJob
  <1> USE DEF IInv
  <1>1. NoPanic /\ WorkersGone /\ results = <<>> /\ ~Flushing
    BY DEF Drained
  <1>2. /\ nextJob \in Nat /\ Len(out) \in Nat /\ skipped \in Nat /\ Distinct(out)
        /\ pending \subseteq Ids /\ pending \intersect Written = {} /\ Written \subseteq Ids
    BY DEF TypeOK, OnePlace, Dequeued, Ids
  <1>3. jobs = <<>> /\ Len(jobs) = 0
    <2>1. PICK w \in Workers : TRUE
      OBVIOUS
    <2>2. worker[w] = "ended"
      BY <1>1 DEF WorkersGone, WorkerGone, NoPanic
    <2> QED
      BY <1>1, <2>2 DEF Lossless
  <1>4. InHand = {} /\ Elements(results) = {}
    BY <1>1 DEF InHand, HeldInv, WorkersGone, WorkerGone, Elements
  <1>5. Ids = pending \union Written
    BY <1>1, <1>2, <1>3, <1>4 DEF Lossless, Dequeued, Ids
  <1>6. pending = {}
    <2>1. SUFFICES ASSUME NEW p \in pending PROVE FALSE
      OBVIOUS
    <2>2. preserve /\ nextId = Len(out) /\ \A i \in 1..Len(out) : out[i] = i - 1
      BY <1>1 DEF Flushing, Writable, OrderPreserved, TypeOK
    <2>3. nextId \notin pending
      BY <1>1, <2>2 DEF Flushing, Writable
    <2>4. nextId \notin Written
      BY <1>2, <2>2 DEF Written, Elements
    <2>5. p \in Nat /\ p < nextJob /\ p >= nextId
      <3>1. ASSUME p < nextId PROVE p \in Written
        <4>1. p + 1 \in 1..Len(out) /\ out[p + 1] = p
          BY <1>2, <2>2, <3>1 DEF Ids
        <4> QED
          BY <4>1 DEF Written, Elements
      <3> QED
        BY <1>2, <2>2, <3>1 DEF Ids
    <2>6. nextId \in Ids
      BY <1>2, <2>2, <2>5 DEF Ids
    <2> QED
      BY <1>5, <2>3, <2>4, <2>6
  <1>7. Written = Ids
    BY <1>5, <1>6
  <1>8. Len(out) = nextJob
    <2>1. Cardinality(Written) = Len(out)
      BY <1>2, WrittenCardinality
    <2>2. Cardinality(0..(nextJob - 1)) =
              IF 0 > nextJob - 1 THEN 0 ELSE (nextJob - 1) - 0 + 1
      BY <1>2, FS_Interval
    <2> QED
      BY <1>2, <1>7, <2>1, <2>2 DEF Ids
  <1> QED
    BY <1>7, <1>8

(* A successful run has written every accepted record and its manifest     *)
(* accounts for every line.                                                *)
THEOREM CompleteOnSuccess == Spec => []ManifestComplete
  <1>1. ASSUME IInv, main = "ok"
        PROVE  /\ Written = Ids /\ Len(out) = nextJob
               /\ manifest.read = manifest.kept + manifest.dropped
    <2>1. NoPanic /\ manifest = [read |-> nextJob + skipped, kept |-> Len(out),
                      dropped |-> skipped, launchFailures |-> launchFailures]
      BY <1>1 DEF IInv, Finished
    <2>2. Written = Ids /\ Len(out) = nextJob
      BY <1>1, <2>1, JoinedComplete
    <2> QED
      BY <2>1, <2>2
  <1>2. IInv => ManifestComplete
    BY <1>1 DEF ManifestComplete
  <1> QED
    BY <1>2, Invariance, PTL

(* Every behaviour of the threads is a behaviour of the abstract stream.   *)
THEOREM StreamRefinement == Spec => ImplementsStream
  <1>1. Init => Stream!Init
    BY DEF Init, Stream!Init
  <1>2. ASSUME IInv, [Next]_vars PROVE [Stream!Next]_(Stream!streamVars)
    <2> USE <1>2 DEF IInv
    <2>1. CASE SendJob /\ ReaderStep
      <3>1. nextJob' = nextJob + 1 /\ UNCHANGED <<preserve, out, main>>
        BY <2>1 DEF SendJob, ReaderStep, writerVars
      <3>2. main # "ok"
        BY <2>1 DEF ReaderStep, Running
      <3>3. nextJob < Len(out) + QueueDepth
        <4>1. permits + 1 + (nextJob - Len(out)) = QueueDepth
          BY <2>1 DEF SendJob, PermitsConserved, Holding, ReaderGone
        <4> QED
          BY <4>1 DEF TypeOK
      <3> QED
        BY <3>1, <3>2, <3>3 DEF Stream!Next, Stream!Accept
    <2>2. CASE ReaderStep /\ ~SendJob
      BY <2>2 DEF ReaderStep, ReadValid, ReadInvalid, ReadError, ReadEof, TakePermit,
                  PermitClosed, SendClosed, writerVars, Stream!streamVars
    <2>3. ASSUME NEW w \in Workers, WorkerStep(w) PROVE UNCHANGED Stream!streamVars
      BY <2>3 DEF WorkerStep, readerVars, writerVars, Stream!streamVars
    <2>4. ASSUME NEW id \in pending, WriteOne(id), MainStep PROVE Stream!Next
      <3>1. /\ out' = Append(out, id) /\ main' = main /\ main = "drain"
            /\ nextJob' = nextJob /\ preserve' = preserve /\ (preserve => id = nextId)
        BY <2>4 DEF WriteOne, Writable, MainStep, readerVars
      <3>2. id \in 0..(nextJob - 1) /\ id \notin Stream!Emitted
        BY DEF TypeOK, OnePlace, Ids, Written, Elements, Stream!Emitted
      <3>3. preserve => id = Len(out)
        BY <3>1 DEF OrderPreserved
      <3> QED
        BY <3>1, <3>2, <3>3 DEF Stream!Next, Stream!Emit
    <2>5. CASE Join /\ MainStep
      <3>1. UNCHANGED <<preserve, nextJob, out>> /\ main = "join"
        BY <2>5 DEF Join, MainStep, readerVars
      <3>2. CASE main' = "ok"
        <4>1. Len(out) = nextJob
          BY <2>5, <3>1, <3>2, JoinedComplete DEF Join, NoPanic
        <4> QED
          BY <3>1, <3>2, <4>1 DEF Stream!Next, Stream!Finish
      <3>3. CASE main' # "ok"
        BY <3>1, <3>3 DEF Stream!streamVars
      <3> QED
        BY <3>2, <3>3
    <2>6. CASE MainStep /\ (CreateOutput \/ TakeResult \/ WriteFails \/ ResultsClosed \/ Exit)
      BY <2>6 DEF MainStep, CreateOutput, TakeResult, WriteFails, ResultsClosed, Exit,
                  readerVars, Returning, Stream!streamVars
    <2>7. CASE UNCHANGED vars
      BY <2>7 DEF vars, readerVars, writerVars, Stream!streamVars
    <2> QED
      BY <2>1, <2>2, <2>3, <2>4, <2>5, <2>6, <2>7 DEF Next, Ended, MainStep
  <1> QED
    BY <1>1, <1>2, Invariance, PTL DEF Spec, ImplementsStream, Stream!Spec
================================================================================
