--------------------------- MODULE UsiEngineProofs ---------------------------
(***************************************************************************)
(* A result belongs to its own search, the barrier puts a session back in  *)
(* step, the alarms of strict mode are true and a dead engine is told from *)
(* a slow one: for any sessions, with any number of calls and info lines.  *)
(*                                                                         *)
(* The client sees kinds of lines and never a tag, so what it knows is the *)
(* order in which lines come.  The invariant speaks of everything between  *)
(* the two: what is written and unread, what the engine is at, and what it *)
(* has been told and not read.  Where the client would put up a barrier,   *)
(* every answer to isready is behind all that the searches so far can still*)
(* send (ReadyLast); where it would not, every such answer is ahead of it  *)
(* (ReadyFirst).  So the answer that ends a barrier leaves nothing stale,  *)
(* even if it belongs to an earlier barrier that was given up, and one left*)
(* over from a barrier is read before the bestmove that calls for the next.*)
(***************************************************************************)
EXTENDS UsiEngine, TLAPS

-----------------------------------------------------------------------------
(* Queues of lines.                                                        *)

Kinds == {"usi", "isready", "go", "stop", "usiok", "readyok", "info", "bare", "bestmove"}
Lines == [kind : Kinds, go : Nat]

\* The tags of the lines of some kinds in a queue.
Tags(K, q) == {q[i].go : i \in {i \in 1..Len(q) : q[i].kind \in K}}

\* In a queue, nothing of kinds A comes after something of kinds B.
NoneAfter(A, B, q) == \A i, j \in 1..Len(q) : i < j /\ q[i].kind \in B => q[j].kind \notin A

\* The same of a queue r that is fed by a queue s.
Tags2(K, r, s) == Tags(K, r) \union Tags(K, s)
NoneAfter2(A, B, r, s) ==
    /\ NoneAfter(A, B, r) /\ NoneAfter(A, B, s)
    /\ Tags(B, r) # {} => Tags(A, s) = {}

LEMMA EmptyQueue ==
    ASSUME NEW A, NEW B
    PROVE  Tags(A, <<>>) = {} /\ NoneAfter(A, B, <<>>)
BY DEF Tags, NoneAfter

LEMMA AppendLine ==
    ASSUME NEW q \in Seq(Lines), NEW x \in Lines, NEW A, NEW B
    PROVE  /\ Append(q, x) \in Seq(Lines)
           /\ Tags(A, Append(q, x)) = Tags(A, q) \union IF x.kind \in A THEN {x.go} ELSE {}
           /\ NoneAfter(A, B, q) /\ (x.kind \in A => Tags(B, q) = {})
                  => NoneAfter(A, B, Append(q, x))
<1> DEFINE new == Append(q, x)
<1>1. /\ new \in Seq(Lines) /\ Len(new) = Len(q) + 1 /\ Len(q) \in Nat
      /\ \A i \in 1..Len(q) : new[i] = q[i]
      /\ new[Len(q) + 1] = x
  OBVIOUS
<1> HIDE DEF new
<1>2. Tags(A, new) = Tags(A, q) \union IF x.kind \in A THEN {x.go} ELSE {}
  <2>1. \A t : t \in Tags(A, new) <=> \E i \in 1..Len(q) + 1 : new[i].kind \in A /\ new[i].go = t
    BY <1>1 DEF Tags
  <2>2. \A t : t \in Tags(A, q) <=> \E i \in 1..Len(q) : q[i].kind \in A /\ q[i].go = t
    BY DEF Tags
  <2>3. ASSUME NEW t
        PROVE  (\E i \in 1..Len(q) + 1 : new[i].kind \in A /\ new[i].go = t)
               <=> (\E i \in 1..Len(q) : q[i].kind \in A /\ q[i].go = t)
                   \/ (x.kind \in A /\ x.go = t)
    <3>1. \A i \in 1..Len(q) + 1 : i \in 1..Len(q) \/ i = Len(q) + 1
      BY <1>1
    <3>2. Len(q) + 1 \in 1..Len(q) + 1 /\ \A i \in 1..Len(q) : i \in 1..Len(q) + 1
      BY <1>1
    <3> QED BY <1>1, <3>1, <3>2
  <2> QED BY <2>1, <2>2, <2>3
<1>3. ASSUME NoneAfter(A, B, q), x.kind \in A => Tags(B, q) = {}
      PROVE  NoneAfter(A, B, new)
  <2> SUFFICES ASSUME NEW i \in 1..Len(new), NEW j \in 1..Len(new), i < j, new[i].kind \in B
               PROVE  new[j].kind \notin A
    BY DEF NoneAfter
  <2>1. i \in 1..Len(q) /\ q[i].kind \in B
    BY <1>1
  <2>2. CASE j \in 1..Len(q)
    BY <1>1, <1>3, <2>1, <2>2 DEF NoneAfter
  <2>3. CASE j = Len(q) + 1
    BY <1>1, <1>3, <2>1, <2>3 DEF Tags
  <2> QED BY <1>1, <2>2, <2>3
<1> QED BY <1>1, <1>2, <1>3 DEF new

LEMMA TailLine ==
    ASSUME NEW q \in Seq(Lines), q # <<>>, NEW A, NEW B
    PROVE  /\ Tail(q) \in Seq(Lines) /\ Head(q) \in Lines
           /\ Tags(A, q) = Tags(A, Tail(q)) \union IF Head(q).kind \in A THEN {Head(q).go} ELSE {}
           /\ NoneAfter(A, B, q) => /\ NoneAfter(A, B, Tail(q))
                                    /\ Head(q).kind \in B => Tags(A, Tail(q)) = {}
<1> DEFINE rest == Tail(q)
<1>1. /\ rest \in Seq(Lines) /\ Len(q) \in Nat \ {0} /\ Len(rest) = Len(q) - 1
      /\ Head(q) = q[1] /\ q[1] \in Lines
      /\ \A i \in 1..Len(rest) : rest[i] = q[i + 1]
  OBVIOUS
<1> HIDE DEF rest
<1>2. Tags(A, q) = Tags(A, rest) \union IF q[1].kind \in A THEN {q[1].go} ELSE {}
  <2>1. \A t : t \in Tags(A, rest) <=> \E i \in 1..Len(q) - 1 : q[i + 1].kind \in A /\ q[i + 1].go = t
    BY <1>1 DEF Tags
  <2>2. \A t : t \in Tags(A, q) <=> \E i \in 1..Len(q) : q[i].kind \in A /\ q[i].go = t
    BY DEF Tags
  <2>3. ASSUME NEW t
        PROVE  (\E i \in 1..Len(q) : q[i].kind \in A /\ q[i].go = t)
               <=> (\E i \in 1..Len(q) - 1 : q[i + 1].kind \in A /\ q[i + 1].go = t)
                   \/ (q[1].kind \in A /\ q[1].go = t)
    <3>1. \A i \in 1..Len(q) : i = 1 \/ (i - 1 \in 1..Len(q) - 1 /\ (i - 1) + 1 = i)
      BY <1>1
    <3>2. 1 \in 1..Len(q) /\ \A i \in 1..Len(q) - 1 : i + 1 \in 1..Len(q)
      BY <1>1
    <3>3. ASSUME NEW i \in 1..Len(q), q[i].kind \in A, q[i].go = t
          PROVE  \/ \E j \in 1..Len(q) - 1 : q[j + 1].kind \in A /\ q[j + 1].go = t
                 \/ q[1].kind \in A /\ q[1].go = t
      <4>1. CASE i = 1
        BY <3>3, <4>1
      <4>2. CASE i # 1
        <5>1. i - 1 \in 1..Len(q) - 1 /\ (i - 1) + 1 = i
          BY <3>1, <4>2
        <5>2. q[(i - 1) + 1].kind \in A /\ q[(i - 1) + 1].go = t
          BY <3>3, <5>1
        <5> QED BY <5>1, <5>2
      <4> QED BY <4>1, <4>2
    <3>4. ASSUME NEW i \in 1..Len(q) - 1, q[i + 1].kind \in A, q[i + 1].go = t
          PROVE  \E j \in 1..Len(q) : q[j].kind \in A /\ q[j].go = t
      BY <3>2, <3>4
    <3>5. q[1].kind \in A /\ q[1].go = t => \E i \in 1..Len(q) : q[i].kind \in A /\ q[i].go = t
      BY <3>2
    <3> QED BY <3>3, <3>4, <3>5, Zenon
  <2> QED BY <2>1, <2>2, <2>3
<1>3. ASSUME NoneAfter(A, B, q)
      PROVE  NoneAfter(A, B, rest) /\ (q[1].kind \in B => Tags(A, rest) = {})
  <2>1. \A i \in 1..Len(rest) : i + 1 \in 1..Len(q) /\ 1 \in 1..Len(q) /\ 1 < i + 1
    BY <1>1
  <2>2. NoneAfter(A, B, rest)
    <3> SUFFICES ASSUME NEW i \in 1..Len(rest), NEW j \in 1..Len(rest), i < j, rest[i].kind \in B
                 PROVE  rest[j].kind \notin A
      BY DEF NoneAfter
    <3>1. /\ i + 1 \in 1..Len(q) /\ j + 1 \in 1..Len(q) /\ i + 1 < j + 1
          /\ rest[i] = q[i + 1] /\ rest[j] = q[j + 1]
      BY <1>1, <2>1
    <3> QED BY <1>3, <3>1 DEF NoneAfter
  <2>3. q[1].kind \in B => Tags(A, rest) = {}
    BY <1>1, <1>3, <2>1 DEF NoneAfter, Tags
  <2> QED BY <2>2, <2>3
<1> QED BY <1>1, <1>2, <1>3 DEF rest

\* A line is taken out of r.
LEMMA TakeLine ==
    ASSUME NEW r \in Seq(Lines), NEW s \in Seq(Lines), r # <<>>, NEW A, NEW B
    PROVE  /\ Tags2(A, Tail(r), s) \subseteq Tags2(A, r, s)
           /\ Head(r).kind \in A => Head(r).go \in Tags2(A, r, s)
           /\ NoneAfter2(A, B, r, s) => /\ NoneAfter2(A, B, Tail(r), s)
                                        /\ Head(r).kind \in B => Tags2(A, Tail(r), s) = {}
BY TailLine DEF Tags2, NoneAfter2

\* A line passes from s to r.
LEMMA PassLine ==
    ASSUME NEW r \in Seq(Lines), NEW s \in Seq(Lines), s # <<>>, NEW A, NEW B
    PROVE  /\ Tags2(A, Append(r, Head(s)), Tail(s)) = Tags2(A, r, s)
           /\ NoneAfter2(A, B, r, s) => NoneAfter2(A, B, Append(r, Head(s)), Tail(s))
<1>1. Head(s) \in Lines
  BY TailLine
<1>2. /\ Tags(A, s) = Tags(A, Tail(s)) \union IF Head(s).kind \in A THEN {Head(s).go} ELSE {}
      /\ NoneAfter(A, B, s) => /\ NoneAfter(A, B, Tail(s))
                               /\ Head(s).kind \in B => Tags(A, Tail(s)) = {}
  BY TailLine
<1>3. /\ \A K : Tags(K, Append(r, Head(s))) = Tags(K, r) \union IF Head(s).kind \in K THEN {Head(s).go} ELSE {}
      /\ NoneAfter(A, B, r) /\ (Head(s).kind \in A => Tags(B, r) = {})
                  => NoneAfter(A, B, Append(r, Head(s)))
  BY <1>1, AppendLine
<1>4. Tags2(A, Append(r, Head(s)), Tail(s)) = Tags2(A, r, s)
  BY <1>2, <1>3 DEF Tags2
<1>5. ASSUME NoneAfter2(A, B, r, s) PROVE NoneAfter2(A, B, Append(r, Head(s)), Tail(s))
  <2>1. Head(s).kind \in A => Tags(B, r) = {}
    BY <1>2, <1>5 DEF NoneAfter2
  <2>2. Tags(B, Append(r, Head(s))) # {} => Tags(A, Tail(s)) = {}
    BY <1>2, <1>3, <1>5 DEF NoneAfter2
  <2> QED BY <1>2, <1>3, <1>5, <2>1, <2>2 DEF NoneAfter2
<1> QED BY <1>4, <1>5

\* A line is written to s.
LEMMA WriteLine ==
    ASSUME NEW r \in Seq(Lines), NEW s \in Seq(Lines), NEW x \in Lines, NEW A, NEW B
    PROVE  /\ Tags2(A, r, Append(s, x)) = Tags2(A, r, s) \union IF x.kind \in A THEN {x.go} ELSE {}
           /\ NoneAfter2(A, B, r, s) /\ (x.kind \in A => Tags2(B, r, s) = {})
                  => NoneAfter2(A, B, r, Append(s, x))
BY AppendLine DEF Tags2, NoneAfter2

\* Every bestmove in a queue has an info line before it.
LedByInfo(q) ==
    \A j \in 1..Len(q) : q[j].kind = "bestmove" => \E i \in 1..j - 1 : q[i].kind = "info"
Led2(r, s) == LedByInfo(r) /\ (Tags({"info"}, r) = {} => LedByInfo(s))

LEMMA LedAppend ==
    ASSUME NEW q \in Seq(Lines), NEW x \in Lines, LedByInfo(q),
           x.kind = "bestmove" => Tags({"info"}, q) # {}
    PROVE  LedByInfo(Append(q, x))
<1> DEFINE new == Append(q, x)
<1>1. /\ new \in Seq(Lines) /\ Len(new) = Len(q) + 1 /\ Len(q) \in Nat
      /\ \A i \in 1..Len(q) : new[i] = q[i]
      /\ new[Len(q) + 1] = x
  OBVIOUS
<1> HIDE DEF new
<1> SUFFICES ASSUME NEW j \in 1..Len(new), new[j].kind = "bestmove"
             PROVE  \E i \in 1..j - 1 : new[i].kind = "info"
  BY DEF LedByInfo, new
<1>2. CASE j \in 1..Len(q)
  <2>1. PICK i \in 1..j - 1 : q[i].kind = "info"
    BY <1>1, <1>2 DEF LedByInfo
  <2>2. i \in 1..Len(q)
    BY <1>1, <1>2
  <2> QED BY <1>1, <2>1, <2>2
<1>3. CASE j = Len(q) + 1
  <2>1. PICK i \in 1..Len(q) : q[i].kind = "info"
    BY <1>1, <1>3 DEF Tags
  <2>2. i \in 1..j - 1
    BY <1>1, <1>3
  <2> QED BY <1>1, <2>1, <2>2
<1> QED BY <1>1, <1>2, <1>3

LEMMA LedTail ==
    ASSUME NEW q \in Seq(Lines), q # <<>>, LedByInfo(q)
    PROVE  /\ Head(q).kind # "bestmove"
           /\ Head(q).kind # "info" => LedByInfo(Tail(q))
<1> DEFINE rest == Tail(q)
<1>1. /\ rest \in Seq(Lines) /\ Len(q) \in Nat \ {0} /\ Len(rest) = Len(q) - 1
      /\ Head(q) = q[1] /\ \A i \in 1..Len(rest) : rest[i] = q[i + 1]
  OBVIOUS
<1> HIDE DEF rest
<1>2. q[1].kind # "bestmove"
  BY <1>1 DEF LedByInfo
<1>3. ASSUME q[1].kind # "info", NEW j \in 1..Len(rest), rest[j].kind = "bestmove"
      PROVE  \E i \in 1..j - 1 : rest[i].kind = "info"
  <2>1. j + 1 \in 1..Len(q) /\ q[j + 1].kind = "bestmove"
    BY <1>1, <1>3
  <2>2. PICK i \in 1..j : q[i].kind = "info"
    BY <2>1 DEF LedByInfo
  <2>3. i - 1 \in 1..j - 1 /\ i - 1 \in 1..Len(rest) /\ (i - 1) + 1 = i
    BY <1>1, <1>3, <2>2
  <2>4. rest[i - 1] = q[(i - 1) + 1]
    BY <1>1, <2>3
  <2> QED BY <2>2, <2>3, <2>4
<1> QED BY <1>1, <1>2, <1>3 DEF LedByInfo, rest

LEMMA LedPass ==
    ASSUME NEW r \in Seq(Lines), NEW s \in Seq(Lines), s # <<>>, Led2(r, s)
    PROVE  Led2(Append(r, Head(s)), Tail(s))
<1>1. Head(s) \in Lines
  BY TailLine
<1>2. /\ Tags({"info"}, Append(r, Head(s)))
             = Tags({"info"}, r) \union IF Head(s).kind \in {"info"} THEN {Head(s).go} ELSE {}
  BY <1>1, AppendLine
<1>3. CASE Tags({"info"}, r) # {}
  <2>1. LedByInfo(Append(r, Head(s)))
    BY <1>1, <1>3, LedAppend DEF Led2
  <2> QED BY <1>2, <1>3, <2>1 DEF Led2
<1>4. CASE Tags({"info"}, r) = {}
  <2>1. Head(s).kind # "bestmove" /\ (Head(s).kind # "info" => LedByInfo(Tail(s)))
    BY <1>4, LedTail DEF Led2
  <2>2. LedByInfo(Append(r, Head(s)))
    BY <1>1, <2>1, LedAppend DEF Led2
  <2> QED BY <1>2, <2>1, <2>2 DEF Led2
<1> QED BY <1>3, <1>4

-----------------------------------------------------------------------------
(* The invariant.                                                          *)

SearchKinds == {"info", "bare", "bestmove"}

\* What is written and unread.
Written(K) == Tags2(K, rx, stdout)
NoneAfterRead(A, B) == NoneAfter2(A, B, rx, stdout)

\* The searches that the engine may still write a line of.
Coming == IF alive THEN ({engine.search, engine.dup} \ {0}) \union Tags({"go"}, stdin) ELSE {}
InFlight == Written(SearchKinds) \union Coming

Pcs == {"usi", "setup", "failed", "idle", "late", "barrier", "drain", "search", "grace"}
Results == [go : Nat, best : Nat, score : Nat, salvaged : BOOLEAN, synced : BOOLEAN]

FlagsTyped == /\ awaiting \in BOOLEAN /\ completed \in BOOLEAN /\ early \in BOOLEAN
              /\ alive \in BOOLEAN /\ synced \in BOOLEAN /\ bornDead \in BOOLEAN
LogTyped == log \in Seq(Results)

TypeInv ==
    /\ session \in Sessions /\ pc \in Pcs
    /\ call \in Nat /\ go \in Nat
    /\ best \in [kind : {"none", "info", "bare"}, go : Nat]
    /\ stdin \in Seq(Lines) /\ stdout \in Seq(Lines) /\ rx \in Seq(Lines)
    /\ engine \in [stage : {"boot", "ready", "playing"}, search : Nat, infos : Nat,
                   usable : BOOLEAN, dup : Nat]
    /\ FlagsTyped /\ LogTyped

Up == pc \notin {"usi", "setup", "failed"}

\* Until the handshake is over there is one isready, and nothing but bestmoves
\* nobody asked for.
LaunchInv ==
    pc \in {"usi", "setup"} =>
        /\ go = 0 /\ call = 0 /\ ~completed /\ ~awaiting /\ ~synced
        /\ outcome = "none" /\ best.kind = "none"
        /\ engine.stage # "playing" /\ engine.search = 0 /\ engine.dup = 0
        /\ Tags({"go"}, stdin) = {} /\ Written({"info", "bare"}) = {}
        /\ Written({"readyok"}) # {} => engine.stage # "boot"
        /\ Tags({"isready"}, stdin) # {} => engine.stage = "boot"
        /\ NoneAfter({"isready"}, {"isready"}, stdin)
        /\ NoneAfterRead({"readyok"}, {"readyok"})
        /\ "stray" \notin Faults => NoneAfterRead(SearchKinds, {"readyok"})
        /\ pc = "usi" => engine.stage = "boot" /\ Tags({"isready"}, stdin) = {}

\* An engine that has not read a go has nothing to say of one.
StageInv ==
    Up => /\ engine.stage # "boot"
          /\ engine.stage # "playing" =>
                /\ ~completed /\ ~synced /\ engine.search = 0 /\ engine.dup = 0
                /\ best.kind = "none" /\ Written({"info", "bare"}) = {}
                /\ Written({"readyok"}) = {} /\ Tags({"isready"}, stdin) = {}

PcInv ==
    /\ pc \in {"drain", "search", "grace"} => ~completed
    /\ pc = "barrier" => completed
    /\ pc \in {"search", "grace"} => go = call
    /\ pc \in {"late", "barrier", "drain", "search", "grace"} => call # 0
    /\ pc = "late" => awaiting

\* No answer to isready behind a line of a search, and none to come.
ReadyFirst ==
    /\ NoneAfterRead({"readyok"}, SearchKinds)
    /\ NoneAfter({"isready"}, {"go"}, stdin)
    /\ Written(SearchKinds) # {} \/ engine.search # 0 \/ engine.dup # 0
          => Tags({"isready"}, stdin) = {}

\* No line of a search behind an answer to isready, and none to come.
ReadyLast ==
    /\ NoneAfterRead(SearchKinds, {"readyok"})
    /\ NoneAfter({"go"}, {"isready"}, stdin)
    /\ Written({"readyok"}) # {}
          => engine.search = 0 /\ engine.dup = 0 /\ Tags({"go"}, stdin) = {}

OrderInv == Up => IF completed THEN ReadyLast ELSE ReadyFirst

\* A search behind a barrier is alone.
SyncedInv ==
    /\ synced /\ pc = "drain" => InFlight = {}
    /\ synced /\ pc \in {"search", "grace"} =>
          InFlight \subseteq {call} /\ (best.kind # "none" => best.go = call)

\* The sessions for which strict mode keeps its word.
Sound ==
    /\ Strict /\ "stray" \notin Faults
    /\ "duplicate" \in Faults => "noinfo" \notin Faults /\ "malformed" \notin Faults

\* Between two searches of such a session nothing is in flight, unless a barrier is
\* due or the session only waits for an answer that is owed.
OwnInv ==
    Up /\ Sound =>
        /\ InFlight \subseteq {go} \ {0}
        /\ pc \notin {"search", "grace"} /\ ~awaiting /\ ~completed => InFlight = {}
        /\ pc \in {"search", "grace"} /\ best.kind # "none" => best.go = call
        /\ completed => go \in seen
        /\ awaiting => pc \in {"idle", "late"}

\* Without duplicates a bestmove is the last line of its search.
Last ==
    /\ engine.dup = 0
    /\ NoneAfterRead(SearchKinds, {"bestmove"})
    /\ Written({"bestmove"}) # {} => engine.search = 0 /\ Tags({"go"}, stdin) = {}
    /\ engine.search # 0 => Tags({"go"}, stdin) = {}
    /\ NoneAfter({"go"}, {"go"}, stdin)

LastInv == Up /\ Sound /\ "duplicate" \notin Faults => Last

\* An engine that scores its answers has the client know a score before each bestmove.
Scored ==
    /\ Led2(rx, stdout)
    /\ alive /\ ((engine.search # 0 /\ engine.usable) \/ engine.dup # 0) => Written({"info"}) # {}

InfoInv ==
    Up /\ Sound /\ "noinfo" \notin Faults =>
        /\ Written({"bare"}) = {} /\ best.kind # "bare"
        /\ pc \in {"search", "grace"} /\ best.kind # "info" => Scored

\* A call that found the engine dead has nothing to read.
DeadInv ==
    bornDead =>
        /\ ~alive /\ stdout = <<>> /\ rx = <<>>
        /\ pc \in {"idle", "late", "barrier", "drain", "search"}
        /\ pc = "idle" => outcome = "Io"

LogInv ==
    \A i \in 1..Len(log) :
        Sound \/ log[i].synced => log[i].best = log[i].go /\ log[i].score = log[i].go

Inv == /\ TypeInv /\ LaunchInv /\ StageInv /\ PcInv /\ OrderInv /\ SyncedInv
       /\ OwnInv /\ LastInv /\ InfoInv /\ DeadInv /\ LogInv

LEMMA NoTags ==
    ASSUME NEW A, NEW B, NEW q, Tags(A, q) = {} \/ Tags(B, q) = {}
    PROVE  NoneAfter(A, B, q)
BY DEF Tags, NoneAfter

LEMMA NoTags2 ==
    ASSUME NEW A, NEW B, NEW r, NEW s, Tags2(A, r, s) = {} \/ Tags2(B, r, s) = {}
    PROVE  NoneAfter2(A, B, r, s)
BY NoTags DEF Tags2, NoneAfter2

LEMMA LineIsLine ==
    /\ \A n \in Nat : \A kind \in Kinds : Line(kind, n) \in Lines
    /\ \A n, kind : Line(kind, n).kind = kind /\ Line(kind, n).go = n
BY DEF Line, Lines

LEMMA TagsMono ==
    ASSUME NEW J, NEW K, K \subseteq J, NEW r, NEW s
    PROVE  Tags2(K, r, s) \subseteq Tags2(J, r, s)
BY DEF Tags2, Tags

-----------------------------------------------------------------------------
(* The types.                                                              *)

LEMMA TypeInit == Init => TypeInv
<1>1. Line("usi", 0) \in Lines
  BY LineIsLine DEF Kinds
<1>2. <<Line("usi", 0)>> \in Seq(Lines)
  BY <1>1
<1>3. NoInfo \in [kind : {"none", "info", "bare"}, go : Nat]
  BY DEF NoInfo, Line
<1>4. Init => LogTyped
  BY DEF Init, LogTyped
<1>5. Init => FlagsTyped
  BY DEF Init, FlagsTyped
<1>6. Init => engine \in [stage : {"boot", "ready", "playing"}, search : Nat, infos : Nat,
                          usable : BOOLEAN, dup : Nat]
  BY DEF Init
<1> QED BY <1>2, <1>3, <1>4, <1>5, <1>6 DEF Init, TypeInv, Pcs

LEMMA QueueTypes ==
    ASSUME NEW q \in Seq(Lines), NEW x \in Lines
    PROVE  Append(q, x) \in Seq(Lines) /\ (q # <<>> => Tail(q) \in Seq(Lines) /\ Head(q) \in Lines)
OBVIOUS

\* A client that reads takes at most one line.
Reads == rx' = rx \/ (rx # <<>> /\ rx' = Tail(rx))

LEMMA PutType ==
    ASSUME TypeInv, NEW command \in Lines, Put(command)
    PROVE  stdin' \in Seq(Lines)
BY QueueTypes DEF Put, TypeInv

LEMMA LogType ==
    ASSUME TypeInv, NEW tag \in Nat, NEW salvaged \in BOOLEAN
    PROVE  /\ Append(log, Result(tag, salvaged)) \in Seq(Results)
           /\ Result(tag, salvaged) \in Results
<1>1. Result(tag, salvaged) \in Results
  <2>1. call \in Nat /\ best.go \in Nat
    BY DEF TypeInv
  <2>2. synced \in BOOLEAN
    BY DEF TypeInv, FlagsTyped
  <2> QED BY <2>1, <2>2, Zenon DEF Result, Results
<1> QED BY <1>1 DEF TypeInv, LogTyped

LEMMA ClientReads ==
    ASSUME TypeInv, ReportEarly \/ Analyse \/ Work
    PROVE  Reads
BY DEF ReportEarly, Analyse, Work, Handshake, HandshakeUsi, HandshakeReady, HandshakeBestmove,
       HandshakeFails, WaitLate, WaitBarrier, BarrierDone, Drain, SendGo, TakeInfo, TakeOther,
       TakeBestmove, StopSearch, SearchDies, Salvage, Recv, RecvOther, RecvTimeout, RecvIo, Reads

LEMMA ClientType == ASSUME TypeInv, ClientStep PROVE TypeInv'
<1>0. /\ UNCHANGED <<session, stdout, alive, engine>> /\ rx' \in Seq(Lines)
      /\ rx # <<>> => Head(rx) \in Lines
  <2>1. rx # <<>> => Tail(rx) \in Seq(Lines) /\ Head(rx) \in Lines
    BY QueueTypes DEF TypeInv
  <2> QED BY <2>1, ClientReads DEF ClientStep, Reads, TypeInv
<1>l. LogTyped'
  <2>1. UNCHANGED log => LogTyped'
    BY DEF TypeInv, LogTyped
  <2>2. CASE TakeBestmove
    <3>1. rx # <<>> /\ Head(rx).go \in Nat
      BY <1>0, <2>2 DEF TakeBestmove, Recv, Lines
    <3>2. Append(log, Result(Head(rx).go, FALSE)) \in Seq(Results)
      BY <3>1, LogType
    <3> QED BY <2>1, <2>2, <3>2 DEF TakeBestmove, Return, Fail, LogTyped
  <2>3. CASE Salvage
    <3>1. Append(log, Result(best.go, TRUE)) \in Seq(Results)
      BY LogType DEF TypeInv
    <3> QED BY <2>1, <2>3, <3>1 DEF Salvage, Return, Fail, LogTyped
  <2>4. CASE ~TakeBestmove /\ ~Salvage
    <3>1. UNCHANGED log
      BY <2>4 DEF ClientStep, ReportEarly, Analyse, Work, Handshake, HandshakeUsi, HandshakeReady,
              HandshakeBestmove, HandshakeFails, WaitLate, WaitBarrier, BarrierDone, Drain, SendGo,
              TakeInfo, TakeOther, StopSearch, SearchDies, Skip, Fail
    <3> QED BY <2>1, <3>1
  <2> QED BY <2>2, <2>3, <2>4
<1>f. FlagsTyped'
  <2> USE DEF FlagsTyped
  <2>1. CASE ReportEarly
    BY <1>0, <2>1 DEF ReportEarly, TypeInv
  <2>2. CASE Analyse
    BY <1>0, <2>2 DEF Analyse, TypeInv, flags, Disconnected
  <2>3. CASE Handshake
    BY <1>0, <2>3 DEF Handshake, HandshakeUsi, HandshakeReady, HandshakeBestmove, HandshakeFails,
                      TypeInv, flags
  <2>4. CASE Work /\ ~Handshake
    BY <1>0, <2>4 DEF Work, WaitLate, WaitBarrier, BarrierDone, Drain, SendGo, TakeInfo, TakeOther,
          TakeBestmove, StopSearch, SearchDies, Salvage, Skip, Fail, Return, TypeInv, flags
  <2> QED BY <2>1, <2>2, <2>3, <2>4 DEF ClientStep
<1> USE <1>l, <1>f DEF TypeInv
<1>1. CASE ReportEarly
  BY <1>0, <1>1 DEF ReportEarly, Pcs
<1>2. CASE Analyse
  <2>1. stdin' \in Seq(Lines)
    BY <1>2, PutType, LineIsLine DEF Kinds, Analyse
  <2> QED BY <1>0, <1>2, <2>1 DEF Analyse, Pcs, flags
<1>3. CASE Handshake
  <2>1. stdin' \in Seq(Lines)
    BY <1>3, PutType, LineIsLine DEF Kinds, Handshake, HandshakeUsi, HandshakeReady, HandshakeBestmove,
                                     HandshakeFails
  <2> QED
    BY <1>0, <1>3, <2>1 DEF Handshake, HandshakeUsi, HandshakeReady, HandshakeBestmove,
                            HandshakeFails, Pcs, flags
<1>4. CASE WaitLate \/ WaitBarrier \/ Drain \/ SearchDies \/ TakeOther
  BY <1>0, <1>4 DEF WaitLate, WaitBarrier, Drain, SearchDies, TakeOther, Skip, Fail, Pcs, flags
<1>5. CASE BarrierDone
  BY <1>0, <1>5 DEF BarrierDone, Pcs
<1>6. CASE SendGo
  <2>1. stdin' \in Seq(Lines)
    BY <1>6, PutType, LineIsLine DEF Kinds, SendGo
  <2> QED BY <1>0, <1>6, <2>1 DEF SendGo, Pcs, flags, NoInfo, Line
<1>7. CASE TakeInfo
  BY <1>0, <1>7 DEF TakeInfo, Recv, Lines, flags
<1>8. CASE TakeBestmove
  BY <1>0, <1>8 DEF TakeBestmove, Return, Fail, Pcs, flags
<1>9. CASE StopSearch
  <2>1. stdin' \in Seq(Lines)
    BY <1>9, PutType, LineIsLine DEF Kinds, StopSearch
  <2> QED BY <1>0, <1>9, <2>1 DEF StopSearch, Pcs, flags
<1>10. CASE Salvage
  BY <1>0, <1>10 DEF Salvage, Return, Fail, Pcs
<1> QED BY <1>1, <1>2, <1>3, <1>4, <1>5, <1>6, <1>7, <1>8, <1>9, <1>10 DEF ClientStep, Work

LEMMA EngineType == ASSUME TypeInv, EngineStep \/ EngineExits \/ Forward PROVE TypeInv'
<1>l. LogTyped'
  BY DEF EngineStep, EngineExits, Forward, ghosts, TypeInv, LogTyped
<1>f. FlagsTyped'
  BY DEF EngineStep, EngineExits, Forward, client, flags, ghosts, TypeInv, FlagsTyped
<1> USE <1>l, <1>f DEF TypeInv
<1>1. CASE EngineStep
  <2>0. UNCHANGED <<session, client, rx, alive, ghosts>>
    BY <1>1 DEF EngineStep
  <2> SUFFICES stdin' \in Seq(Lines) /\ stdout' \in Seq(Lines)
               /\ engine' \in [stage : {"boot", "ready", "playing"}, search : Nat, infos : Nat,
                               usable : BOOLEAN, dup : Nat]
    BY <2>0 DEF client, ghosts, flags
  <2>w. ASSUME NEW kind \in Kinds, NEW n \in Nat, Write(kind, n) PROVE stdout' \in Seq(Lines)
    BY <2>w, QueueTypes, LineIsLine DEF Kinds, Write, TypeInv
  <2>1. CASE ReadCommand
    <3>1. stdin # <<>> /\ stdin' = Tail(stdin)
      BY <2>1 DEF ReadCommand
    <3>2. stdin' \in Seq(Lines) /\ Head(stdin) \in Lines
      BY <3>1, QueueTypes DEF TypeInv
    <3>3. stdout' \in Seq(Lines)
      BY <2>1, <2>w DEF Kinds, ReadCommand
    <3>4. Head(stdin).go \in Nat
      BY <3>2 DEF Lines
    <3>5. engine' \in [stage : {"boot", "ready", "playing"}, search : Nat, infos : Nat,
                       usable : BOOLEAN, dup : Nat]
      <4>1. CASE Head(stdin).kind = "go"
        <5>1. engine' = [stage |-> "playing", search |-> Head(stdin).go, infos |-> 0,
                         usable |-> FALSE, dup |-> 0]
          BY <2>1, <4>1 DEF ReadCommand
        <5>2. 0 \in Nat
          OBVIOUS
        <5> QED BY <3>4, <5>1, <5>2, Zenon
      <4>2. CASE Head(stdin).kind # "go"
        BY <2>1, <4>2 DEF ReadCommand
      <4> QED BY <4>1, <4>2
    <3> QED BY <3>2, <3>3, <3>5
  <2>2. CASE ReadStop
    BY <2>2, QueueTypes DEF ReadStop
  <2>3. CASE SendInfo
    <3>1. PICK usable \in BOOLEAN :
              /\ Write(IF usable THEN "info" ELSE "bare", engine.search)
              /\ engine' = [engine EXCEPT !.infos = @ + 1, !.usable = usable]
      BY <2>3 DEF SendInfo
    <3>2. stdout' \in Seq(Lines)
      BY <3>1, <2>w DEF Kinds
    <3>3. engine.infos + 1 \in Nat
      OBVIOUS
    <3>4. engine' \in [stage : {"boot", "ready", "playing"}, search : Nat, infos : Nat,
                       usable : BOOLEAN, dup : Nat]
      BY <3>1, <3>3, Zenon DEF SendInfo
    <3> QED BY <2>3, <3>2, <3>4 DEF SendInfo
  <2>4. CASE FinishSearch
    BY <2>4, <2>w DEF Kinds, FinishSearch
  <2>5. CASE Duplicate
    BY <2>5, <2>w DEF Kinds, Duplicate
  <2>6. CASE Unsolicited
    BY <2>6, <2>w DEF Kinds, Unsolicited
  <2> QED BY <1>1, <2>1, <2>2, <2>3, <2>4, <2>5, <2>6 DEF EngineStep
<1>2. CASE EngineExits
  BY <1>2 DEF EngineExits, client, pipes, ghosts, flags
<1>3. CASE Forward
  <2>1. rx' \in Seq(Lines) /\ stdout' \in Seq(Lines)
    BY <1>3, QueueTypes DEF Forward
  <2> QED BY <1>3, <2>1 DEF Forward, client, ghosts, flags
<1> QED BY <1>1, <1>2, <1>3


-----------------------------------------------------------------------------
(* What a step does to the queues.                                         *)

LEMMA ReadsNarrow ==
    ASSUME TypeInv, Reads, UNCHANGED stdout
    PROVE  /\ \A K : Tags2(K, rx', stdout') \subseteq Tags2(K, rx, stdout)
           /\ \A A, B : NoneAfter2(A, B, rx, stdout) => NoneAfter2(A, B, rx', stdout')
<1>1. CASE rx' = rx
  BY <1>1
<1>2. CASE rx # <<>> /\ rx' = Tail(rx)
  BY <1>2, TakeLine DEF TypeInv
<1> QED BY <1>1, <1>2 DEF Reads

LEMMA LineTaken ==
    ASSUME TypeInv, rx # <<>>, rx' = Tail(rx), UNCHANGED stdout
    PROVE  /\ \A K : Head(rx).kind \in K => Head(rx).go \in Tags2(K, rx, stdout)
           /\ \A A, B : NoneAfter2(A, B, rx, stdout) /\ Head(rx).kind \in B
                            => Tags2(A, rx', stdout') = {}
BY TakeLine DEF TypeInv

LEMMA LineWritten ==
    ASSUME TypeInv, NEW kind \in Kinds, NEW n \in Nat, Write(kind, n), UNCHANGED rx
    PROVE  /\ \A K : Tags2(K, rx', stdout') = Tags2(K, rx, stdout) \union IF kind \in K THEN {n} ELSE {}
           /\ \A A, B : NoneAfter2(A, B, rx, stdout) /\ (kind \in A => Tags2(B, rx, stdout) = {})
                            => NoneAfter2(A, B, rx', stdout')
<1>1. Line(kind, n) \in Lines /\ Line(kind, n).kind = kind /\ Line(kind, n).go = n
  BY LineIsLine
<1>2. stdout' = Append(stdout, Line(kind, n))
  BY DEF Write
<1>3. rx \in Seq(Lines) /\ stdout \in Seq(Lines)
  BY DEF TypeInv
<1> HIDE DEF Line
<1>4. \A K : Tags2(K, rx, Append(stdout, Line(kind, n)))
                = Tags2(K, rx, stdout) \union IF Line(kind, n).kind \in K THEN {Line(kind, n).go} ELSE {}
  BY <1>1, <1>3, WriteLine
<1>5. \A A, B : /\ NoneAfter2(A, B, rx, stdout)
                /\ Line(kind, n).kind \in A => Tags2(B, rx, stdout) = {}
                => NoneAfter2(A, B, rx, Append(stdout, Line(kind, n)))
  BY <1>1, <1>3, WriteLine
<1> QED BY <1>1, <1>2, <1>4, <1>5

LEMMA LinePassed ==
    ASSUME TypeInv, Forward
    PROVE  /\ \A K : Tags2(K, rx', stdout') = Tags2(K, rx, stdout)
           /\ \A A, B : NoneAfter2(A, B, rx, stdout) => NoneAfter2(A, B, rx', stdout')
BY PassLine DEF TypeInv, Forward

LEMMA CommandRead ==
    ASSUME TypeInv, stdin # <<>>, stdin' = Tail(stdin)
    PROVE  /\ Head(stdin) \in Lines
           /\ \A K : Tags(K, stdin) = Tags(K, stdin')
                        \union IF Head(stdin).kind \in K THEN {Head(stdin).go} ELSE {}
           /\ \A A, B : NoneAfter(A, B, stdin) =>
                  /\ NoneAfter(A, B, stdin')
                  /\ Head(stdin).kind \in B => Tags(A, stdin') = {}
BY TailLine DEF TypeInv

LEMMA CommandPut ==
    ASSUME TypeInv, NEW kind \in Kinds, NEW n \in Nat, Put(Line(kind, n))
    PROVE  /\ ~alive => stdin' = stdin
           /\ alive => /\ \A K : Tags(K, stdin') = Tags(K, stdin) \union IF kind \in K THEN {n} ELSE {}
                       /\ \A A, B : NoneAfter(A, B, stdin) /\ (kind \in A => Tags(B, stdin) = {})
                                        => NoneAfter(A, B, stdin')
<1>1. Line(kind, n) \in Lines /\ Line(kind, n).kind = kind /\ Line(kind, n).go = n
  BY LineIsLine
<1>2. ~alive => stdin' = stdin
  BY DEF Put
<1>3. alive => stdin' = Append(stdin, Line(kind, n))
  BY DEF Put
<1>4. stdin \in Seq(Lines)
  BY DEF TypeInv
<1>5. \A K : Tags(K, Append(stdin, Line(kind, n)))
                = Tags(K, stdin) \union IF Line(kind, n).kind \in K THEN {Line(kind, n).go} ELSE {}
  BY <1>1, <1>4, AppendLine
<1>6. \A A, B : /\ NoneAfter(A, B, stdin)
                /\ Line(kind, n).kind \in A => Tags(B, stdin) = {}
                => NoneAfter(A, B, Append(stdin, Line(kind, n)))
  BY <1>1, <1>4, AppendLine
<1> HIDE DEF Line
<1>7. ASSUME alive
      PROVE  /\ \A K : Tags(K, stdin') = Tags(K, stdin) \union IF kind \in K THEN {n} ELSE {}
             /\ \A A, B : NoneAfter(A, B, stdin) /\ (kind \in A => Tags(B, stdin) = {})
                              => NoneAfter(A, B, stdin')
  <2>1. stdin' = Append(stdin, Line(kind, n))
    BY <1>3, <1>7
  <2>2. \A K : Tags(K, stdin') = Tags(K, stdin) \union IF kind \in K THEN {n} ELSE {}
    BY <1>1, <1>5, <2>1
  <2> QED BY <1>1, <1>6, <2>1, <2>2
<1> QED BY <1>2, <1>7

\* What holds of the lines in flight goes on holding when some are read.
LEMMA ReadsKeep ==
    ASSUME TypeInv, Reads, UNCHANGED <<session, stdout, alive, engine, stdin>>
    PROVE  /\ InFlight' \subseteq InFlight
           /\ ReadyFirst => ReadyFirst'
           /\ ReadyLast => ReadyLast'
           /\ Last => Last'
<1>1. UNCHANGED <<session, stdout, alive, engine, stdin>>
  OBVIOUS
<1>2. InFlight' \subseteq InFlight
  BY <1>1, ReadsNarrow DEF InFlight, Written, Coming
<1>3. ReadyFirst => ReadyFirst'
  BY <1>1, ReadsNarrow DEF ReadyFirst, Written, NoneAfterRead
<1>4. ReadyLast => ReadyLast'
  BY <1>1, ReadsNarrow DEF ReadyLast, Written, NoneAfterRead
<1>5. Last => Last'
  BY <1>1, ReadsNarrow DEF Last, Written, NoneAfterRead
<1> QED BY <1>2, <1>3, <1>4, <1>5

-----------------------------------------------------------------------------
(* The steps of the client.                                                *)

\* The part of the invariant that is about the client alone.
LEMMA SameSession == UNCHANGED session => Sound' = Sound /\ Faults' = Faults
BY DEF Sound, Strict, Faults

\* Reading on, or giving up: nothing is written and no flag is touched.
LEMMA QuietStep ==
    ASSUME Inv, TypeInv', Up, Reads,
           UNCHANGED <<session, stdout, alive, engine, stdin, call, go, awaiting, completed, synced,
                       bornDead, log, best>>,
           seen \subseteq seen', pc' = pc \/ pc' = "idle",
           pc' = "idle" /\ bornDead => outcome' = "Io",
           Sound /\ pc \in {"search", "grace"} /\ pc' = "idle" => InFlight' = {},
           Scored /\ pc' \in {"search", "grace"} => Scored'
    PROVE  Inv'
<1>0. /\ TypeInv /\ LaunchInv /\ StageInv /\ PcInv /\ OrderInv /\ SyncedInv
      /\ OwnInv /\ LastInv /\ InfoInv /\ DeadInv /\ LogInv
  BY DEF Inv
<1>1. UNCHANGED <<session, stdout, alive, engine, stdin, call, go, awaiting, completed, synced,
                  bornDead, log, best>>
  OBVIOUS
<1>2. Up' /\ Sound' = Sound /\ Faults' = Faults
  BY SameSession DEF Up
<1>3. /\ InFlight' \subseteq InFlight
      /\ ReadyFirst => ReadyFirst'
      /\ ReadyLast => ReadyLast'
      /\ Last => Last'
  BY <1>0, ReadsKeep
<1>4. \A K : Tags2(K, rx', stdout') \subseteq Tags2(K, rx, stdout)
  BY <1>0, ReadsNarrow
<1>5. LaunchInv'
  BY DEF Up, LaunchInv
<1>6. StageInv'
  BY <1>0, <1>1, <1>2, <1>4 DEF StageInv, Written
<1>7. PcInv'
  BY <1>0, <1>1 DEF PcInv
<1>8. OrderInv'
  BY <1>0, <1>1, <1>2, <1>3 DEF OrderInv
<1>9. SyncedInv'
  BY <1>0, <1>1, <1>3 DEF SyncedInv
<1>10. OwnInv'
  BY <1>0, <1>1, <1>2, <1>3 DEF OwnInv
<1>11. LastInv'
  BY <1>0, <1>1, <1>2, <1>3 DEF LastInv
<1>12. InfoInv'
  BY <1>0, <1>1, <1>2, <1>4 DEF InfoInv, Written
<1>13. DeadInv'
  BY <1>0, <1>1 DEF DeadInv, Reads
<1>14. LogInv'
  BY <1>0, <1>1, <1>2 DEF LogInv
<1> QED BY <1>5, <1>6, <1>7, <1>8, <1>9, <1>10, <1>11, <1>12, <1>13, <1>14 DEF Inv

\* isready adds no search, and comes last.
LEMMA PutIsready ==
    ASSUME TypeInv, Put(Line("isready", 0)), UNCHANGED <<session, rx, stdout, alive, engine>>
    PROVE  /\ InFlight' = InFlight
           /\ ReadyLast => ReadyLast'
           /\ Last => Last'
<1>1. UNCHANGED <<rx, stdout, alive, engine>>
  OBVIOUS
<1>2. CASE ~alive
  BY <1>1, <1>2, CommandPut DEF Kinds, InFlight, Written, Coming, ReadyLast, Last, NoneAfterRead
<1>3. CASE alive
  <2>1. /\ Tags({"go"}, stdin') = Tags({"go"}, stdin)
        /\ \A B : NoneAfter({"go"}, B, stdin) => NoneAfter({"go"}, B, stdin')
    <3>1. /\ "isready" \in Kinds /\ "isready" \notin {"go"} /\ 0 \in Nat
      BY DEF Kinds
    <3>2. Tags({"go"}, stdin') = Tags({"go"}, stdin)
      BY <1>3, <3>1, CommandPut
    <3>3. ASSUME NEW B, NoneAfter({"go"}, B, stdin) PROVE NoneAfter({"go"}, B, stdin')
      BY <1>3, <3>1, <3>3, CommandPut, Zenon
    <3> QED BY <3>2, <3>3
  <2>2. InFlight' = InFlight
    BY <1>1, <2>1 DEF InFlight, Written, Coming
  <2>3. ReadyLast => ReadyLast'
    BY <1>1, <2>1 DEF ReadyLast, Written, NoneAfterRead
  <2>4. Last => Last'
    BY <1>1, <2>1 DEF Last, Written, NoneAfterRead
  <2> QED BY <2>2, <2>3, <2>4
<1> QED BY <1>2, <1>3

\* stop changes nothing in flight.
LEMMA PutStop ==
    ASSUME TypeInv, Put(Line("stop", 0)), UNCHANGED <<session, rx, stdout, alive, engine>>
    PROVE  /\ InFlight' = InFlight
           /\ Tags({"isready"}, stdin') = Tags({"isready"}, stdin)
           /\ ReadyFirst => ReadyFirst'
           /\ Last => Last'
<1>1. UNCHANGED <<rx, stdout, alive, engine>>
  OBVIOUS
<1>2. CASE ~alive
  BY <1>1, <1>2, CommandPut DEF Kinds, InFlight, Written, Coming, ReadyFirst, Last, NoneAfterRead
<1>3. CASE alive
  <2>1. /\ Tags({"go"}, stdin') = Tags({"go"}, stdin)
        /\ Tags({"isready"}, stdin') = Tags({"isready"}, stdin)
        /\ \A B : NoneAfter({"go"}, B, stdin) => NoneAfter({"go"}, B, stdin')
        /\ \A B : NoneAfter({"isready"}, B, stdin) => NoneAfter({"isready"}, B, stdin')
    <3>1. /\ "stop" \in Kinds /\ "stop" \notin {"go"} /\ "stop" \notin {"isready"} /\ 0 \in Nat
      BY DEF Kinds
    <3>2. /\ Tags({"go"}, stdin') = Tags({"go"}, stdin)
          /\ Tags({"isready"}, stdin') = Tags({"isready"}, stdin)
      BY <1>3, <3>1, CommandPut
    <3>3. ASSUME NEW B, NoneAfter({"go"}, B, stdin) PROVE NoneAfter({"go"}, B, stdin')
      BY <1>3, <3>1, <3>3, CommandPut, Zenon
    <3>4. ASSUME NEW B, NoneAfter({"isready"}, B, stdin) PROVE NoneAfter({"isready"}, B, stdin')
      BY <1>3, <3>1, <3>4, CommandPut, Zenon
    <3> QED BY <3>2, <3>3, <3>4
  <2>2. InFlight' = InFlight
    BY <1>1, <2>1 DEF InFlight, Written, Coming
  <2>3. ReadyFirst => ReadyFirst'
    BY <1>1, <2>1 DEF ReadyFirst, Written, NoneAfterRead
  <2>4. Last => Last'
    BY <1>1, <2>1 DEF Last, Written, NoneAfterRead
  <2> QED BY <2>1, <2>2, <2>3, <2>4
<1> QED BY <1>2, <1>3

\* Nothing in flight: the next go is alone.
LEMMA PutGo ==
    ASSUME TypeInv, NEW n \in Nat, Put(Line("go", n)),
           UNCHANGED <<session, rx, stdout, alive, engine>>
    PROVE  /\ InFlight' \subseteq InFlight \union {n}
           /\ Tags({"isready"}, stdin') = Tags({"isready"}, stdin)
           /\ ReadyFirst => ReadyFirst'
           /\ InFlight = {} => (Last => Last') /\ Scored'
<1>1. UNCHANGED <<rx, stdout, alive, engine>>
  OBVIOUS
<1>2. InFlight = {} => Tags2(SearchKinds, rx, stdout) = {}
  BY DEF InFlight, Written
<1>3. InFlight = {} => Tags2({"bestmove"}, rx, stdout) = {} /\ Led2(rx, stdout)
  <2>1. {"bestmove"} \subseteq SearchKinds
    BY DEF SearchKinds
  <2>2. InFlight = {} => Tags2({"bestmove"}, rx, stdout) = {}
    BY <1>2, <2>1, TagsMono
  <2>3. ASSUME Tags2({"bestmove"}, rx, stdout) = {} PROVE Led2(rx, stdout)
    BY <2>3 DEF Tags2, Tags, Led2, LedByInfo
  <2> QED BY <2>2, <2>3
<1>4. CASE ~alive
  <2>1. stdin' = stdin
    BY <1>4, CommandPut DEF Kinds
  <2> QED BY <1>1, <1>3, <1>4, <2>1 DEF InFlight, Written, Coming, ReadyFirst, Last, NoneAfterRead,
                                       Scored
<1>5. CASE alive
  <2>1. /\ Tags({"go"}, stdin') = Tags({"go"}, stdin) \union {n}
        /\ Tags({"isready"}, stdin') = Tags({"isready"}, stdin)
        /\ NoneAfter({"isready"}, {"go"}, stdin) => NoneAfter({"isready"}, {"go"}, stdin')
        /\ NoneAfter({"go"}, {"go"}, stdin) /\ Tags({"go"}, stdin) = {}
              => NoneAfter({"go"}, {"go"}, stdin')
    <3>1. /\ "go" \in Kinds /\ "go" \notin {"isready"}
      BY DEF Kinds
    <3>2. /\ Tags({"go"}, stdin') = Tags({"go"}, stdin) \union {n}
          /\ Tags({"isready"}, stdin') = Tags({"isready"}, stdin)
      BY <1>5, <3>1, CommandPut
    <3>3. NoneAfter({"isready"}, {"go"}, stdin) => NoneAfter({"isready"}, {"go"}, stdin')
      BY <1>5, <3>1, CommandPut
    <3>4. NoneAfter({"go"}, {"go"}, stdin) /\ Tags({"go"}, stdin) = {}
              => NoneAfter({"go"}, {"go"}, stdin')
      BY <1>5, <3>1, CommandPut
    <3> QED BY <3>2, <3>3, <3>4
  <2>2. InFlight' \subseteq InFlight \union {n}
    BY <1>1, <1>5, <2>1 DEF InFlight, Written, Coming
  <2>3. ReadyFirst => ReadyFirst'
    BY <1>1, <2>1 DEF ReadyFirst, Written, NoneAfterRead
  <2>4. ASSUME InFlight = {} PROVE engine.search = 0 /\ engine.dup = 0 /\ Tags({"go"}, stdin) = {}
    BY <1>5, <2>4 DEF InFlight, Coming
  <2>5. ASSUME InFlight = {} PROVE (Last => Last') /\ Scored'
    <3>1. Last => Last'
      BY <1>1, <1>3, <2>1, <2>4, <2>5 DEF Last, Written, NoneAfterRead
    <3>2. Scored'
      BY <1>1, <1>3, <2>4, <2>5 DEF Scored, Written
    <3> QED BY <3>1, <3>2
  <2> QED BY <2>1, <2>2, <2>3, <2>5
<1> QED BY <1>4, <1>5

LEMMA LaunchStep ==
    ASSUME Inv, TypeInv', Handshake, Reads, UNCHANGED <<session, stdout, alive, engine>>
    PROVE  Inv'
<1>0. TypeInv /\ LaunchInv /\ StageInv /\ PcInv /\ DeadInv /\ LogInv
  BY DEF Inv
<1>1. /\ UNCHANGED <<session, stdout, alive, engine>> /\ Sound' = Sound /\ Faults' = Faults
      /\ pc \in {"usi", "setup"} /\ UNCHANGED <<call, go, awaiting, completed, best, outcome>>
      /\ UNCHANGED <<log, synced, bornDead>>
      /\ pc' \in {"usi", "setup", "failed", "idle"}
  BY SameSession DEF Handshake, HandshakeUsi, HandshakeReady, HandshakeBestmove, HandshakeFails, flags
<1>2. \A K : Tags2(K, rx', stdout') \subseteq Tags2(K, rx, stdout)
  BY <1>0, ReadsNarrow
<1>3. \A A, B : NoneAfter2(A, B, rx, stdout) => NoneAfter2(A, B, rx', stdout')
  BY <1>0, ReadsNarrow
<1>4. PcInv' /\ SyncedInv' /\ DeadInv' /\ LogInv'
  <2>1. ~bornDead /\ ~synced /\ ~awaiting /\ ~completed
    BY <1>0, <1>1 DEF DeadInv, LaunchInv
  <2>2. PcInv'
    BY <1>1, <2>1 DEF PcInv
  <2>3. SyncedInv' /\ DeadInv'
    BY <1>1, <2>1 DEF SyncedInv, DeadInv
  <2>4. LogInv'
    BY <1>0, <1>1 DEF LogInv
  <2> QED BY <2>2, <2>3, <2>4
<1>5. ~Up' => StageInv' /\ OrderInv' /\ OwnInv' /\ LastInv' /\ InfoInv'
  BY DEF StageInv, OrderInv, OwnInv, LastInv, InfoInv
<1>6. CASE pc' = "failed"
  BY <1>4, <1>5, <1>6 DEF Inv, LaunchInv, Up
<1>7. CASE HandshakeUsi /\ pc' # "failed"
  <2>1. pc = "usi" /\ pc' = "setup" /\ Put(Line("isready", 0))
    BY <1>7 DEF HandshakeUsi
  <2>2. /\ Tags({"go"}, stdin') = {}
        /\ NoneAfter({"isready"}, {"isready"}, stdin')
        /\ engine.stage = "boot"
    <3>1. Tags({"go"}, stdin) = {} /\ Tags({"isready"}, stdin) = {} /\ engine.stage = "boot"
          /\ NoneAfter({"isready"}, {"isready"}, stdin)
      BY <1>0, <2>1 DEF LaunchInv
    <3>2. CASE alive
      BY <1>0, <2>1, <3>1, <3>2, CommandPut DEF Kinds
    <3>3. CASE ~alive
      BY <1>0, <2>1, <3>1, <3>3, CommandPut DEF Kinds
    <3> QED BY <3>1, <3>2, <3>3
  <2>3. LaunchInv'
    BY <1>0, <1>1, <1>2, <1>3, <2>1, <2>2 DEF LaunchInv, Written, NoneAfterRead
  <2> QED BY <1>4, <1>5, <2>1, <2>3 DEF Inv, Up
<1>8. CASE HandshakeBestmove
  <2>1. pc' = pc /\ stdin' = stdin
    BY <1>8 DEF HandshakeBestmove
  <2>2. LaunchInv'
    BY <1>0, <1>1, <1>2, <1>3, <2>1 DEF LaunchInv, Written, NoneAfterRead
  <2> QED BY <1>1, <1>4, <1>5, <2>1, <2>2 DEF Inv, Up
<1>9. CASE HandshakeReady /\ pc' # "failed"
  <2>1. /\ pc = "setup" /\ pc' = "idle" /\ stdin' = stdin
        /\ rx # <<>> /\ rx' = Tail(rx) /\ Head(rx).kind = "readyok"
    BY <1>9 DEF HandshakeReady, Recv
  <2>2. Tags2({"readyok"}, rx, stdout) # {}
    BY <1>0, <1>1, <2>1, LineTaken
  <2>3. /\ engine.stage = "ready" /\ engine.search = 0 /\ engine.dup = 0
        /\ Tags({"go"}, stdin) = {} /\ Tags({"isready"}, stdin) = {}
        /\ Tags2({"info", "bare"}, rx', stdout') = {}
    BY <1>0, <1>2, <2>1, <2>2 DEF LaunchInv, TypeInv, Written
  <2>4. Tags2({"readyok"}, rx', stdout') = {}
    BY <1>0, <1>1, <2>1, LineTaken DEF LaunchInv, NoneAfterRead
  <2>5. Sound => Tags2(SearchKinds, rx', stdout') = {}
    BY <1>0, <1>1, <2>1, LineTaken DEF LaunchInv, NoneAfterRead, Sound
  <2>6. /\ ~completed /\ ~awaiting /\ ~synced /\ go = 0 /\ best.kind = "none"
    BY <1>0, <2>1 DEF LaunchInv
  <2>7. LaunchInv' /\ Up'
    BY <2>1 DEF LaunchInv, Up
  <2>8. StageInv'
    BY <1>1, <2>1, <2>3, <2>4, <2>6 DEF StageInv, Written
  <2>9. OrderInv'
    <3>1. ReadyFirst'
      BY <1>1, <2>1, <2>3, <2>4, NoTags, NoTags2 DEF ReadyFirst, Written, NoneAfterRead
    <3> QED BY <1>1, <2>6, <3>1 DEF OrderInv
  <2>10. Sound => InFlight' = {}
    BY <1>1, <2>1, <2>3, <2>5 DEF InFlight, Written, Coming
  <2>11. OwnInv'
    BY <1>1, <2>1, <2>6, <2>10 DEF OwnInv
  <2>12. Sound => Tags2({"bare"}, rx', stdout') = {} /\ Tags2({"bestmove"}, rx', stdout') = {}
    <3>1. {"bare"} \subseteq SearchKinds /\ {"bestmove"} \subseteq SearchKinds
      BY DEF SearchKinds
    <3>2. Sound => Tags2({"bare"}, rx', stdout') = {}
      BY <2>5, <3>1, TagsMono
    <3>3. Sound => Tags2({"bestmove"}, rx', stdout') = {}
      BY <2>5, <3>1, TagsMono
    <3> QED BY <3>2, <3>3
  <2>13. LastInv'
    <3>1. Sound => Last'
      BY <1>1, <2>1, <2>3, <2>12, NoTags, NoTags2 DEF Last, Written, NoneAfterRead
    <3> QED BY <1>1, <3>1 DEF LastInv
  <2>14. InfoInv'
    BY <1>1, <2>1, <2>6, <2>12 DEF InfoInv, Written
  <2> QED BY <1>4, <2>7, <2>8, <2>9, <2>11, <2>13, <2>14 DEF Inv
<1> QED BY <1>6, <1>7, <1>8, <1>9 DEF Handshake, HandshakeFails

LEMMA ReportEarlyStep ==
    ASSUME Inv, TypeInv', ReportEarly, UNCHANGED <<session, stdout, alive, engine>>, seen \subseteq seen'
    PROVE  Inv'
<1>0. /\ TypeInv /\ LaunchInv /\ StageInv /\ PcInv /\ OrderInv /\ SyncedInv
      /\ OwnInv /\ LastInv /\ InfoInv /\ DeadInv /\ LogInv
  BY DEF Inv
<1>1. /\ UNCHANGED <<session, stdout, alive, engine, pc, go, awaiting, completed, best, stdin, rx,
                     log, synced>>
      /\ pc = "idle" /\ call' = call + 1 /\ ~bornDead' /\ Sound' = Sound /\ Faults' = Faults
  BY SameSession DEF ReportEarly
<1>2. call' # 0
  BY <1>0, <1>1 DEF TypeInv
<1>3. /\ InFlight' = InFlight /\ Up' = Up /\ ReadyFirst' = ReadyFirst /\ ReadyLast' = ReadyLast
      /\ Last' = Last
  BY <1>1 DEF InFlight, Written, Coming, Up, ReadyFirst, ReadyLast, Last, NoneAfterRead
<1>4. LaunchInv' /\ StageInv' /\ OrderInv'
  BY <1>0, <1>1, <1>3 DEF LaunchInv, StageInv, OrderInv, Written
<1>5. PcInv' /\ SyncedInv' /\ DeadInv'
  BY <1>0, <1>1, <1>2 DEF PcInv, SyncedInv, DeadInv
<1>6. OwnInv' /\ LastInv'
  BY <1>0, <1>1, <1>3 DEF OwnInv, LastInv
<1>7. InfoInv' /\ LogInv'
  BY <1>0, <1>1, <1>3 DEF InfoInv, LogInv, Written
<1> QED BY <1>4, <1>5, <1>6, <1>7 DEF Inv

LEMMA AnalyseStep ==
    ASSUME Inv, TypeInv', Analyse, UNCHANGED <<session, stdout, alive, engine>>, seen \subseteq seen'
    PROVE  Inv'
<1>0. /\ TypeInv /\ LaunchInv /\ StageInv /\ PcInv /\ OrderInv /\ SyncedInv
      /\ OwnInv /\ LastInv /\ InfoInv /\ DeadInv /\ LogInv
  BY DEF Inv
<1>1. /\ UNCHANGED <<session, stdout, alive, engine, go, awaiting, completed, best, rx, log>>
      /\ pc = "idle" /\ call' = call + 1 /\ bornDead' = Disconnected /\ synced' = completed
      /\ Sound' = Sound /\ Faults' = Faults
  BY SameSession DEF Analyse, flags
<1>2. \/ Strict /\ awaiting /\ pc' = "late" /\ UNCHANGED stdin
      \/ ~(Strict /\ awaiting) /\ completed /\ pc' = "barrier" /\ Put(Line("isready", 0))
      \/ ~(Strict /\ awaiting) /\ completed /\ pc' = "idle" /\ outcome' = "Io" /\ UNCHANGED stdin
      \/ ~(Strict /\ awaiting) /\ ~completed /\ pc' = "drain" /\ UNCHANGED stdin
  BY DEF Analyse
<1>3. call' # 0
  BY <1>0, <1>1 DEF TypeInv
<1>4. Up /\ Up'
  BY <1>1, <1>2 DEF Up
<1>5. /\ InFlight' = InFlight
      /\ ReadyLast => ReadyLast'
      /\ Last => Last'
  <2>1. CASE UNCHANGED stdin
    BY <1>1, <2>1 DEF InFlight, Written, Coming, ReadyLast, Last, NoneAfterRead
  <2>2. CASE Put(Line("isready", 0))
    BY <1>0, <1>1, <2>2, PutIsready
  <2> QED BY <1>2, <2>1, <2>2
<1>6. ~completed => ReadyFirst' = ReadyFirst
  BY <1>1, <1>2 DEF ReadyFirst, Written, NoneAfterRead
<1>7. LaunchInv'
  BY <1>4 DEF LaunchInv, Up
<1>8. StageInv'
  BY <1>0, <1>1, <1>2, <1>4 DEF StageInv, Written
<1>9. PcInv'
  BY <1>0, <1>1, <1>2, <1>3 DEF PcInv
<1>10. OrderInv'
  BY <1>0, <1>1, <1>4, <1>5, <1>6 DEF OrderInv
<1>11. SyncedInv'
  BY <1>1, <1>2 DEF SyncedInv
<1>12. OwnInv'
  BY <1>0, <1>1, <1>2, <1>4, <1>5 DEF OwnInv, Sound
<1>13. LastInv'
  BY <1>0, <1>1, <1>4, <1>5 DEF LastInv
<1>14. InfoInv'
  BY <1>0, <1>1, <1>2, <1>4 DEF InfoInv, Written
<1>15. DeadInv'
  <2>1. bornDead' => Disconnected
    BY <1>1
  <2>2. bornDead' => ~alive' /\ stdout' = <<>> /\ rx' = <<>>
    BY <1>1, <2>1 DEF Disconnected
  <2>3. pc' \in {"idle", "late", "barrier", "drain", "search"} /\ (pc' = "idle" => outcome' = "Io")
    BY <1>2
  <2> QED BY <2>2, <2>3 DEF DeadInv
<1>16. LogInv'
  BY <1>0, <1>1 DEF LogInv
<1> QED BY <1>7, <1>8, <1>9, <1>10, <1>11, <1>12, <1>13, <1>14, <1>15, <1>16 DEF Inv

LEMMA BarrierDoneStep ==
    ASSUME Inv, TypeInv', BarrierDone, Reads, UNCHANGED <<session, stdout, alive, engine>>,
           seen \subseteq seen'
    PROVE  Inv'
<1>0. /\ TypeInv /\ LaunchInv /\ StageInv /\ PcInv /\ OrderInv /\ SyncedInv
      /\ OwnInv /\ LastInv /\ InfoInv /\ DeadInv /\ LogInv
  BY DEF Inv
<1>1. /\ UNCHANGED <<session, stdout, alive, engine, stdin, call, go, awaiting, best, log, synced,
                     bornDead>>
      /\ pc = "barrier" /\ pc' = "drain" /\ completed' = FALSE
      /\ rx # <<>> /\ rx' = Tail(rx) /\ Head(rx).kind = "readyok"
      /\ Sound' = Sound /\ Faults' = Faults
  BY SameSession DEF BarrierDone, Recv
<1>2. Up /\ Up' /\ completed
  BY <1>0, <1>1 DEF Up, PcInv
<1>3. /\ NoneAfter2(SearchKinds, {"readyok"}, rx, stdout)
      /\ engine.search = 0 /\ engine.dup = 0 /\ Tags({"go"}, stdin) = {}
  <2>1. Tags2({"readyok"}, rx, stdout) # {}
    BY <1>0, <1>1, LineTaken
  <2> QED BY <1>0, <1>2, <2>1 DEF OrderInv, ReadyLast, NoneAfterRead, Written
<1>4. Tags2(SearchKinds, rx', stdout') = {}
  BY <1>0, <1>1, <1>3, LineTaken
<1>5. InFlight' = {}
  BY <1>1, <1>3, <1>4 DEF InFlight, Written, Coming
<1>6. ReadyFirst'
  BY <1>1, <1>3, <1>4, NoTags, NoTags2 DEF ReadyFirst, Written, NoneAfterRead
<1>7. /\ \A K : Tags2(K, rx', stdout') \subseteq Tags2(K, rx, stdout)
      /\ Last => Last'
  BY <1>0, <1>1, ReadsNarrow, ReadsKeep
<1>8. LaunchInv'
  BY <1>1 DEF LaunchInv
<1>9. StageInv'
  BY <1>0, <1>1, <1>2, <1>7 DEF StageInv, Written
<1>10. PcInv'
  BY <1>0, <1>1 DEF PcInv
<1>11. OrderInv'
  BY <1>1, <1>6 DEF OrderInv
<1>12. SyncedInv'
  BY <1>1, <1>5 DEF SyncedInv
<1>13. OwnInv'
  BY <1>0, <1>1, <1>2, <1>5 DEF OwnInv
<1>14. LastInv'
  BY <1>0, <1>1, <1>2, <1>7 DEF LastInv
<1>15. InfoInv'
  BY <1>0, <1>1, <1>2, <1>7 DEF InfoInv, Written
<1>16. DeadInv'
  BY <1>0, <1>1 DEF DeadInv
<1>17. LogInv'
  BY <1>0, <1>1 DEF LogInv
<1> QED BY <1>8, <1>9, <1>10, <1>11, <1>12, <1>13, <1>14, <1>15, <1>16, <1>17 DEF Inv

LEMMA SendGoStep ==
    ASSUME Inv, TypeInv', SendGo, UNCHANGED <<session, stdout, alive, engine>>, seen \subseteq seen'
    PROVE  Inv'
<1>0. /\ TypeInv /\ LaunchInv /\ StageInv /\ PcInv /\ OrderInv /\ SyncedInv
      /\ OwnInv /\ LastInv /\ InfoInv /\ DeadInv /\ LogInv
  BY DEF Inv
<1>1. /\ UNCHANGED <<session, stdout, rx, alive, engine, call, completed, log, synced, bornDead>>
      /\ pc = "drain" /\ Sound' = Sound /\ Faults' = Faults
  BY SameSession DEF SendGo
<1>2. /\ Up /\ ~completed /\ call # 0
      /\ Sound => ~awaiting /\ InFlight = {}
  BY <1>0, <1>1 DEF Up, PcInv, OwnInv
<1>3. CASE /\ pc' = "idle" /\ outcome' = "Io" /\ UNCHANGED <<go, awaiting, best, stdin>>
  <2>1. Reads
    BY <1>1 DEF Reads
  <2> QED BY <1>1, <1>2, <1>3, <2>1, QuietStep
<1>4. CASE /\ Put(Line("go", call)) /\ pc' = "search" /\ go' = call /\ awaiting' = FALSE
           /\ best' = NoInfo
  <2>1. call \in Nat
    BY <1>0 DEF TypeInv
  <2>2. /\ InFlight' \subseteq InFlight \union {call}
        /\ Tags({"isready"}, stdin') = Tags({"isready"}, stdin)
        /\ ReadyFirst => ReadyFirst'
        /\ InFlight = {} => (Last => Last') /\ Scored'
    BY <1>0, <1>1, <1>4, <2>1, PutGo
  <2>3. Up' /\ best'.kind = "none"
    BY <1>4 DEF Up, NoInfo, Line
  <2>4. LaunchInv'
    BY <1>4 DEF LaunchInv
  <2>5. StageInv'
    BY <1>0, <1>1, <1>2, <2>2, <2>3 DEF StageInv, Written
  <2>6. PcInv'
    BY <1>1, <1>2, <1>4 DEF PcInv
  <2>7. OrderInv'
    BY <1>0, <1>1, <1>2, <2>2 DEF OrderInv
  <2>8. SyncedInv'
    BY <1>0, <1>1, <1>4, <2>2, <2>3 DEF SyncedInv
  <2>9. OwnInv'
    <3>1. Sound => InFlight' \subseteq {go'} \ {0}
      BY <1>2, <1>4, <2>2
    <3> QED BY <1>1, <1>2, <1>4, <2>3, <3>1 DEF OwnInv
  <2>10. LastInv'
    BY <1>0, <1>1, <1>2, <2>2 DEF LastInv
  <2>11. InfoInv'
    BY <1>0, <1>1, <1>2, <2>2, <2>3 DEF InfoInv, Written
  <2>12. DeadInv'
    BY <1>0, <1>1, <1>4 DEF DeadInv
  <2>13. LogInv'
    BY <1>0, <1>1 DEF LogInv
  <2> QED BY <2>4, <2>5, <2>6, <2>7, <2>8, <2>9, <2>10, <2>11, <2>12, <2>13 DEF Inv
<1> QED BY <1>3, <1>4 DEF SendGo

LEMMA StopStep ==
    ASSUME Inv, TypeInv', StopSearch, UNCHANGED <<session, stdout, alive, engine>>, seen \subseteq seen'
    PROVE  Inv'
<1>0. /\ TypeInv /\ LaunchInv /\ StageInv /\ PcInv /\ OrderInv /\ SyncedInv
      /\ OwnInv /\ LastInv /\ InfoInv /\ DeadInv /\ LogInv
  BY DEF Inv
<1>1. /\ UNCHANGED <<session, stdout, rx, alive, engine, call, go, awaiting, completed, best, log,
                     synced, bornDead>>
      /\ pc = "search" /\ pc' = "grace" /\ ~Disconnected /\ Put(Line("stop", 0))
      /\ rx = <<>> /\ Sound' = Sound /\ Faults' = Faults
  BY SameSession DEF StopSearch, RecvTimeout, flags
<1>2. Up /\ Up' /\ ~completed
  BY <1>0, <1>1 DEF Up, PcInv
<1>3. /\ InFlight' = InFlight
      /\ Tags({"isready"}, stdin') = Tags({"isready"}, stdin)
      /\ ReadyFirst => ReadyFirst'
      /\ Last => Last'
  BY <1>0, <1>1, PutStop
<1>4. LaunchInv' /\ PcInv' /\ LogInv'
  BY <1>0, <1>1 DEF LaunchInv, PcInv, LogInv
<1>5. StageInv'
  BY <1>0, <1>1, <1>2, <1>3 DEF StageInv, Written
<1>6. OrderInv'
  BY <1>0, <1>1, <1>2, <1>3 DEF OrderInv
<1>7. SyncedInv'
  BY <1>0, <1>1, <1>3 DEF SyncedInv
<1>8. OwnInv'
  BY <1>0, <1>1, <1>2, <1>3 DEF OwnInv
<1>9. LastInv'
  BY <1>0, <1>1, <1>2, <1>3 DEF LastInv
<1>10. InfoInv'
  BY <1>0, <1>1, <1>2 DEF InfoInv, Written, Scored
<1>11. DeadInv'
  BY <1>0, <1>1 DEF DeadInv, Disconnected
<1> QED BY <1>4, <1>5, <1>6, <1>7, <1>8, <1>9, <1>10, <1>11 DEF Inv

\* An info line of the running search, or of an earlier one, replaces what was known.
LEMMA InfoStep ==
    ASSUME Inv, TypeInv', TakeInfo, Reads, UNCHANGED <<session, stdout, alive, engine>>,
           seen \subseteq seen'
    PROVE  Inv'
<1>0. /\ TypeInv /\ LaunchInv /\ StageInv /\ PcInv /\ OrderInv /\ SyncedInv
      /\ OwnInv /\ LastInv /\ InfoInv /\ DeadInv /\ LogInv
  BY DEF Inv
<1>1. /\ UNCHANGED <<session, stdout, stdin, alive, engine, pc, call, go, awaiting, completed, log,
                     synced, bornDead, outcome>>
      /\ pc \in {"search", "grace"} /\ rx # <<>> /\ rx' = Tail(rx)
      /\ Head(rx).kind \in {"info", "bare"} /\ best' = Head(rx)
      /\ Sound' = Sound /\ Faults' = Faults
  BY SameSession DEF TakeInfo, Recv, flags
<1>2. Up /\ Up'
  BY <1>1 DEF Up
<1>3. /\ InFlight' \subseteq InFlight
      /\ ReadyFirst => ReadyFirst'
      /\ ReadyLast => ReadyLast'
      /\ Last => Last'
  BY <1>0, <1>1, ReadsKeep
<1>4. \A K : Tags2(K, rx', stdout') \subseteq Tags2(K, rx, stdout)
  BY <1>0, <1>1, ReadsNarrow
<1>5. \A K : Head(rx).kind \in K => Head(rx).go \in Tags2(K, rx, stdout)
  BY <1>0, <1>1, LineTaken
<1>6. Head(rx).go \in InFlight
  BY <1>1, <1>5 DEF InFlight, Written, SearchKinds
<1>7. LaunchInv' /\ PcInv' /\ LogInv'
  BY <1>0, <1>1 DEF LaunchInv, PcInv, LogInv
<1>8. StageInv'
  <2>1. engine.stage = "playing"
    <3>1. Tags2({"info", "bare"}, rx, stdout) # {}
      BY <1>1, <1>5
    <3> QED BY <1>0, <1>2, <3>1 DEF StageInv, Written
  <2> QED BY <1>1, <2>1 DEF StageInv
<1>9. OrderInv'
  BY <1>0, <1>1, <1>2, <1>3 DEF OrderInv
<1>10. SyncedInv'
  BY <1>0, <1>1, <1>3, <1>6 DEF SyncedInv
<1>11. OwnInv'
  <2>1. Sound => best'.go = call /\ go = call
    BY <1>0, <1>1, <1>2, <1>6 DEF OwnInv, PcInv
  <2> QED BY <1>0, <1>1, <1>2, <1>3, <2>1 DEF OwnInv
<1>12. LastInv'
  BY <1>0, <1>1, <1>2, <1>3 DEF LastInv
<1>13. InfoInv'
  <2>1. Sound /\ "noinfo" \notin Faults => Tags2({"bare"}, rx, stdout) = {}
    BY <1>0, <1>2 DEF InfoInv, Written
  <2>2. Sound /\ "noinfo" \notin Faults => Head(rx).kind = "info" /\ Tags2({"bare"}, rx', stdout') = {}
    <3>1. Head(rx).kind = "bare" => Tags2({"bare"}, rx, stdout) # {}
      BY <1>5
    <3> QED BY <1>1, <1>4, <2>1, <3>1
  <2> QED BY <1>1, <2>2 DEF InfoInv, Written
<1>14. DeadInv'
  BY <1>0, <1>1 DEF DeadInv
<1> QED BY <1>7, <1>8, <1>9, <1>10, <1>11, <1>12, <1>13, <1>14 DEF Inv

\* A result made of the lines of its own search may be returned.
LEMMA LogKept ==
    ASSUME TypeInv, LogInv, UNCHANGED session, NEW tag \in Nat, NEW salvaged \in BOOLEAN,
           log' = Append(log, Result(tag, salvaged)),
           Sound \/ synced => tag = call /\ best.go = call
    PROVE  LogInv'
<1>1. log \in Seq(Results) /\ Result(tag, salvaged) \in Results
  BY LogType DEF TypeInv, LogTyped
<1>2. /\ Len(log') = Len(log) + 1 /\ Len(log) \in Nat
      /\ \A i \in 1..Len(log) : log'[i] = log[i]
      /\ log'[Len(log) + 1] = Result(tag, salvaged)
  BY <1>1
<1>3. Sound' = Sound
  BY SameSession
<1>4. Sound \/ log'[Len(log) + 1].synced
         => /\ log'[Len(log) + 1].best = log'[Len(log) + 1].go
            /\ log'[Len(log) + 1].score = log'[Len(log) + 1].go
  BY <1>2 DEF Result
<1> SUFFICES ASSUME NEW i \in 1..Len(log'), Sound \/ log'[i].synced
             PROVE  log'[i].best = log'[i].go /\ log'[i].score = log'[i].go
  BY <1>3 DEF LogInv
<1>5. CASE i \in 1..Len(log)
  BY <1>2, <1>5 DEF LogInv
<1>6. CASE i = Len(log) + 1
  BY <1>4, <1>6
<1> QED BY <1>2, <1>5, <1>6

LEMMA BestmoveStep ==
    ASSUME Inv, TypeInv', TakeBestmove, Reads, UNCHANGED <<session, stdout, alive, engine>>,
           Received, seen \subseteq seen'
    PROVE  Inv'
<1>0. /\ TypeInv /\ LaunchInv /\ StageInv /\ PcInv /\ OrderInv /\ SyncedInv
      /\ OwnInv /\ LastInv /\ InfoInv /\ DeadInv /\ LogInv
  BY DEF Inv
<1>1. /\ UNCHANGED <<session, stdout, stdin, alive, engine, call, go, best, synced, bornDead>>
      /\ pc \in {"search", "grace"} /\ pc' = "idle" /\ rx # <<>> /\ rx' = Tail(rx)
      /\ Head(rx).kind = "bestmove" /\ Sound' = Sound /\ Faults' = Faults
  BY SameSession DEF TakeBestmove, Recv, flags, Return, Fail
<1>2. Up /\ Up' /\ ~bornDead
  BY <1>0, <1>1 DEF Up, DeadInv
<1>3. \A A, B : NoneAfter2(A, B, rx, stdout) /\ Head(rx).kind \in B => Tags2(A, rx', stdout') = {}
  BY <1>0, <1>1, LineTaken
<1>x. \/ /\ UNCHANGED <<awaiting, completed, log>>
         /\ best.kind # "info" \/ "malformed" \in Faults
      \/ /\ best.kind = "info" /\ completed' = TRUE /\ awaiting' = awaiting
         /\ log' = Append(log, Result(Head(rx).go, FALSE))
  BY DEF TakeBestmove, HasMove, Fail, Return, flags
<1>4. CASE /\ UNCHANGED <<awaiting, completed, log>>
           /\ best.kind # "info" \/ "malformed" \in Faults
  <2>1. UNCHANGED <<awaiting, completed, log>>
    BY <1>4
  <2>2. ASSUME Sound PROVE InFlight' = {}
    <3>1. CASE "duplicate" \notin Faults
      <4>1. Last
        BY <1>0, <1>2, <2>2, <3>1 DEF LastInv
      <4>2. Tags2({"bestmove"}, rx, stdout) # {}
        BY <1>0, <1>1, LineTaken
      <4>3. Tags2(SearchKinds, rx', stdout') = {}
        BY <1>1, <1>3, <4>1 DEF Last, NoneAfterRead
      <4>4. engine.search = 0 /\ engine.dup = 0 /\ Tags({"go"}, stdin) = {}
        BY <4>1, <4>2 DEF Last, Written
      <4> QED BY <1>1, <4>3, <4>4 DEF InFlight, Written, Coming
    <3>2. CASE "noinfo" \notin Faults /\ "malformed" \notin Faults
      <4>1. LedByInfo(rx)
        BY <1>0, <1>1, <1>2, <1>4, <2>2, <3>2 DEF InfoInv, Scored, Led2
      <4> QED BY <1>0, <1>1, <4>1, LedTail DEF TypeInv
    <3> QED BY <2>2, <3>1, <3>2 DEF Sound
  <2> QED BY <1>1, <1>2, <2>1, <2>2, QuietStep
<1>5. CASE /\ best.kind = "info" /\ completed' = TRUE /\ awaiting' = awaiting
           /\ log' = Append(log, Result(Head(rx).go, FALSE))
  <2>1. /\ completed' = TRUE /\ awaiting' = awaiting
        /\ log' = Append(log, Result(Head(rx).go, FALSE))
    BY <1>5
  <2>2. Head(rx).go \in InFlight
    <3>1. Head(rx).go \in Tags2(SearchKinds, rx, stdout)
      BY <1>0, <1>1, LineTaken DEF SearchKinds
    <3> QED BY <3>1 DEF InFlight, Written
  <2>3. Tags2({"readyok"}, rx', stdout') = {} /\ Tags({"isready"}, stdin) = {}
    <3>1. ReadyFirst
      BY <1>0, <1>1, <1>2 DEF OrderInv, PcInv
    <3>2. Tags2(SearchKinds, rx, stdout) # {}
      BY <1>0, <1>1, LineTaken DEF SearchKinds
    <3>3. Tags2({"readyok"}, rx', stdout') = {}
      BY <1>1, <1>3, <3>1 DEF ReadyFirst, NoneAfterRead, SearchKinds
    <3> QED BY <3>1, <3>2, <3>3 DEF ReadyFirst, Written
  <2>4. ReadyLast'
    BY <1>1, <2>3, NoTags, NoTags2 DEF ReadyLast, Written, NoneAfterRead
  <2>5. /\ InFlight' \subseteq InFlight
        /\ Last => Last'
    BY <1>0, <1>1, ReadsKeep
  <2>6. \A K : Tags2(K, rx', stdout') \subseteq Tags2(K, rx, stdout)
    BY <1>0, <1>1, ReadsNarrow
  <2>7. engine.stage = "playing"
    BY <1>0, <1>2, <1>5 DEF StageInv
  <2>8. LaunchInv' /\ PcInv' /\ SyncedInv'
    BY <1>0, <1>1 DEF LaunchInv, PcInv, SyncedInv
  <2>9. StageInv'
    BY <1>1, <2>7 DEF StageInv
  <2>10. OrderInv'
    BY <2>1, <2>4 DEF OrderInv
  <2>11. OwnInv'
    <3>1. Sound => Head(rx).go = go
      BY <1>0, <1>2, <2>2 DEF OwnInv
    <3>2. Head(rx).go \in seen'
      BY <1>1 DEF Received
    <3>3. Sound => InFlight' \subseteq {go'} \ {0}
      BY <1>0, <1>1, <1>2, <2>5 DEF OwnInv
    <3> QED BY <1>0, <1>1, <1>2, <2>1, <3>1, <3>2, <3>3 DEF OwnInv
  <2>12. LastInv'
    BY <1>0, <1>1, <1>2, <2>5 DEF LastInv
  <2>13. InfoInv'
    BY <1>0, <1>1, <1>2, <2>6 DEF InfoInv, Written
  <2>14. DeadInv'
    BY <1>1, <1>2 DEF DeadInv
  <2>15. LogInv'
    <3>1. Sound \/ synced => Head(rx).go = call /\ best.go = call
      <4>1. Sound => Head(rx).go = call /\ best.go = call
        BY <1>0, <1>1, <1>2, <1>5, <2>2 DEF OwnInv, PcInv
      <4>2. synced => Head(rx).go = call /\ best.go = call
        BY <1>0, <1>1, <1>5, <2>2 DEF SyncedInv
      <4> QED BY <4>1, <4>2
    <3>2. Head(rx).go \in Nat
      <4>1. Head(rx) \in Lines
        BY <1>0, <1>1 DEF TypeInv
      <4> QED BY <4>1 DEF Lines
    <3> QED BY <1>0, <1>1, <2>1, <3>1, <3>2, LogKept
  <2> QED BY <2>8, <2>9, <2>10, <2>11, <2>12, <2>13, <2>14, <2>15 DEF Inv
<1> QED BY <1>x, <1>4, <1>5

LEMMA SalvageStep ==
    ASSUME Inv, TypeInv', Salvage, UNCHANGED <<session, stdout, alive, engine>>, seen \subseteq seen'
    PROVE  Inv'
<1>0. /\ TypeInv /\ LaunchInv /\ StageInv /\ PcInv /\ OrderInv /\ SyncedInv
      /\ OwnInv /\ LastInv /\ InfoInv /\ DeadInv /\ LogInv
  BY DEF Inv
<1>1. /\ UNCHANGED <<session, stdout, rx, stdin, alive, engine, call, go, completed, best, synced,
                     bornDead>>
      /\ pc = "grace" /\ pc' = "idle" /\ awaiting' = TRUE
      /\ Sound' = Sound /\ Faults' = Faults
  BY SameSession DEF Salvage, RecvTimeout, RecvIo, Return, Fail
<1>2. Up /\ Up' /\ ~bornDead /\ ~completed
  BY <1>0, <1>1 DEF Up, DeadInv, PcInv
<1>3. /\ InFlight' = InFlight /\ ReadyFirst' = ReadyFirst /\ Last' = Last
  BY <1>1 DEF InFlight, Written, Coming, ReadyFirst, Last, NoneAfterRead
<1>4. LaunchInv' /\ PcInv' /\ SyncedInv' /\ DeadInv'
  BY <1>0, <1>1, <1>2 DEF LaunchInv, PcInv, SyncedInv, DeadInv
<1>5. StageInv' /\ OrderInv'
  BY <1>0, <1>1, <1>2, <1>3 DEF StageInv, OrderInv, Written
<1>6. OwnInv'
  BY <1>0, <1>1, <1>2, <1>3 DEF OwnInv
<1>7. LastInv' /\ InfoInv'
  BY <1>0, <1>1, <1>2, <1>3 DEF LastInv, InfoInv, Written
<1>8. LogInv'
  <2>1. CASE UNCHANGED log
    BY <1>0, <1>1, <2>1 DEF LogInv
  <2>2. CASE best.kind = "info" /\ log' = Append(log, Result(best.go, TRUE))
    <3>1. Sound \/ synced => best.go = call
      BY <1>0, <1>1, <1>2, <2>2 DEF OwnInv, SyncedInv
    <3>2. best.go \in Nat
      BY <1>0 DEF TypeInv
    <3> QED BY <1>0, <1>1, <2>2, <3>1, <3>2, LogKept
  <2> QED BY <2>1, <2>2 DEF Salvage, Return, Fail
<1> QED BY <1>4, <1>5, <1>6, <1>7, <1>8 DEF Inv

\* The waits that read on or give up.
LEMMA WaitStep ==
    ASSUME Inv, TypeInv', WaitLate \/ WaitBarrier \/ Drain \/ TakeOther \/ SearchDies, Reads,
           UNCHANGED <<session, stdout, alive, engine>>, seen \subseteq seen'
    PROVE  Inv'
<1>0. /\ TypeInv /\ LaunchInv /\ StageInv /\ PcInv /\ OrderInv /\ SyncedInv
      /\ OwnInv /\ LastInv /\ InfoInv /\ DeadInv /\ LogInv
  BY DEF Inv
<1>1. /\ UNCHANGED <<session, stdout, stdin, alive, engine, call, go, awaiting, completed, best,
                     log, synced, bornDead>>
      /\ pc \in {"late", "barrier", "drain", "search", "grace"} /\ pc' \in {pc, "idle"}
  BY DEF WaitLate, WaitBarrier, Drain, TakeOther, SearchDies, Skip, Fail, flags
<1>2. Up
  BY <1>1 DEF Up
<1>3. bornDead /\ pc' = "idle" => outcome' = "Io"
  <2>1. bornDead => rx = <<>> /\ Disconnected
    BY <1>0 DEF DeadInv, Disconnected
  <2>2. pc' = "idle" => rx # <<>> \/ ~Disconnected \/ outcome' = "Io"
    BY <1>1 DEF WaitLate, WaitBarrier, Drain, TakeOther, SearchDies, Recv, RecvOther, RecvTimeout,
                Skip, Fail
  <2> QED BY <2>1, <2>2
<1>4. pc \in {"search", "grace"} /\ pc' = "idle" => InFlight' = {}
  <2>1. pc \in {"search", "grace"} /\ pc' = "idle" => ~alive /\ stdout = <<>> /\ rx = <<>> /\ rx' = rx
    BY DEF WaitLate, WaitBarrier, Drain, TakeOther, SearchDies, Skip, RecvIo, Disconnected
  <2>2. Tags2(SearchKinds, <<>>, <<>>) = {}
    BY EmptyQueue DEF Tags2
  <2> QED BY <1>1, <2>1, <2>2 DEF InFlight, Written, Coming
<1>5. ASSUME Scored, pc' \in {"search", "grace"} PROVE Scored'
  <2>1. /\ rx # <<>> /\ rx' = Tail(rx) /\ Head(rx).kind \notin {"info", "bestmove"}
    BY <1>5 DEF WaitLate, WaitBarrier, Drain, TakeOther, SearchDies, RecvOther, Skip, Fail
  <2>2. rx \in Seq(Lines)
    BY <1>0 DEF TypeInv
  <2>3. Tags({"info"}, rx) = Tags({"info"}, rx')
    <3>1. Head(rx).kind \notin {"info"}
      BY <2>1
    <3>2. Tags({"info"}, rx) = Tags({"info"}, Tail(rx))
                                  \union IF Head(rx).kind \in {"info"} THEN {Head(rx).go} ELSE {}
      BY <2>1, <2>2, TailLine
    <3> QED BY <2>1, <3>1, <3>2
  <2>4. LedByInfo(rx')
    BY <1>5, <2>1, <2>2, LedTail DEF Scored, Led2
  <2> QED BY <1>1, <1>5, <2>3, <2>4 DEF Scored, Led2, Written, Tags2
<1>6. pc' = pc \/ pc' = "idle"
  BY <1>1
<1> QED BY <1>1, <1>2, <1>3, <1>4, <1>5, <1>6, QuietStep

LEMMA ClientKeeps == ASSUME Inv, ClientStep PROVE Inv'
<1>1. TypeInv /\ UNCHANGED <<session, stdout, alive, engine>> /\ Received
  BY DEF Inv, ClientStep
<1>2. TypeInv'
  BY <1>1, ClientType
<1>3. seen \subseteq seen'
  BY <1>1 DEF Received
<1>4. Reads
  BY <1>1, ClientReads DEF ClientStep
<1>5. CASE ReportEarly
  BY <1>1, <1>2, <1>3, <1>5, ReportEarlyStep
<1>6. CASE Analyse
  BY <1>1, <1>2, <1>3, <1>6, AnalyseStep
<1>7. CASE Handshake
  BY <1>1, <1>2, <1>4, <1>7, LaunchStep
<1>8. CASE BarrierDone
  BY <1>1, <1>2, <1>3, <1>4, <1>8, BarrierDoneStep
<1>9. CASE SendGo
  BY <1>1, <1>2, <1>3, <1>9, SendGoStep
<1>10. CASE TakeInfo
  BY <1>1, <1>2, <1>3, <1>4, <1>10, InfoStep
<1>11. CASE TakeBestmove
  BY <1>1, <1>2, <1>3, <1>4, <1>11, BestmoveStep
<1>12. CASE StopSearch
  BY <1>1, <1>2, <1>3, <1>12, StopStep
<1>13. CASE Salvage
  BY <1>1, <1>2, <1>3, <1>13, SalvageStep
<1>14. CASE WaitLate \/ WaitBarrier \/ Drain \/ TakeOther \/ SearchDies
  BY <1>1, <1>2, <1>3, <1>4, <1>14, WaitStep
<1> QED BY <1>5, <1>6, <1>7, <1>8, <1>9, <1>10, <1>11, <1>12, <1>13, <1>14 DEF ClientStep, Work


-----------------------------------------------------------------------------
(* The steps of the engine and of the forwarding thread.                   *)

\* The parts of the invariant that an engine's step can disturb: the rest is about
\* the client alone.
LEMMA EngineRest ==
    ASSUME Inv, UNCHANGED <<session, client, alive, ghosts>>, alive,
           InFlight' \subseteq InFlight \/ ~Up \/ (~Sound /\ ~synced)
    PROVE  PcInv' /\ SyncedInv' /\ OwnInv' /\ DeadInv' /\ LogInv'
<1>0. /\ TypeInv /\ PcInv /\ SyncedInv /\ OwnInv /\ DeadInv /\ LogInv
  BY DEF Inv
<1>1. /\ UNCHANGED <<session, pc, call, go, awaiting, completed, best, outcome, alive, log, synced,
                     bornDead, seen>>
      /\ Sound' = Sound /\ Up' = Up
  BY SameSession DEF client, flags, ghosts, Up
<1>2. PcInv' /\ LogInv'
  BY <1>0, <1>1 DEF PcInv, LogInv
<1>3. SyncedInv'
  BY <1>0, <1>1 DEF SyncedInv, Up
<1>4. OwnInv'
  BY <1>0, <1>1 DEF OwnInv
<1>5. DeadInv'
  BY <1>0, <1>1 DEF DeadInv
<1> QED BY <1>2, <1>3, <1>4, <1>5

LEMMA ExitKeeps == ASSUME Inv, EngineExits PROVE Inv'
<1>0. /\ TypeInv /\ LaunchInv /\ StageInv /\ PcInv /\ OrderInv /\ SyncedInv
      /\ OwnInv /\ LastInv /\ InfoInv /\ DeadInv /\ LogInv
  BY DEF Inv
<1>1. /\ UNCHANGED <<session, pc, call, go, awaiting, completed, best, outcome, log, synced,
                     bornDead, seen, stdin, stdout, rx, engine>>
      /\ Sound' = Sound /\ Faults' = Faults /\ Up' = Up /\ alive /\ ~alive'
  BY SameSession DEF EngineExits, client, flags, pipes, ghosts, Up
<1>2. TypeInv'
  BY <1>0, EngineType
<1>3. InFlight' \subseteq InFlight
  BY <1>1 DEF InFlight, Written, Coming
<1>4. LaunchInv' /\ StageInv' /\ PcInv' /\ LogInv'
  BY <1>0, <1>1 DEF LaunchInv, StageInv, PcInv, LogInv, Written, NoneAfterRead
<1>5. OrderInv'
  BY <1>0, <1>1 DEF OrderInv, ReadyFirst, ReadyLast, Written, NoneAfterRead
<1>6. SyncedInv'
  BY <1>0, <1>1, <1>3 DEF SyncedInv
<1>7. OwnInv'
  BY <1>0, <1>1, <1>3 DEF OwnInv
<1>8. LastInv'
  BY <1>0, <1>1 DEF LastInv, Last, Written, NoneAfterRead
<1>9. InfoInv'
  BY <1>0, <1>1 DEF InfoInv, Scored, Written
<1>10. DeadInv'
  BY <1>0, <1>1 DEF DeadInv
<1> QED BY <1>2, <1>4, <1>5, <1>6, <1>7, <1>8, <1>9, <1>10 DEF Inv

LEMMA ForwardKeeps == ASSUME Inv, Forward PROVE Inv'
<1>0. /\ TypeInv /\ LaunchInv /\ StageInv /\ PcInv /\ OrderInv /\ SyncedInv
      /\ OwnInv /\ LastInv /\ InfoInv /\ DeadInv /\ LogInv
  BY DEF Inv
<1>1. /\ UNCHANGED <<session, pc, call, go, awaiting, completed, best, outcome, log, synced,
                     bornDead, seen, stdin, alive, engine>>
      /\ Sound' = Sound /\ Faults' = Faults /\ Up' = Up /\ stdout # <<>>
      /\ rx' = Append(rx, Head(stdout)) /\ stdout' = Tail(stdout)
  BY SameSession DEF Forward, client, flags, ghosts, Up
<1>2. TypeInv'
  BY <1>0, EngineType
<1>3. \A K : Tags2(K, rx', stdout') = Tags2(K, rx, stdout)
  BY <1>0, LinePassed
<1>4. \A A, B : NoneAfter2(A, B, rx, stdout) => NoneAfter2(A, B, rx', stdout')
  BY <1>0, LinePassed
<1>5. InFlight' = InFlight
  BY <1>1, <1>3 DEF InFlight, Written, Coming
<1>6. LaunchInv' /\ StageInv'
  BY <1>0, <1>1, <1>3, <1>4 DEF LaunchInv, StageInv, Written, NoneAfterRead
<1>7. PcInv' /\ LogInv'
  BY <1>0, <1>1 DEF PcInv, LogInv
<1>8. OrderInv'
  BY <1>0, <1>1, <1>3, <1>4 DEF OrderInv, ReadyFirst, ReadyLast, Written, NoneAfterRead
<1>9. SyncedInv' /\ OwnInv'
  BY <1>0, <1>1, <1>5 DEF SyncedInv, OwnInv
<1>10. LastInv'
  BY <1>0, <1>1, <1>3, <1>4 DEF LastInv, Last, Written, NoneAfterRead
<1>11. InfoInv'
  <2>1. Led2(rx, stdout) => Led2(rx', stdout')
    BY <1>0, <1>1, LedPass DEF TypeInv
  <2> QED BY <1>0, <1>1, <1>3, <2>1 DEF InfoInv, Scored, Written
<1>12. DeadInv'
  BY <1>0, <1>1 DEF DeadInv
<1> QED BY <1>2, <1>6, <1>7, <1>8, <1>9, <1>10, <1>11, <1>12 DEF Inv


LEMMA LedWritten ==
    ASSUME TypeInv, NEW kind \in Kinds, NEW n \in Nat, Write(kind, n), UNCHANGED rx,
           Led2(rx, stdout), kind = "bestmove" => Tags2({"info"}, rx, stdout) # {}
    PROVE  Led2(rx', stdout')
<1>1. Line(kind, n) \in Lines /\ Line(kind, n).kind = kind
  BY LineIsLine
<1>2. stdout' = Append(stdout, Line(kind, n)) /\ rx' = rx /\ stdout \in Seq(Lines)
  BY DEF Write, TypeInv
<1> HIDE DEF Line
<1>3. CASE Tags({"info"}, rx) # {}
  BY <1>2, <1>3 DEF Led2
<1>4. CASE Tags({"info"}, rx) = {}
  <2>1. LedByInfo(stdout) /\ (kind = "bestmove" => Tags({"info"}, stdout) # {})
    BY <1>4 DEF Led2, Tags2
  <2>2. LedByInfo(Append(stdout, Line(kind, n)))
    BY <1>1, <1>2, <2>1, LedAppend
  <2> QED BY <1>2, <2>2 DEF Led2
<1> QED BY <1>3, <1>4

\* The engine writes a line of a search it is at, or the duplicate.
LEMMA SearchLineKeeps ==
    ASSUME Inv, alive, UNCHANGED <<session, client, stdin, rx, alive, ghosts>>,
           NEW kind \in SearchKinds, NEW n \in Nat \ {0}, Write(kind, n),
           n \in {engine.search, engine.dup},
           engine'.stage = engine.stage, engine'.search \in {engine.search, 0},
           engine'.dup \in {engine.search, engine.dup, 0},
           engine'.dup \in {engine.dup, 0} \/ "duplicate" \in Faults,
           kind = "bestmove" => engine'.search = 0,
           kind = "bare" => "noinfo" \in Faults,
           engine.search # 0 /\ kind = "bestmove" => engine.usable \/ "noinfo" \in Faults,
           TypeInv'
    PROVE  Inv'
<1>0. /\ TypeInv /\ LaunchInv /\ StageInv /\ PcInv /\ OrderInv /\ SyncedInv
      /\ OwnInv /\ LastInv /\ InfoInv /\ DeadInv /\ LogInv
  BY DEF Inv
<1>1. /\ UNCHANGED <<session, pc, call, go, awaiting, completed, best, outcome, log, synced,
                     bornDead, seen, stdin, rx, alive>>
      /\ Sound' = Sound /\ Faults' = Faults /\ Up' = Up
  BY SameSession DEF client, flags, ghosts, Up
<1>2. kind \in Kinds /\ n \in Nat
  BY DEF SearchKinds, Kinds
<1>3. \A K : Tags2(K, rx', stdout') = Tags2(K, rx, stdout) \union IF kind \in K THEN {n} ELSE {}
  BY <1>0, <1>1, <1>2, LineWritten
<1>4. \A A, B : NoneAfter2(A, B, rx, stdout) /\ (kind \in A => Tags2(B, rx, stdout) = {})
                    => NoneAfter2(A, B, rx', stdout')
  BY <1>0, <1>1, <1>2, LineWritten
<1>5. engine.search # 0 \/ engine.dup # 0
  OBVIOUS
<1>6. LaunchInv'
  BY <1>0, <1>1, <1>5 DEF LaunchInv
<1>7. StageInv'
  <2>1. Up => engine.stage = "playing"
    BY <1>0, <1>5 DEF StageInv
  <2> QED BY <1>1, <2>1 DEF StageInv
<1>8. Tags2({"readyok"}, rx', stdout') = Tags2({"readyok"}, rx, stdout)
  BY <1>3 DEF SearchKinds
<1>9. OrderInv'
  <2>1. ASSUME ReadyFirst PROVE ReadyFirst'
    <3>1. Tags({"isready"}, stdin) = {}
      BY <1>5, <2>1 DEF ReadyFirst
    <3>2. kind \notin {"readyok"}
      BY DEF SearchKinds
    <3>3. NoneAfter2({"readyok"}, SearchKinds, rx', stdout')
      BY <1>4, <2>1, <3>2 DEF ReadyFirst, NoneAfterRead
    <3> QED BY <1>1, <2>1, <3>1, <3>3 DEF ReadyFirst, NoneAfterRead
  <2>2. ASSUME ReadyLast PROVE ReadyLast'
    <3>1. Tags2({"readyok"}, rx, stdout) = {}
      BY <1>5, <2>2 DEF ReadyLast, Written
    <3>2. NoneAfter2(SearchKinds, {"readyok"}, rx', stdout')
      BY <1>8, <3>1, NoTags2
    <3> QED BY <1>1, <1>8, <2>2, <3>1, <3>2 DEF ReadyLast, NoneAfterRead, Written
  <2> QED BY <1>0, <1>1, <2>1, <2>2 DEF OrderInv
<1>10. InFlight' \subseteq InFlight
  <2>1. n \in InFlight
    BY DEF InFlight, Coming
  <2>2. Coming' \subseteq Coming
    BY <1>1 DEF Coming
  <2>3. Tags2(SearchKinds, rx', stdout') = Tags2(SearchKinds, rx, stdout) \union {n}
    BY <1>3
  <2> QED BY <2>1, <2>2, <2>3 DEF InFlight, Written
<1>11. PcInv' /\ SyncedInv' /\ OwnInv' /\ DeadInv' /\ LogInv'
  BY <1>10, EngineRest
<1>12. LastInv'
  <2>1. ASSUME Last, "duplicate" \notin Faults PROVE Last'
    <3>1. engine.dup = 0 /\ engine.search # 0 /\ engine'.dup = 0
      BY <1>5, <2>1 DEF Last
    <3>2. Tags2({"bestmove"}, rx, stdout) = {} /\ Tags({"go"}, stdin) = {}
      BY <2>1, <3>1 DEF Last, Written
    <3>3. NoneAfter2(SearchKinds, {"bestmove"}, rx', stdout')
      BY <1>4, <2>1, <3>2 DEF Last, NoneAfterRead
    <3>4. kind # "bestmove" => Tags2({"bestmove"}, rx', stdout') = {}
      BY <1>3, <3>2
    <3> QED BY <1>1, <2>1, <3>1, <3>2, <3>3, <3>4 DEF Last, NoneAfterRead, Written
  <2> QED BY <1>0, <1>1, <2>1 DEF LastInv
<1>13. InfoInv'
  <2>1. "noinfo" \notin Faults => Tags2({"bare"}, rx', stdout') = Tags2({"bare"}, rx, stdout)
    BY <1>3
  <2>2. ASSUME Scored, "noinfo" \notin Faults PROVE Scored'
    <3>1. Tags2({"info"}, rx', stdout') # {}
      <4>1. CASE kind = "info"
        BY <1>3, <4>1
      <4>2. CASE kind = "bestmove"
        BY <1>3, <1>5, <2>2, <4>2 DEF Scored, Written
      <4> QED BY <2>2, <4>1, <4>2 DEF SearchKinds
    <3>2. kind = "bestmove" => Tags2({"info"}, rx, stdout) # {}
      BY <1>5, <2>2 DEF Scored, Written
    <3>3. Led2(rx', stdout')
      BY <1>0, <1>1, <1>2, <2>2, <3>2, LedWritten DEF Scored
    <3> QED BY <3>1, <3>3 DEF Scored, Written
  <2> QED BY <1>0, <1>1, <2>1, <2>2 DEF InfoInv, Written
<1> QED BY <1>6, <1>7, <1>9, <1>11, <1>12, <1>13 DEF Inv

LEMMA SearchingKeeps ==
    ASSUME Inv, alive, UNCHANGED <<session, client, rx, alive, ghosts>>, TypeInv',
           SendInfo \/ FinishSearch \/ Duplicate
    PROVE  Inv'
<1>0. /\ TypeInv /\ engine.search \in Nat /\ engine.dup \in Nat /\ UNCHANGED stdin
      /\ engine \in [stage : {"boot", "ready", "playing"}, search : Nat, infos : Nat,
                     usable : BOOLEAN, dup : Nat]
  BY DEF Inv, TypeInv, SendInfo, FinishSearch, Duplicate
<1>1. CASE SendInfo
  <2>1. PICK usable \in {TRUE} \union (IF "noinfo" \in Faults THEN {FALSE} ELSE {}) :
           /\ Write(IF usable THEN "info" ELSE "bare", engine.search)
           /\ engine' = [engine EXCEPT !.infos = @ + 1, !.usable = usable]
    BY <1>1 DEF SendInfo
  <2> DEFINE kind == IF usable THEN "info" ELSE "bare"
  <2>2. kind \in SearchKinds /\ kind # "bestmove" /\ (kind = "bare" => "noinfo" \in Faults)
    BY <2>1 DEF SearchKinds
  <2>3. engine.search \in Nat \ {0}
    BY <1>0, <1>1 DEF SendInfo
  <2>4. /\ engine'.stage = engine.stage /\ engine'.search = engine.search /\ engine'.dup = engine.dup
    BY <1>0, <2>1
  <2>5. Write(kind, engine.search)
    BY <2>1
  <2> HIDE DEF kind
  <2> QED BY <1>0, <2>2, <2>3, <2>4, <2>5, SearchLineKeeps
<1>2. CASE FinishSearch
  <2>1. engine.search \in Nat \ {0} /\ Write("bestmove", engine.search)
    BY <1>0, <1>2 DEF FinishSearch
  <2>2. /\ engine'.stage = engine.stage /\ engine'.search = 0
        /\ engine'.dup = IF "duplicate" \in Faults THEN engine.search ELSE 0
    BY <1>0, <1>2 DEF FinishSearch
  <2>3. "bestmove" \in SearchKinds
    BY DEF SearchKinds
  <2>4. engine.usable \/ "noinfo" \in Faults
    BY <1>2 DEF FinishSearch
  <2> QED BY <1>0, <2>1, <2>2, <2>3, <2>4, SearchLineKeeps
<1>3. CASE Duplicate
  <2>1. engine.dup \in Nat \ {0} /\ Write("bestmove", engine.dup) /\ engine.search = 0
    BY <1>0, <1>3 DEF Duplicate
  <2>2. engine'.stage = engine.stage /\ engine'.search = 0 /\ engine'.dup = 0
    BY <1>0, <1>3 DEF Duplicate
  <2>3. "bestmove" \in SearchKinds
    BY DEF SearchKinds
  <2> QED BY <1>0, <2>1, <2>2, <2>3, SearchLineKeeps
<1> QED BY <1>1, <1>2, <1>3


\* A bestmove that belongs to no search.
LEMMA UnsolicitedKeeps ==
    ASSUME Inv, alive, UNCHANGED <<session, client, rx, alive, ghosts>>, TypeInv', Unsolicited
    PROVE  Inv'
<1>0. /\ TypeInv /\ LaunchInv /\ StageInv /\ PcInv /\ OrderInv /\ SyncedInv
      /\ OwnInv /\ LastInv /\ InfoInv /\ DeadInv /\ LogInv
  BY DEF Inv
<1>1. /\ UNCHANGED <<session, pc, call, go, awaiting, completed, best, outcome, log, synced,
                     bornDead, seen, stdin, rx, alive>>
      /\ Sound' = Sound /\ Faults' = Faults /\ Up' = Up
      /\ \/ engine.stage = "boot"
         \/ engine.stage = "ready" /\ "stray" \in Faults
      /\ Write("bestmove", 0)
  BY SameSession DEF client, flags, ghosts, Up, Unsolicited
<1>2. engine'.stage = engine.stage /\ engine'.search = engine.search /\ engine'.dup = engine.dup
  BY <1>0 DEF Unsolicited, TypeInv
<1>3. "bestmove" \in Kinds /\ 0 \in Nat
  BY DEF Kinds
<1>4. \A K : Tags2(K, rx', stdout')
                = Tags2(K, rx, stdout) \union IF "bestmove" \in K THEN {0} ELSE {}
  BY <1>0, <1>1, <1>3, LineWritten
<1>5. \A A, B : NoneAfter2(A, B, rx, stdout) /\ ("bestmove" \in A => Tags2(B, rx, stdout) = {})
                    => NoneAfter2(A, B, rx', stdout')
  BY <1>0, <1>1, <1>3, LineWritten
<1>6. /\ Tags2({"readyok"}, rx', stdout') = Tags2({"readyok"}, rx, stdout)
      /\ Tags2({"info", "bare"}, rx', stdout') = Tags2({"info", "bare"}, rx, stdout)
  BY <1>4
<1>7. Up => /\ ~Sound /\ ~synced /\ ~completed
            /\ Tags2({"readyok"}, rx, stdout) = {} /\ Tags({"isready"}, stdin) = {}
  BY <1>0, <1>1 DEF StageInv, Written, Sound
<1>8. LaunchInv'
  <2>1. NoneAfter2({"readyok"}, {"readyok"}, rx, stdout)
           => NoneAfter2({"readyok"}, {"readyok"}, rx', stdout')
    BY <1>5
  <2>2. ASSUME pc \in {"usi", "setup"}, "stray" \notin Faults
        PROVE  NoneAfter2(SearchKinds, {"readyok"}, rx', stdout')
    <3>1. Tags2({"readyok"}, rx, stdout) = {}
      BY <1>0, <1>1, <2>2 DEF LaunchInv, Written
    <3> QED BY <1>6, <3>1, NoTags2
  <2> QED BY <1>0, <1>1, <1>2, <1>6, <2>1, <2>2 DEF LaunchInv, Written, NoneAfterRead
<1>9. StageInv'
  BY <1>0, <1>1, <1>2, <1>6 DEF StageInv, Written
<1>10. OrderInv'
  <2>1. ASSUME Up PROVE ReadyFirst'
    <3>1. ReadyFirst
      BY <1>0, <1>7, <2>1 DEF OrderInv
    <3>2. NoneAfter2({"readyok"}, SearchKinds, rx', stdout')
      BY <1>6, <1>7, <2>1, NoTags2
    <3> QED BY <1>1, <1>7, <2>1, <3>1, <3>2 DEF ReadyFirst, NoneAfterRead
  <2> QED BY <1>1, <1>7, <2>1 DEF OrderInv
<1>11. PcInv' /\ SyncedInv' /\ OwnInv' /\ DeadInv' /\ LogInv'
  BY <1>7, EngineRest
<1>12. LastInv' /\ InfoInv'
  BY <1>1, <1>7 DEF LastInv, InfoInv
<1> QED BY <1>8, <1>9, <1>10, <1>11, <1>12 DEF Inv

\* A command is read: what it makes the engine write is not a line of a search.
LEMMA StopKeeps ==
    ASSUME Inv, alive, UNCHANGED <<session, client, rx, alive, ghosts>>, TypeInv', ReadStop
    PROVE  Inv'
<1>0. /\ TypeInv /\ LaunchInv /\ StageInv /\ PcInv /\ OrderInv /\ SyncedInv
      /\ OwnInv /\ LastInv /\ InfoInv /\ DeadInv /\ LogInv
  BY DEF Inv
<1>1. /\ UNCHANGED <<session, pc, call, go, awaiting, completed, best, outcome, log, synced,
                     bornDead, seen, rx, stdout, engine, alive>>
      /\ Sound' = Sound /\ Faults' = Faults /\ Up' = Up
      /\ stdin # <<>> /\ stdin' = Tail(stdin)
  BY SameSession DEF client, flags, ghosts, Up, ReadStop
<1>2. \A K : Tags(K, stdin') \subseteq Tags(K, stdin)
  BY <1>0, <1>1, CommandRead
<1>3. \A A, B : NoneAfter(A, B, stdin) => NoneAfter(A, B, stdin')
  BY <1>0, <1>1, CommandRead
<1>4. LaunchInv' /\ StageInv'
  BY <1>0, <1>1, <1>2, <1>3 DEF LaunchInv, StageInv, Written, NoneAfterRead
<1>5. OrderInv'
  BY <1>0, <1>1, <1>2, <1>3 DEF OrderInv, ReadyFirst, ReadyLast, Written, NoneAfterRead
<1>6. InFlight' \subseteq InFlight
  BY <1>1, <1>2 DEF InFlight, Coming, Written
<1>7. PcInv' /\ SyncedInv' /\ OwnInv' /\ DeadInv' /\ LogInv'
  BY <1>6, EngineRest
<1>8. LastInv'
  BY <1>0, <1>1, <1>2, <1>3 DEF LastInv, Last, Written, NoneAfterRead
<1>9. InfoInv'
  BY <1>0, <1>1 DEF InfoInv, Scored, Written
<1> QED BY <1>4, <1>5, <1>7, <1>8, <1>9 DEF Inv

\* go: the engine is at the search, and wrote nothing.
LEMMA GoReadKeeps ==
    ASSUME Inv, alive, UNCHANGED <<session, client, rx, alive, ghosts>>, TypeInv', ReadCommand,
           Head(stdin).kind = "go"
    PROVE  Inv'
<1>0. /\ TypeInv /\ LaunchInv /\ StageInv /\ PcInv /\ OrderInv /\ SyncedInv
      /\ OwnInv /\ LastInv /\ InfoInv /\ DeadInv /\ LogInv
  BY DEF Inv
<1>1. /\ UNCHANGED <<session, pc, call, go, awaiting, completed, best, outcome, log, synced,
                     bornDead, seen, rx, stdout, alive>>
      /\ Sound' = Sound /\ Faults' = Faults /\ Up' = Up
      /\ stdin # <<>> /\ stdin' = Tail(stdin) /\ engine.search = 0
  BY SameSession DEF client, flags, ghosts, Up, ReadCommand
<1>2. /\ engine'.stage = "playing" /\ engine'.search = Head(stdin).go /\ engine'.dup = 0
      /\ engine'.usable = FALSE
  BY DEF ReadCommand
<1>3. \A K : Tags(K, stdin) = Tags(K, stdin')
                \union IF Head(stdin).kind \in K THEN {Head(stdin).go} ELSE {}
  BY <1>0, <1>1, CommandRead
<1>4. \A A, B : NoneAfter(A, B, stdin) =>
                  /\ NoneAfter(A, B, stdin')
                  /\ Head(stdin).kind \in B => Tags(A, stdin') = {}
  BY <1>0, <1>1, CommandRead
<1>5. Tags({"go"}, stdin) = Tags({"go"}, stdin') \union {Head(stdin).go}
  BY <1>3
<1>6. LaunchInv'
  BY <1>0, <1>1, <1>5 DEF LaunchInv
<1>7. StageInv'
  BY <1>2 DEF StageInv
<1>8. OrderInv'
  <2>1. ASSUME ReadyFirst PROVE ReadyFirst'
    <3>1. NoneAfter({"isready"}, {"go"}, stdin') /\ Tags({"isready"}, stdin') = {}
      BY <1>4, <2>1 DEF ReadyFirst
    <3> QED BY <1>1, <2>1, <3>1 DEF ReadyFirst, NoneAfterRead
  <2>2. ASSUME ReadyLast PROVE ReadyLast'
    <3>1. Tags2({"readyok"}, rx, stdout) = {}
      BY <1>5, <2>2 DEF ReadyLast, Written
    <3>2. NoneAfter({"go"}, {"isready"}, stdin')
      BY <1>4, <2>2 DEF ReadyLast
    <3> QED BY <1>1, <2>2, <3>1, <3>2 DEF ReadyLast, NoneAfterRead, Written
  <2> QED BY <1>0, <1>1, <2>1, <2>2 DEF OrderInv
<1>9. InFlight' \subseteq InFlight
  <2>1. Coming' \subseteq Coming
    BY <1>1, <1>2, <1>5 DEF Coming
  <2> QED BY <1>1, <2>1 DEF InFlight, Written
<1>10. PcInv' /\ SyncedInv' /\ OwnInv' /\ DeadInv' /\ LogInv'
  BY <1>9, EngineRest
<1>11. LastInv'
  <2>1. ASSUME Last PROVE Last'
    <3>1. Tags2({"bestmove"}, rx, stdout) = {}
      BY <1>5, <2>1 DEF Last, Written
    <3>2. NoneAfter({"go"}, {"go"}, stdin') /\ Tags({"go"}, stdin') = {}
      BY <1>4, <2>1 DEF Last
    <3> QED BY <1>1, <1>2, <2>1, <3>1, <3>2 DEF Last, NoneAfterRead, Written
  <2> QED BY <1>0, <1>1, <2>1 DEF LastInv
<1>12. InfoInv'
  BY <1>0, <1>1, <1>2 DEF InfoInv, Scored, Written
<1> QED BY <1>6, <1>7, <1>8, <1>10, <1>11, <1>12 DEF Inv

\* Another command than go and isready: usiok, or nothing.
LEMMA OtherReadKeeps ==
    ASSUME Inv, alive, UNCHANGED <<session, client, rx, alive, ghosts>>, TypeInv', ReadCommand,
           Head(stdin).kind \notin {"go", "isready"}
    PROVE  Inv'
<1>0. /\ TypeInv /\ LaunchInv /\ StageInv /\ PcInv /\ OrderInv /\ SyncedInv
      /\ OwnInv /\ LastInv /\ InfoInv /\ DeadInv /\ LogInv
  BY DEF Inv
<1>1. /\ UNCHANGED <<session, pc, call, go, awaiting, completed, best, outcome, log, synced,
                     bornDead, seen, rx, alive>>
      /\ Sound' = Sound /\ Faults' = Faults /\ Up' = Up
      /\ stdin # <<>> /\ stdin' = Tail(stdin) /\ engine.search = 0
  BY SameSession DEF client, flags, ghosts, Up, ReadCommand
<1>2. /\ engine' = [engine EXCEPT !.dup = 0]
      /\ Write("usiok", 0) \/ UNCHANGED stdout
  BY DEF ReadCommand
<1>3. engine'.stage = engine.stage /\ engine'.search = 0 /\ engine'.dup = 0
  BY <1>0, <1>1, <1>2 DEF TypeInv
<1>4. \A K : Tags(K, stdin') \subseteq Tags(K, stdin)
  BY <1>0, <1>1, CommandRead
<1>5. \A A, B : NoneAfter(A, B, stdin) => NoneAfter(A, B, stdin')
  BY <1>0, <1>1, CommandRead
<1>6. /\ \A K : "usiok" \notin K => Tags2(K, rx', stdout') = Tags2(K, rx, stdout)
      /\ \A A, B : "usiok" \notin A /\ NoneAfter2(A, B, rx, stdout) => NoneAfter2(A, B, rx', stdout')
      /\ Led2(rx, stdout) => Led2(rx', stdout')
  <2>1. "usiok" \in Kinds /\ 0 \in Nat
    BY DEF Kinds
  <2>2. CASE Write("usiok", 0)
    BY <1>0, <1>1, <2>1, <2>2, LineWritten, LedWritten
  <2>3. CASE UNCHANGED stdout
    BY <1>1, <2>3
  <2> QED BY <1>2, <2>2, <2>3
<1>7. "usiok" \notin SearchKinds
  BY DEF SearchKinds
<1>8. LaunchInv'
  BY <1>0, <1>1, <1>3, <1>4, <1>5, <1>6, <1>7 DEF LaunchInv, Written, NoneAfterRead
<1>9. StageInv'
  BY <1>0, <1>1, <1>3, <1>4, <1>6 DEF StageInv, Written
<1>10. OrderInv'
  <2>1. ReadyFirst => ReadyFirst'
    BY <1>1, <1>3, <1>4, <1>5, <1>6, <1>7 DEF ReadyFirst, Written, NoneAfterRead
  <2>2. ReadyLast => ReadyLast'
    BY <1>1, <1>3, <1>4, <1>5, <1>6, <1>7 DEF ReadyLast, Written, NoneAfterRead
  <2> QED BY <1>0, <1>1, <2>1, <2>2 DEF OrderInv
<1>11. InFlight' \subseteq InFlight
  <2>1. Coming' \subseteq Coming
    BY <1>1, <1>3, <1>4 DEF Coming
  <2> QED BY <1>6, <1>7, <2>1 DEF InFlight, Written
<1>12. PcInv' /\ SyncedInv' /\ OwnInv' /\ DeadInv' /\ LogInv'
  BY <1>11, EngineRest
<1>13. LastInv'
  <2>1. Last => Last'
    BY <1>1, <1>3, <1>4, <1>5, <1>6, <1>7 DEF Last, Written, NoneAfterRead
  <2> QED BY <1>0, <1>1, <2>1 DEF LastInv
<1>14. InfoInv'
  BY <1>0, <1>1, <1>3, <1>6 DEF InfoInv, Scored, Written
<1> QED BY <1>8, <1>9, <1>10, <1>12, <1>13, <1>14 DEF Inv


\* isready: the answer comes behind all that was written.
LEMMA IsreadyReadKeeps ==
    ASSUME Inv, alive, UNCHANGED <<session, client, rx, alive, ghosts>>, TypeInv', ReadCommand,
           Head(stdin).kind = "isready"
    PROVE  Inv'
<1>0. /\ TypeInv /\ LaunchInv /\ StageInv /\ PcInv /\ OrderInv /\ SyncedInv
      /\ OwnInv /\ LastInv /\ InfoInv /\ DeadInv /\ LogInv
  BY DEF Inv
<1>1. /\ UNCHANGED <<session, pc, call, go, awaiting, completed, best, outcome, log, synced,
                     bornDead, seen, rx, alive>>
      /\ Sound' = Sound /\ Faults' = Faults /\ Up' = Up
      /\ stdin # <<>> /\ stdin' = Tail(stdin) /\ engine.search = 0 /\ Write("readyok", 0)
  BY SameSession DEF client, flags, ghosts, Up, ReadCommand
<1>2. /\ engine'.stage = (IF engine.stage = "boot" THEN "ready" ELSE engine.stage)
      /\ engine'.search = 0 /\ engine'.dup = 0
  <2>1. engine' = [engine EXCEPT !.dup = 0, !.infos = 0,
                       !.stage = IF engine.stage = "boot" THEN "ready" ELSE engine.stage]
    BY DEF ReadCommand
  <2> QED BY <1>0, <1>1, <2>1 DEF TypeInv
<1>3. \A K : Tags(K, stdin) = Tags(K, stdin')
                \union IF Head(stdin).kind \in K THEN {Head(stdin).go} ELSE {}
  BY <1>0, <1>1, CommandRead
<1>4. \A A, B : NoneAfter(A, B, stdin) =>
                  /\ NoneAfter(A, B, stdin')
                  /\ Head(stdin).kind \in B => Tags(A, stdin') = {}
  BY <1>0, <1>1, CommandRead
<1>5. /\ Tags({"isready"}, stdin) # {}
      /\ Tags({"go"}, stdin') = Tags({"go"}, stdin)
  BY <1>3
<1>6. "readyok" \in Kinds /\ 0 \in Nat
  BY DEF Kinds
<1>7. \A K : Tags2(K, rx', stdout') = Tags2(K, rx, stdout) \union IF "readyok" \in K THEN {0} ELSE {}
  BY <1>0, <1>1, <1>6, LineWritten
<1>8. \A A, B : NoneAfter2(A, B, rx, stdout) /\ ("readyok" \in A => Tags2(B, rx, stdout) = {})
                    => NoneAfter2(A, B, rx', stdout')
  BY <1>0, <1>1, <1>6, LineWritten
<1>9. /\ Tags2(SearchKinds, rx', stdout') = Tags2(SearchKinds, rx, stdout)
      /\ Tags2({"bestmove"}, rx', stdout') = Tags2({"bestmove"}, rx, stdout)
      /\ Tags2({"info"}, rx', stdout') = Tags2({"info"}, rx, stdout)
      /\ Tags2({"bare"}, rx', stdout') = Tags2({"bare"}, rx, stdout)
      /\ Tags2({"info", "bare"}, rx', stdout') = Tags2({"info", "bare"}, rx, stdout)
  BY <1>7 DEF SearchKinds
<1>10. \A B : NoneAfter2(SearchKinds, B, rx, stdout) => NoneAfter2(SearchKinds, B, rx', stdout')
  <2>1. "readyok" \notin SearchKinds
    BY DEF SearchKinds
  <2> QED BY <1>8, <2>1
<1>11. LaunchInv'
  <2>1. ASSUME pc \in {"usi", "setup"}
        PROVE  /\ engine'.stage = "ready" /\ Tags({"isready"}, stdin') = {} /\ pc # "usi"
               /\ NoneAfter2({"readyok"}, {"readyok"}, rx', stdout')
    <3>1. engine.stage = "boot" /\ NoneAfter({"isready"}, {"isready"}, stdin) /\ pc # "usi"
      BY <1>0, <1>5, <2>1 DEF LaunchInv
    <3>2. Tags2({"readyok"}, rx, stdout) = {}
      BY <1>0, <2>1, <3>1 DEF LaunchInv, Written
    <3>3. NoneAfter2({"readyok"}, {"readyok"}, rx', stdout')
      BY <1>8, <3>2, NoTags2
    <3>4. Tags({"isready"}, stdin') = {}
      BY <1>4, <3>1
    <3> QED BY <1>2, <3>1, <3>3, <3>4
  <2>2. NoneAfter({"isready"}, {"isready"}, stdin) => NoneAfter({"isready"}, {"isready"}, stdin')
    BY <1>4
  <2> QED BY <1>0, <1>1, <1>2, <1>5, <1>9, <1>10, <2>1, <2>2 DEF LaunchInv, Written, NoneAfterRead
<1>12. StageInv'
  <2>1. Up => engine.stage = "playing"
    BY <1>0, <1>5 DEF StageInv
  <2> QED BY <1>1, <1>2, <2>1 DEF StageInv
<1>13. OrderInv'
  <2>1. ASSUME ReadyFirst PROVE ReadyFirst'
    <3>1. Tags2(SearchKinds, rx, stdout) = {}
      BY <1>5, <2>1 DEF ReadyFirst, Written
    <3>2. NoneAfter2({"readyok"}, SearchKinds, rx', stdout')
      BY <1>9, <3>1, NoTags2
    <3>3. NoneAfter({"isready"}, {"go"}, stdin')
      BY <1>4, <2>1 DEF ReadyFirst
    <3> QED BY <1>2, <1>9, <3>1, <3>2, <3>3 DEF ReadyFirst, NoneAfterRead, Written
  <2>2. ASSUME ReadyLast PROVE ReadyLast'
    <3>1. NoneAfter({"go"}, {"isready"}, stdin') /\ Tags({"go"}, stdin') = {}
      BY <1>4, <2>2 DEF ReadyLast
    <3>2. NoneAfter2(SearchKinds, {"readyok"}, rx', stdout')
      BY <1>10, <2>2 DEF ReadyLast, NoneAfterRead
    <3> QED BY <1>2, <3>1, <3>2 DEF ReadyLast, NoneAfterRead
  <2> QED BY <1>0, <1>1, <2>1, <2>2 DEF OrderInv
<1>14. InFlight' \subseteq InFlight
  <2>1. Coming' \subseteq Coming
    BY <1>1, <1>2, <1>5 DEF Coming
  <2> QED BY <1>9, <2>1 DEF InFlight, Written
<1>15. PcInv' /\ SyncedInv' /\ OwnInv' /\ DeadInv' /\ LogInv'
  BY <1>14, EngineRest
<1>16. LastInv'
  <2>1. ASSUME Last PROVE Last'
    <3>1. NoneAfter({"go"}, {"go"}, stdin')
      BY <1>4, <2>1 DEF Last
    <3>2. NoneAfter2(SearchKinds, {"bestmove"}, rx', stdout')
      BY <1>10, <2>1 DEF Last, NoneAfterRead
    <3> QED BY <1>2, <1>5, <1>9, <2>1, <3>1, <3>2 DEF Last, NoneAfterRead, Written
  <2> QED BY <1>0, <1>1, <2>1 DEF LastInv
<1>17. InfoInv'
  <2>1. Led2(rx, stdout) => Led2(rx', stdout')
    BY <1>0, <1>1, <1>6, LedWritten
  <2> QED BY <1>0, <1>1, <1>2, <1>9, <2>1 DEF InfoInv, Scored, Written
<1> QED BY <1>11, <1>12, <1>13, <1>15, <1>16, <1>17 DEF Inv

LEMMA EngineKeeps == ASSUME Inv, EngineStep PROVE Inv'
<1>1. alive /\ UNCHANGED <<session, client, rx, alive, ghosts>>
  BY DEF EngineStep
<1>2. TypeInv'
  BY EngineType DEF Inv
<1>3. CASE ReadCommand
  <2>1. CASE Head(stdin).kind = "go"
    BY <1>1, <1>2, <1>3, <2>1, GoReadKeeps
  <2>2. CASE Head(stdin).kind = "isready"
    BY <1>1, <1>2, <1>3, <2>2, IsreadyReadKeeps
  <2>3. CASE Head(stdin).kind \notin {"go", "isready"}
    BY <1>1, <1>2, <1>3, <2>3, OtherReadKeeps
  <2> QED BY <2>1, <2>2, <2>3
<1>4. CASE ReadStop
  BY <1>1, <1>2, <1>4, StopKeeps
<1>5. CASE SendInfo \/ FinishSearch \/ Duplicate
  BY <1>1, <1>2, <1>5, SearchingKeeps
<1>6. CASE Unsolicited
  BY <1>1, <1>2, <1>6, UnsolicitedKeeps
<1> QED BY <1>3, <1>4, <1>5, <1>6 DEF EngineStep

-----------------------------------------------------------------------------
(* The theorems.                                                           *)

LEMMA InitInv == Init => Inv
<1> SUFFICES ASSUME Init PROVE Inv
  OBVIOUS
<1>1. TypeInv
  BY TypeInit
<1>2. /\ pc = "usi" /\ call = 0 /\ go = 0 /\ ~awaiting /\ ~completed /\ ~synced /\ ~bornDead
      /\ outcome = "none" /\ best.kind = "none" /\ log = <<>> /\ stdout = <<>> /\ rx = <<>>
      /\ engine.stage = "boot" /\ engine.search = 0 /\ engine.dup = 0
      /\ stdin = Append(<<>>, Line("usi", 0))
  BY DEF Init, NoInfo, Line
<1>3. ~Up
  BY <1>2 DEF Up
<1>4. \A A, B : Tags2(A, rx, stdout) = {} /\ NoneAfter2(A, B, rx, stdout)
  BY <1>2, EmptyQueue DEF Tags2, NoneAfter2
<1>5. \A K : "usi" \notin K => Tags(K, stdin) = {}
  BY <1>2 DEF Tags, Line
<1>6. LaunchInv
  <2>1. Tags({"go"}, stdin) = {} /\ Tags({"isready"}, stdin) = {}
    BY <1>5
  <2>2. NoneAfter({"isready"}, {"isready"}, stdin)
    BY <2>1, NoTags
  <2> QED BY <1>2, <1>4, <2>1, <2>2 DEF LaunchInv, Written, NoneAfterRead
<1>7. PcInv /\ SyncedInv /\ DeadInv /\ LogInv
  BY <1>2 DEF PcInv, SyncedInv, DeadInv, LogInv
<1>8. StageInv /\ OrderInv /\ OwnInv /\ LastInv /\ InfoInv
  BY <1>3 DEF StageInv, OrderInv, OwnInv, LastInv, InfoInv
<1> QED BY <1>1, <1>6, <1>7, <1>8 DEF Inv

LEMMA NextInv == Inv /\ [Next]_vars => Inv'
<1> SUFFICES ASSUME Inv, [Next]_vars PROVE Inv'
  OBVIOUS
<1>1. CASE ClientStep
  BY <1>1, ClientKeeps
<1>2. CASE EngineStep
  BY <1>2, EngineKeeps
<1>3. CASE EngineExits
  BY <1>3, ExitKeeps
<1>4. CASE Forward
  BY <1>4, ForwardKeeps
<1>5. CASE UNCHANGED vars
  <2>1. UNCHANGED <<session, pc, call, go, awaiting, completed, early, best, outcome, stdin, stdout,
                    rx, alive, engine, log, synced, bornDead, seen>>
    BY <1>5 DEF vars, client, flags, pipes, ghosts
  <2>2. /\ TypeInv' = TypeInv /\ LaunchInv' = LaunchInv /\ StageInv' = StageInv /\ PcInv' = PcInv
        /\ OrderInv' = OrderInv
    BY <2>1 DEF TypeInv, FlagsTyped, LogTyped, LaunchInv, StageInv, PcInv, OrderInv, Up, Written,
                NoneAfterRead, ReadyFirst, ReadyLast, Faults
  <2>3. /\ SyncedInv' = SyncedInv /\ OwnInv' = OwnInv /\ LastInv' = LastInv /\ InfoInv' = InfoInv
        /\ DeadInv' = DeadInv /\ LogInv' = LogInv
    BY <2>1 DEF SyncedInv, OwnInv, LastInv, InfoInv, DeadInv, LogInv, Up, Written, NoneAfterRead,
                InFlight, Coming, Sound, Strict, Faults, Last, Scored
  <2> QED BY <2>2, <2>3 DEF Inv
<1> QED BY <1>1, <1>2, <1>3, <1>4, <1>5 DEF Next


\* The types of a session's state, and what holds of everything between the client
\* and the engine (launch_command, analyse and the forwarding thread).
THEOREM InvHolds == Spec => []Inv
BY InitInv, NextInv, PTL DEF Spec

\* The isready barrier (lib.rs:536), in both modes and whatever the engine does: a
\* search that follows a completed one is answered by its own lines.
THEOREM BarrierHolds == Spec => []BarrierResynchronises
<1>1. Inv => BarrierResynchronises
  BY DEF Inv, LogInv, BarrierResynchronises
<1> QED BY <1>1, InvHolds, PTL

\* recv_until (lib.rs:310): a call that starts when the engine is dead and everything
\* it wrote is read ends with Io.
THEOREM DeadEngineHolds == Spec => []DeadEngineIsReported
<1>1. Inv => DeadEngineIsReported
  BY DEF Inv, DeadInv, DeadEngineIsReported
<1> QED BY <1>1, InvHolds, PTL

\* What strict mode takes for granted: between readyok and the first go the engine is
\* silent, and one that answers without a usable info line or without a move does not
\* repeat its answers: after such an answer no barrier is put up (lib.rs:599-609).
StrictSessions ==
    \A s \in Sessions : s.strict =>
        /\ "stray" \notin s.faults
        /\ "duplicate" \in s.faults => "noinfo" \notin s.faults /\ "malformed" \notin s.faults

LEMMA StrictIsSound == ASSUME StrictSessions, TypeInv, Strict PROVE Sound
BY DEF StrictSessions, TypeInv, Sound, Strict, Faults

\* --usi-strict (main.rs:441): a result is made of the bestmove and the score of its
\* own go, whatever the engine still had to say about earlier searches.
THEOREM OwnGoHolds == ASSUME StrictSessions PROVE Spec => []AnswersOwnGo
<1>1. Inv => AnswersOwnGo
  BY StrictIsSound DEF Inv, LogInv, AnswersOwnGo
<1> QED BY <1>1, InvHolds, PTL

\* The errors of strict mode are true: DuplicateBestmove is reported for a search whose
\* bestmove was received before, BestmoveWithoutGo for a bestmove outside any search,
\* and DelayedBestmoveAfterTimeout for the last go.
THEOREM AlarmsHold == ASSUME StrictSessions PROVE Spec => AlarmsAreTrue
<1> DEFINE Alarm == (Strict /\ pc # "idle" /\ pc' = "idle") =>
          /\ outcome' = "DuplicateBestmove" => Head(rx).go \in seen
          /\ outcome' = "BestmoveWithoutGo" => Head(rx).go = 0
          /\ outcome' = "DelayedBestmoveAfterTimeout" => Head(rx).go = go
<1>1. ASSUME Inv, [Next]_vars PROVE [Alarm]_vars
  <2> SUFFICES ASSUME Strict, pc # "idle", pc' = "idle",
                      outcome' \in {"DuplicateBestmove", "BestmoveWithoutGo",
                                    "DelayedBestmoveAfterTimeout"}
               PROVE  /\ outcome' = "DuplicateBestmove" => Head(rx).go \in seen
                      /\ outcome' = "BestmoveWithoutGo" => Head(rx).go = 0
                      /\ outcome' = "DelayedBestmoveAfterTimeout" => Head(rx).go = go
    OBVIOUS
  <2>0. /\ TypeInv /\ LaunchInv /\ PcInv /\ OwnInv /\ Sound
    BY <1>1, StrictIsSound DEF Inv
  <2>1. Work
    BY <1>1 DEF Next, ClientStep, EngineStep, EngineExits, Forward, ReportEarly, Analyse, vars, client
  <2>2. ~Handshake
    <3>1. Handshake => pc \in {"usi", "setup"} /\ outcome' = outcome
      BY DEF Handshake, HandshakeUsi, HandshakeReady, HandshakeBestmove, HandshakeFails
    <3> QED BY <2>0, <3>1 DEF LaunchInv
  <2>3. /\ pc \in {"late", "barrier", "drain"} /\ rx # <<>> /\ Head(rx).kind = "bestmove"
        /\ pc = "late" => outcome' = "DelayedBestmoveAfterTimeout"
        /\ pc = "barrier" => outcome' = "DuplicateBestmove"
    BY <2>1, <2>2 DEF Work, WaitLate, WaitBarrier, BarrierDone, Drain, SendGo, TakeInfo, TakeOther,
          TakeBestmove, StopSearch, SearchDies, Salvage, Skip, Fail, Return, Unusable, Recv
  <2>4. Head(rx).go \in InFlight
    <3>1. Head(rx).kind \in SearchKinds
      BY <2>3 DEF SearchKinds
    <3>2. Head(rx).go \in Tags2(SearchKinds, rx, stdout)
      BY <2>0, <2>3, <3>1, TakeLine DEF TypeInv
    <3> QED BY <3>2 DEF InFlight, Written
  <2>5. Up /\ pc # "drain"
    BY <2>0, <2>3, <2>4 DEF Up, OwnInv, PcInv
  <2>6. Head(rx).go = go
    BY <2>0, <2>4, <2>5 DEF OwnInv
  <2>7. pc = "barrier" => go \in seen
    BY <2>0, <2>5 DEF OwnInv, PcInv
  <2> QED BY <2>3, <2>5, <2>6, <2>7
<1>2. Inv /\ [Next]_vars => [Alarm]_vars
  BY <1>1
<1> QED BY <1>2, InvHolds, PTL DEF Spec, AlarmsAreTrue

=============================================================================
