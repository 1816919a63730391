---------------------------- MODULE Player_proofs ----------------------------
(***************************************************************************)
(* Proofs about Player, for every set of threads, names and speeds: the    *)
(* inductive invariant behind the playback lock, the speed, the nodes that *)
(* are played and the end of the thread.                                   *)
(***************************************************************************)
EXTENDS Player, FiniteSetTheorems, SequenceTheorems, TLAPS

\* The playback thread is in a read exactly when it has calls, and the first of
\* them is that read.
Reading ==
  /\ thread = "reading" <=> call[Playback] # <<>>
  /\ call[Playback] # <<>> => call[Playback][1].op = "reading"

\* The thread that has a call that locks holds the playback lock.
LockHeld ==
  \A t \in Threads : lock = t <=> \E k \in DOMAIN call[t] : Locks(call[t][k])

\* A source is opened by an outermost call, and one that starts calls nobody.
SourceOutermost ==
  \A t \in Threads : \A k \in DOMAIN call[t] :
    /\ call[t][k].op \in {"starting", "opening"} => k = 1
    /\ call[t][k].op = "starting" => Len(call[t]) = 1

\* Under a seek that is not slowed down, the calls inside of it put back the
\* fastest speed.
SeekFast ==
  \A t \in Threads : \A k \in DOMAIN call[t] :
    call[t][k].op = "seeking" =>
      /\ speed = FASTEST
      /\ \A j \in DOMAIN call[t] : j > k /\ Restores(call[t][j]) => call[t][j].saved = FASTEST

\* The outermost of a thread's calls that restore the speed puts back the one
\* that was asked for, those inside of it put back the fastest.
OutermostSaves(t) ==
  \E k \in DOMAIN call[t] :
    /\ Restores(call[t][k]) /\ call[t][k].saved = asked
    /\ \A j \in DOMAIN call[t] :
         Restores(call[t][j]) /\ j # k => j > k /\ call[t][j].saved = FASTEST

\* A thread has set the fastest speed, for a seek or to open a file.
Fast(t) == \E k \in DOMAIN call[t] : call[t][k].op \in {"seeking", "opening"}

\* While nothing came between, one thread restores the speed, and until it does
\* the speed is the fastest.
SpeedRestored ==
  ~excused =>
    /\ \A t \in Threads : Restoring(t) => OutermostSaves(t)
    /\ \A t, u \in Threads : Restoring(t) /\ Restoring(u) => t = u
    /\ \A t \in Threads : \A k \in DOMAIN call[t] : call[t][k].op # "slowed"
    /\ \A t \in Threads : Fast(t) => speed = FASTEST
    /\ speed = asked \/ \E t \in Threads : Fast(t)

\* One or no reference.
LEMMA OneOrNone ==
  ASSUME NEW n, NEW S
  PROVE  Cardinality({n} \cap S) = IF n \in S THEN 1 ELSE 0
<1>1. CASE n \in S
  <2>1. {n} \cap S = {n}
    BY <1>1
  <2> QED BY <1>1, <2>1, FS_Singleton
<1>2. CASE n \notin S
  <2>1. {n} \cap S = {}
    BY <1>2
  <2> QED BY <1>2, <2>1, FS_EmptySet
<1> QED BY <1>1, <1>2

\* A node that is played, needed, held or being added has a reference for each.
Counted ==
  \A n \in Names :
    /\ locked[n] = "player" <=> LockedFor(n)
    /\ refs[n] = (IF n \in played THEN 1 ELSE 0) + (IF n \in needed THEN 1 ELSE 0)
                   + (IF n \in held THEN 1 ELSE 0) + (IF Adding(n) THEN 1 ELSE 0)

\* Counted is PlayedHeld without cardinalities of sets of at most one node.
LEMMA CountedIs == PlayedHeld <=> Counted
BY OneOrNone DEF PlayedHeld, Counted

\* Threads and speeds are told apart.
LEMMA Constants ==
  /\ \A t \in Threads : t # NoThread
  /\ \A a \in Apps : a # Playback /\ a \in Threads
  /\ Playback \in Threads /\ NoName \notin Names
  /\ \A t \in Threads : t \in Apps \/ t = Playback
  /\ FASTEST \in Speeds /\ 1 \in Speeds
  /\ FASTEST \in Nat /\ MaxCalls \in Nat /\ MaxNotified \in Nat
BY PlayerAssumption DEF FASTEST, Threads

\* The types of the variables about the speed, the lock and the thread.
PlayTypes ==
  /\ lock \in Threads \cup {NoThread}
  /\ speed \in Speeds /\ asked \in Speeds
  /\ call \in [Threads -> Seq(Frames)]
  /\ thread \in {"check", "wait", "read", "reading", "exited"}
  /\ stage \in {"alive", "joining", "joined", "destroyed"}
  /\ stage # "alive" => \A a \in Apps : call[a] = <<>>
  /\ event \in BOOLEAN /\ shutdown \in BOOLEAN /\ excused \in BOOLEAN
  /\ due \in BOOLEAN /\ cancelled \in BOOLEAN

\* The parts of the invariant about them.
PlayInv ==
  /\ PlayTypes /\ Reading /\ LockHeld /\ SourceOutermost /\ SeekFast /\ SpeedRestored
  /\ ThreadGone

NodeInv ==
  /\ notice \in [by : Threads, node : Names, at : {"need", "lock", "list", "unlist"}] \cup {NoNotice}
  /\ notice.at = "unlist" /\ stage # "destroyed" => notice.node \in played
  /\ notice.at \in {"need", "lock", "list"} => notice.node \notin played
  /\ notice.at = "need" => notice.node \notin needed
  /\ played \subseteq Names /\ needed \subseteq Names /\ held \subseteq Names
  /\ refs \in [Names -> Nat] /\ locked \in [Names -> {"no", "player", "app"}]
  /\ Counted

BoundsOK == calls \in 0..MaxCalls /\ notified \in 0..MaxNotified

IInv == PlayInv /\ NodeInv /\ BoundsOK

\* The invariant gives the four properties that the theorems are about.
LEMMA IInvImplies == IInv => TypeOK /\ SpeedKept /\ PlayedHeld /\ ThreadGone
<1> SUFFICES ASSUME IInv PROVE TypeOK /\ SpeedKept /\ PlayedHeld /\ ThreadGone
  OBVIOUS
<1>1. TypeOK
  BY DEF IInv, PlayInv, PlayTypes, NodeInv, BoundsOK, TypeOK
<1>2. SpeedKept
  <2>1. \A t \in Threads : \A k \in DOMAIN call[t] : call[t][k].op = "seeking" => speed = FASTEST
    BY DEF IInv, PlayInv, SeekFast
  <2>2. ASSUME ~excused, speed # asked
        PROVE  \E t \in Threads : \E k \in DOMAIN call[t] :
                 Restores(call[t][k]) /\ call[t][k].saved = asked
    <3>1. PICK t \in Threads : Fast(t)
      BY <2>2 DEF IInv, PlayInv, SpeedRestored
    <3>2. Restoring(t)
      BY <3>1 DEF Fast, Restoring, Restores
    <3>3. OutermostSaves(t)
      BY <2>2, <3>2 DEF IInv, PlayInv, SpeedRestored
    <3> QED BY <3>3 DEF OutermostSaves
  <2> QED BY <2>1, <2>2 DEF SpeedKept
<1> QED BY <1>1, <1>2, CountedIs DEF IInv, PlayInv, NodeInv
-----------------------------------------------------------------------------
\* A call is entered.
LEMMA Entered ==
  ASSUME PlayTypes, NEW t \in Threads, NEW op, Enter(t, op),
         [op |-> op, saved |-> speed] \in Frames
  PROVE  /\ call' \in [Threads -> Seq(Frames)]
         /\ \A u \in Threads : u # t => call'[u] = call[u]
         /\ Len(call[t]) \in Nat
         /\ DOMAIN call[t] = 1..Len(call[t]) /\ DOMAIN call'[t] = 1..(Len(call[t]) + 1)
         /\ Len(call'[t]) = Len(call[t]) + 1
         /\ \A k \in 1..Len(call[t]) : call'[t][k] = call[t][k]
         /\ call'[t][Len(call[t]) + 1] = [op |-> op, saved |-> speed]
         /\ call'[t] # <<>>
<1> DEFINE f == [op |-> op, saved |-> speed]
           s == call[t]
<1>1. s \in Seq(Frames) /\ f \in Frames
  BY DEF PlayTypes
<1>2. call' = [call EXCEPT ![t] = Append(s, f)]
  BY DEF Enter
<1>3. /\ Append(s, f) \in Seq(Frames) /\ Append(s, f) # <<>>
      /\ Len(Append(s, f)) = Len(s) + 1
      /\ \A k \in 1..Len(s) : Append(s, f)[k] = s[k]
      /\ Append(s, f)[Len(s) + 1] = f
  <2> HIDE DEF f, s
  <2> QED BY <1>1, AppendProperties
<1>4. call'[t] = Append(s, f) /\ \A u \in Threads : u # t => call'[u] = call[u]
  BY <1>2 DEF PlayTypes
<1>5. call' \in [Threads -> Seq(Frames)]
  BY <1>2, <1>3 DEF PlayTypes
<1>6. Len(s) \in Nat /\ DOMAIN s = 1..Len(s) /\ DOMAIN Append(s, f) = 1..(Len(s) + 1)
  <2> HIDE DEF f, s
  <2> QED BY <1>1, <1>3
<1> QED BY <1>3, <1>4, <1>5, <1>6

\* A call is left.
LEMMA Left ==
  ASSUME PlayTypes, NEW t \in Threads, call[t] # <<>>, Leave(t)
  PROVE  /\ call' \in [Threads -> Seq(Frames)]
         /\ \A u \in Threads : u # t => call'[u] = call[u]
         /\ Len(call[t]) \in Nat \ {0}
         /\ DOMAIN call[t] = 1..Len(call[t]) /\ DOMAIN call'[t] = 1..(Len(call[t]) - 1)
         /\ Len(call'[t]) = Len(call[t]) - 1
         /\ \A k \in 1..(Len(call[t]) - 1) : call'[t][k] = call[t][k]
         /\ Last(call[t]) = call[t][Len(call[t])] /\ Last(call[t]) \in Frames
         /\ DOMAIN Front(call[t]) = 1..(Len(call[t]) - 1)
         /\ Len(call[t]) = 1 => call'[t] = <<>>
         /\ Len(call[t]) # 1 => call'[t] # <<>>
<1> DEFINE s == call[t]
           f == SubSeq(s, 1, Len(s) - 1)
<1>1. s \in Seq(Frames) /\ s # <<>>
  BY DEF PlayTypes
<1>2. call' = [call EXCEPT ![t] = f]
  BY DEF Leave, Front
<1>3. Len(s) \in Nat \ {0} /\ DOMAIN s = 1..Len(s) /\ \A i \in 1..Len(s) : s[i] \in Frames
  <2> HIDE DEF s
  <2>1. Len(s) \in Nat /\ DOMAIN s = 1..Len(s) /\ \A i \in 1..Len(s) : s[i] \in Frames
    BY <1>1
  <2>2. Len(s) # 0
    BY <1>1, EmptySeq
  <2> QED BY <2>1, <2>2
<1>4. /\ f \in Seq(Frames) /\ Len(f) = Len(s) - 1
      /\ \A i \in 1..(Len(s) - 1) : f[i] = s[i]
  <2> HIDE DEF s
  <2>1. \A i \in 1..(Len(s) - 1) : s[i] \in Frames
    BY <1>3
  <2>2. Len(s) - 1 \in Int /\ 1 \in Int /\ (1 <= Len(s) - 1 \/ Len(s) - 1 = 0)
    BY <1>3
  <2>3. /\ SubSeq(s, 1, Len(s) - 1) \in Seq(Frames)
        /\ Len(SubSeq(s, 1, Len(s) - 1)) = IF 1 <= Len(s) - 1 THEN (Len(s) - 1) - 1 + 1 ELSE 0
        /\ \A i \in 1..((Len(s) - 1) - 1 + 1) : SubSeq(s, 1, Len(s) - 1)[i] = s[1 + i - 1]
    BY <2>1, <2>2, SubSeqProperties
  <2> QED BY <2>2, <2>3, <1>3
<1>5. DOMAIN f = 1..(Len(s) - 1) /\ (Len(s) = 1 => f = <<>>) /\ (Len(s) # 1 => f # <<>>)
  <2> HIDE DEF s, f
  <2> QED BY <1>3, <1>4, EmptySeq
<1>6. call'[t] = f /\ \A u \in Threads : u # t => call'[u] = call[u]
  BY <1>2 DEF PlayTypes
<1>7. call' \in [Threads -> Seq(Frames)]
  BY <1>2, <1>4 DEF PlayTypes
<1>8. Last(s) = s[Len(s)] /\ Last(s) \in Frames /\ Front(s) = f
  BY <1>3 DEF Last, Front
<1> QED BY <1>3, <1>4, <1>5, <1>6, <1>7, <1>8
-----------------------------------------------------------------------------
\* Slowing the seeks of a thread down changes neither what its calls hold nor
\* what they restore.
LEMMA Slowed ==
  ASSUME NEW s \in Seq(Frames)
  PROVE  /\ Slow(s) \in Seq(Frames) /\ DOMAIN Slow(s) = DOMAIN s /\ Len(Slow(s)) = Len(s)
         /\ s = <<>> <=> Slow(s) = <<>>
         /\ \A k \in DOMAIN s :
              /\ Locks(Slow(s)[k]) <=> Locks(s[k])
              /\ Restores(Slow(s)[k]) <=> Restores(s[k])
              /\ Slow(s)[k].op # "seeking"
              /\ s[k].op # "seeking" => Slow(s)[k] = s[k]
<1>1. Len(s) \in Nat /\ DOMAIN s = 1..Len(s) /\ \A k \in 1..Len(s) : s[k] \in Frames
  OBVIOUS
<1>2. Slow(s) = [k \in 1..Len(s) |->
                  IF s[k].op = "seeking" THEN [s[k] EXCEPT !.op = "slowed"] ELSE s[k]]
  BY <1>1 DEF Slow
<1>3. \A k \in 1..Len(s) : Slow(s)[k] \in Frames
  BY <1>1, <1>2 DEF Frames
<1>4. Slow(s) \in Seq(Frames)
  BY <1>1, <1>2, <1>3
<1>5. DOMAIN Slow(s) = 1..Len(s)
  BY <1>2
<1>6. Len(Slow(s)) = Len(s)
  BY <1>1, <1>4, <1>5
<1>7. \A k \in 1..Len(s) :
        /\ Locks(Slow(s)[k]) <=> Locks(s[k])
        /\ Restores(Slow(s)[k]) <=> Restores(s[k])
        /\ Slow(s)[k].op # "seeking"
        /\ s[k].op # "seeking" => Slow(s)[k] = s[k]
  BY <1>1, <1>2 DEF Frames, Locks, Restores
<1>8. s = <<>> <=> Slow(s) = <<>>
  BY <1>4, <1>6, EmptySeq
<1> QED BY <1>1, <1>4, <1>5, <1>6, <1>7, <1>8

\* The calls of a thread are made of frames.
LEMMA FramesOf ==
  ASSUME PlayTypes, NEW t \in Threads
  PROVE  /\ call[t] \in Seq(Frames) /\ Len(call[t]) \in Nat /\ DOMAIN call[t] = 1..Len(call[t])
         /\ \A k \in DOMAIN call[t] : call[t][k] \in Frames
         /\ call[t] # <<>> => Len(call[t]) # 0 /\ Last(call[t]) = call[t][Len(call[t])]
<1>1. call[t] \in Seq(Frames)
  BY DEF PlayTypes
<1>2. Len(call[t]) \in Nat /\ DOMAIN call[t] = 1..Len(call[t])
  BY <1>1
<1>3. \A k \in DOMAIN call[t] : call[t][k] \in Frames
  BY <1>1, <1>2
<1>4. call[t] # <<>> => Len(call[t]) # 0
  BY <1>1, EmptySeq
<1> QED BY <1>1, <1>2, <1>3, <1>4 DEF Last

\* A thread that gets the lock is the only one that holds it.
LEMMA Exclusive ==
  ASSUME LockHeld, NEW t \in Threads, CanLock(t)
  PROVE  \A u \in Threads : u # t => \A k \in DOMAIN call[u] : ~Locks(call[u][k])
BY Constants DEF LockHeld, CanLock

\* A thread that begins a call: the application in a living player, or a callback
\* in a call that has gone beyond its start.
LEMMA Callable ==
  ASSUME PlayInv, NEW t \in Threads, Calls(t)
  PROVE  /\ t \in Apps => stage = "alive"
         /\ t = Playback => call[Playback] # <<>>
         /\ call[t] # <<>> => call[t][Len(call[t])].op # "starting"
<1>1. t = Playback => call[Playback] # <<>>
  BY Constants DEF Calls, CalledBack
<1>2. t \in Apps => stage = "alive"
  BY DEF Calls, CalledBack, PlayInv, PlayTypes
<1>3. call[t] # <<>> => call[t][Len(call[t])].op # "starting"
  BY DEF Calls, CalledBack, Last
<1> QED BY <1>1, <1>2, <1>3

\* The setting of the speed keeps the invariant.
LEMMA SetSpeedPlay ==
  ASSUME PlayInv, NEW t \in Threads, NEW v \in Speeds, SetPlaybackSpeed(t, v)
  PROVE  PlayInv'
<1> USE Constants
<1> DEFINE s == call[t]
<1>1. /\ CanLock(t) /\ speed' = v /\ asked' = v
      /\ excused' = \E u \in Threads : Restoring(u)
      /\ call' = [call EXCEPT ![t] = Slow(s)]
      /\ UNCHANGED <<lock, thread, event, shutdown, stage, due, cancelled>>
  BY DEF SetPlaybackSpeed, threadVars
<1>2. PlayTypes /\ Reading /\ LockHeld /\ SourceOutermost /\ SeekFast /\ ThreadGone
  BY DEF PlayInv
<1>3. s \in Seq(Frames) /\ Len(s) \in Nat /\ DOMAIN s = 1..Len(s) /\ \A k \in DOMAIN s : s[k] \in Frames
  BY <1>2, FramesOf
<1>4. /\ Slow(s) \in Seq(Frames) /\ DOMAIN Slow(s) = DOMAIN s /\ Len(Slow(s)) = Len(s)
      /\ s = <<>> <=> Slow(s) = <<>>
      /\ \A k \in DOMAIN s :
           /\ Locks(Slow(s)[k]) <=> Locks(s[k])
           /\ Restores(Slow(s)[k]) <=> Restores(s[k])
           /\ Slow(s)[k].op # "seeking"
           /\ s[k].op # "seeking" => Slow(s)[k] = s[k]
  <2> HIDE DEF s
  <2> QED BY <1>3, Slowed
<1>5. call'[t] = Slow(s) /\ \A u \in Threads : u # t => call'[u] = call[u]
  BY <1>1, <1>2 DEF PlayTypes
<1>6. PlayTypes'
  <2>1. call' \in [Threads -> Seq(Frames)]
    BY <1>1, <1>2, <1>4 DEF PlayTypes
  <2>2. stage' # "alive" => \A a \in Apps : call'[a] = <<>>
    BY <1>1, <1>2, <1>4, <1>5 DEF PlayTypes
  <2>3. excused' \in BOOLEAN
    BY <1>1
  <2> QED BY <1>1, <1>2, <2>1, <2>2, <2>3 DEF PlayTypes
<1>7. Reading'
  <2>1. call'[Playback] = <<>> <=> call[Playback] = <<>>
    BY <1>4, <1>5
  <2>2. ASSUME call[Playback] # <<>> PROVE call'[Playback][1].op = "reading"
    <3>1. call[Playback][1].op = "reading"
      BY <1>2, <2>2 DEF Reading
    <3>2. CASE t = Playback
      <4>1. 1 \in DOMAIN s
        BY <1>2, <1>3, <2>2, <3>2, FramesOf
      <4> QED BY <1>4, <1>5, <3>1, <3>2, <4>1
    <3> QED BY <1>5, <3>1, <3>2
  <2> QED BY <1>1, <1>2, <2>1, <2>2 DEF Reading
<1>8. LockHeld'
  <2>1. ASSUME NEW u \in Threads
        PROVE  (\E k \in DOMAIN call'[u] : Locks(call'[u][k])) <=> \E k \in DOMAIN call[u] : Locks(call[u][k])
    BY <1>4, <1>5
  <2> QED BY <1>1, <1>2, <2>1 DEF LockHeld
<1>9. SourceOutermost'
  <2>1. ASSUME NEW u \in Threads, NEW k \in DOMAIN call'[u], call'[u][k].op \in {"starting", "opening"}
        PROVE  k = 1 /\ (call'[u][k].op = "starting" => Len(call'[u]) = 1)
    <3>1. CASE u = t
      <4>1. k \in DOMAIN s /\ Slow(s)[k].op \in {"starting", "opening"}
        BY <1>4, <1>5, <2>1, <3>1
      <4>2. s[k].op # "seeking"
        <5>1. s[k].op = "seeking" => Slow(s)[k].op = "slowed"
          BY <4>1, <1>3 DEF Slow, Frames
        <5> QED BY <4>1, <5>1
      <4> QED BY <1>2, <1>4, <1>5, <3>1, <4>1, <4>2 DEF SourceOutermost
    <3> QED BY <1>2, <1>5, <2>1, <3>1 DEF SourceOutermost
  <2> QED BY <2>1 DEF SourceOutermost
<1>10. SeekFast'
  <2>1. ASSUME NEW u \in Threads, NEW k \in DOMAIN call'[u] PROVE call'[u][k].op # "seeking"
    <3>1. CASE u = t
      BY <1>4, <1>5, <3>1
    <3>2. CASE u # t
      BY <1>1, <1>2, <1>5, <3>2, Exclusive DEF Locks
    <3> QED BY <3>1, <3>2
  <2> QED BY <2>1 DEF SeekFast
<1>11. SpeedRestored'
  <2> SUFFICES ASSUME ~excused' PROVE SpeedRestored'
    BY DEF SpeedRestored
  <2>1. \A u \in Threads : ~Restoring(u)
    BY <1>1
  <2>2. ASSUME NEW u \in Threads, NEW k \in DOMAIN call'[u] PROVE ~Restores(call'[u][k])
    BY <1>4, <1>5, <2>1 DEF Restoring
  <2>3. \A u \in Threads : ~Restoring(u)' /\ ~Fast(u)'
    BY <2>2 DEF Restoring, Fast, Restores
  <2>4. \A u \in Threads : \A k \in DOMAIN call'[u] : call'[u][k].op # "slowed"
    BY <2>2 DEF Restores
  <2> QED BY <1>1, <2>3, <2>4 DEF SpeedRestored
<1>12. ThreadGone'
  BY <1>1, <1>2 DEF ThreadGone
<1> QED BY <1>6, <1>7, <1>8, <1>9, <1>10, <1>11, <1>12 DEF PlayInv

\* So does entering a seek.
LEMMA SeekPlay ==
  ASSUME PlayInv, NEW t \in Threads, Seek(t)
  PROVE  PlayInv'
<1> USE Constants
<1> DEFINE n == Len(call[t])
           f == [op |-> "seeking", saved |-> speed]
<1>1. /\ Calls(t) /\ CanLock(t) /\ lock' = t /\ Enter(t, "seeking") /\ speed' = FASTEST
      /\ excused' = (excused \/ \E u \in Threads \ {t} : Restoring(u))
      /\ UNCHANGED <<asked, thread, event, shutdown, stage, due, cancelled>>
  BY DEF Seek, threadVars
<1>2. PlayTypes /\ Reading /\ LockHeld /\ SourceOutermost /\ SeekFast /\ ThreadGone
  BY DEF PlayInv
<1>3. /\ call' \in [Threads -> Seq(Frames)]
      /\ \A u \in Threads : u # t => call'[u] = call[u]
      /\ n \in Nat /\ DOMAIN call[t] = 1..n /\ DOMAIN call'[t] = 1..(n + 1)
      /\ Len(call'[t]) = n + 1
      /\ \A k \in 1..n : call'[t][k] = call[t][k]
      /\ call'[t][n + 1] = f /\ call'[t] # <<>>
  <2>1. f \in Frames
    BY <1>2 DEF PlayTypes, Frames
  <2> QED BY <1>1, <1>2, <2>1, Entered
<1>4. /\ t \in Apps => stage = "alive"
      /\ t = Playback => call[Playback] # <<>>
      /\ call[t] # <<>> => call[t][n].op # "starting"
  BY <1>1, Callable
<1>5. \A u \in Threads : u # t => \A k \in DOMAIN call[u] : ~Locks(call[u][k])
  BY <1>1, <1>2, Exclusive
<1>6. /\ \A k \in DOMAIN call[t] : call[t][k] \in Frames
      /\ call[t] # <<>> => n # 0
  BY <1>2, FramesOf
<1> HIDE DEF n, f
<1>7. f.op = "seeking" /\ f.saved = speed /\ Restores(f) /\ Locks(f)
  BY DEF f, Restores, Locks
<1>8. PlayTypes'
  <2>1. stage' # "alive" => \A a \in Apps : call'[a] = <<>>
    BY <1>1, <1>2, <1>3, <1>4 DEF PlayTypes
  <2>2. lock' \in Threads \cup {NoThread} /\ speed' \in Speeds /\ excused' \in BOOLEAN
    BY <1>1, <1>2 DEF PlayTypes
  <2> QED BY <1>1, <1>2, <1>3, <2>1, <2>2 DEF PlayTypes
<1>9. Reading'
  <2>1. CASE t = Playback
    <3>1. 1 \in 1..n
      BY <1>3, <1>4, <1>6, <2>1
    <3> QED BY <1>1, <1>2, <1>3, <1>4, <2>1, <3>1 DEF Reading
  <2>2. CASE t # Playback
    BY <1>1, <1>2, <1>3, <2>2 DEF Reading
  <2> QED BY <2>1, <2>2
<1>10. LockHeld'
  <2>1. \E k \in DOMAIN call'[t] : Locks(call'[t][k])
    BY <1>3, <1>7
  <2>2. \A u \in Threads : u # t => lock' # u /\ \A k \in DOMAIN call'[u] : ~Locks(call'[u][k])
    BY <1>1, <1>3, <1>5
  <2> QED BY <1>1, <2>1, <2>2 DEF LockHeld
<1>11. SourceOutermost'
  <2>1. ASSUME NEW u \in Threads, NEW k \in DOMAIN call'[u], call'[u][k].op \in {"starting", "opening"}
        PROVE  k = 1 /\ (call'[u][k].op = "starting" => Len(call'[u]) = 1)
    <3>1. CASE u = t
      <4>1. k \in 1..n /\ call[t][k] = call'[t][k]
        BY <1>3, <1>7, <2>1, <3>1
      <4>2. k = 1 /\ (call[t][k].op = "starting" => n = 1)
        BY <1>2, <1>3, <2>1, <3>1, <4>1 DEF SourceOutermost, n
      <4>3. call[t] # <<>>
        BY <4>1, <1>3 DEF n
      <4> QED BY <1>4, <3>1, <4>1, <4>2, <4>3
    <3> QED BY <1>2, <1>3, <2>1, <3>1 DEF SourceOutermost
  <2> QED BY <2>1 DEF SourceOutermost
<1>12. SeekFast'
  <2>1. ASSUME NEW u \in Threads, NEW k \in DOMAIN call'[u], call'[u][k].op = "seeking",
               NEW j \in DOMAIN call'[u], j > k, Restores(call'[u][j])
        PROVE  call'[u][j].saved = FASTEST
    <3>1. u = t
      BY <1>3, <1>5, <2>1 DEF Locks
    <3>2. k \in 1..n /\ call[t][k].op = "seeking"
      BY <1>3, <2>1, <3>1
    <3>3. speed = FASTEST
      BY <1>2, <1>3, <3>2 DEF SeekFast
    <3>4. CASE j = n + 1
      BY <1>3, <1>7, <3>1, <3>3, <3>4
    <3>5. CASE j # n + 1
      <4>1. j \in 1..n /\ call'[t][j] = call[t][j]
        BY <1>3, <2>1, <3>1, <3>5
      <4> QED BY <1>2, <1>3, <2>1, <3>1, <3>2, <4>1 DEF SeekFast
    <3> QED BY <3>4, <3>5
  <2> QED BY <1>1, <2>1 DEF SeekFast
<1>13. SpeedRestored'
  <2> SUFFICES ASSUME ~excused' PROVE SpeedRestored'
    BY DEF SpeedRestored
  <2>1. ~excused /\ \A u \in Threads : u # t => ~Restoring(u)
    BY <1>1
  <2>2. \A u \in Threads : u # t => ~Restoring(u)'
    BY <1>3, <2>1 DEF Restoring
  <2>3. \A u \in Threads : \A k \in DOMAIN call'[u] : call'[u][k].op # "slowed"
    BY <1>3, <1>7, <2>1 DEF PlayInv, SpeedRestored
  <2>4. OutermostSaves(t)'
    <3>1. CASE Restoring(t)
      <4>1. PICK k \in DOMAIN call[t] :
              /\ Restores(call[t][k]) /\ call[t][k].saved = asked
              /\ \A j \in DOMAIN call[t] :
                   Restores(call[t][j]) /\ j # k => j > k /\ call[t][j].saved = FASTEST
        BY <2>1, <3>1 DEF PlayInv, SpeedRestored, OutermostSaves
      <4>2. call[t][k].op \in {"seeking", "opening"}
        <5>1. call[t][k].op # "slowed"
          BY <2>1 DEF PlayInv, SpeedRestored
        <5>2. call[t][k].op # "starting"
          <6>1. call[t][k].op = "starting" => k = 1 /\ n = 1
            BY <1>2 DEF SourceOutermost, n
          <6>2. call[t] # <<>>
            BY <1>3 DEF n
          <6> QED BY <1>4, <6>1, <6>2
        <5> QED BY <4>1, <5>1, <5>2 DEF Restores
      <4>3. speed = FASTEST
        BY <2>1, <4>2 DEF PlayInv, SpeedRestored, Fast
      <4>4. k \in DOMAIN call'[t] /\ k \in 1..n /\ call'[t][k] = call[t][k]
        BY <1>3
      <4>5. ASSUME NEW j \in DOMAIN call'[t], Restores(call'[t][j]), j # k
            PROVE  j > k /\ call'[t][j].saved = FASTEST
        <5>1. CASE j = n + 1
          BY <1>3, <1>7, <4>3, <4>4, <5>1
        <5>2. CASE j # n + 1
          <6>1. j \in 1..n /\ call'[t][j] = call[t][j]
            BY <1>3, <5>2
          <6> QED BY <1>3, <4>1, <4>5, <6>1
        <5> QED BY <5>1, <5>2
      <4> QED BY <1>1, <4>1, <4>4, <4>5 DEF OutermostSaves
    <3>2. CASE ~Restoring(t)
      <4>1. \A u \in Threads : ~Fast(u)
        BY <2>1, <3>2 DEF Fast, Restoring, Restores
      <4>2. speed = asked
        BY <2>1, <4>1 DEF PlayInv, SpeedRestored
      <4>3. \A j \in DOMAIN call'[t] : j # n + 1 => ~Restores(call'[t][j])
        BY <1>3, <3>2 DEF Restoring
      <4>4. n + 1 \in DOMAIN call'[t]
        BY <1>3
      <4> QED BY <1>1, <1>3, <1>7, <4>2, <4>3, <4>4 DEF OutermostSaves
    <3> QED BY <3>1, <3>2
  <2>5. Fast(t)'
    BY <1>3, <1>7 DEF Fast
  <2> QED BY <1>1, <2>2, <2>3, <2>4, <2>5 DEF SpeedRestored
<1>14. ThreadGone'
  BY <1>1, <1>2 DEF ThreadGone
<1> QED BY <1>8, <1>9, <1>10, <1>11, <1>12, <1>13, <1>14 DEF PlayInv

\* So does entering a read, by the application or by the playback thread.
LEMMA ReadEntered ==
  ASSUME PlayInv, NEW t \in Threads, CanLock(t), lock' = t, Enter(t, "reading"),
         UNCHANGED speedVars, call[t] # <<>> => call[t][Len(call[t])].op # "starting"
  PROVE  /\ call' \in [Threads -> Seq(Frames)] /\ LockHeld' /\ SourceOutermost' /\ SeekFast'
         /\ SpeedRestored'
         /\ call'[t] # <<>>
         /\ IF call[t] = <<>> THEN call'[t][1].op = "reading" ELSE call'[t][1] = call[t][1]
         /\ \A u \in Threads : u # t => call'[u] = call[u]
<1> USE Constants
<1> DEFINE n == Len(call[t])
           f == [op |-> "reading", saved |-> speed]
<1>2. PlayTypes /\ Reading /\ LockHeld /\ SourceOutermost /\ SeekFast /\ ThreadGone
  BY DEF PlayInv
<1>3. /\ call' \in [Threads -> Seq(Frames)]
      /\ \A u \in Threads : u # t => call'[u] = call[u]
      /\ n \in Nat /\ DOMAIN call[t] = 1..n /\ DOMAIN call'[t] = 1..(n + 1)
      /\ Len(call'[t]) = n + 1
      /\ \A k \in 1..n : call'[t][k] = call[t][k]
      /\ call'[t][n + 1] = f /\ call'[t] # <<>>
  <2>1. f \in Frames
    BY <1>2 DEF PlayTypes, Frames
  <2> QED BY <1>2, <2>1, Entered
<1>4. call[t] # <<>> => call[t][n].op # "starting"
  OBVIOUS
<1>5. \A u \in Threads : u # t => \A k \in DOMAIN call[u] : ~Locks(call[u][k])
  BY <1>2, Exclusive
<1>6. (call[t] # <<>> => n # 0) /\ (call[t] = <<>> => n = 0)
  BY <1>2, FramesOf
<1> HIDE DEF n, f
<1>7. f.op = "reading" /\ ~Restores(f) /\ Locks(f)
  BY DEF f, Restores, Locks
<1>8. speed' = speed /\ asked' = asked /\ excused' = excused
  BY DEF speedVars
<1>9. LockHeld'
  <2>1. \E k \in DOMAIN call'[t] : Locks(call'[t][k])
    BY <1>3, <1>7
  <2>2. \A u \in Threads : u # t => lock' # u /\ \A k \in DOMAIN call'[u] : ~Locks(call'[u][k])
    BY <1>3, <1>5
  <2> QED BY <2>1, <2>2 DEF LockHeld
<1>10. SourceOutermost'
  <2>1. ASSUME NEW u \in Threads, NEW k \in DOMAIN call'[u], call'[u][k].op \in {"starting", "opening"}
        PROVE  k = 1 /\ (call'[u][k].op = "starting" => Len(call'[u]) = 1)
    <3>1. CASE u = t
      <4>1. k \in 1..n /\ call[t][k] = call'[t][k]
        BY <1>3, <1>7, <2>1, <3>1
      <4>2. k = 1 /\ (call[t][k].op = "starting" => n = 1)
        BY <1>2, <1>3, <2>1, <3>1, <4>1 DEF SourceOutermost, n
      <4>3. call[t] # <<>>
        BY <4>1, <1>3 DEF n
      <4> QED BY <1>4, <3>1, <4>1, <4>2, <4>3
    <3> QED BY <1>2, <1>3, <2>1, <3>1 DEF SourceOutermost
  <2> QED BY <2>1 DEF SourceOutermost
<1>11. ASSUME NEW k \in DOMAIN call'[t], call'[t][k].op # "reading"
       PROVE  k \in DOMAIN call[t] /\ call'[t][k] = call[t][k]
  BY <1>3, <1>7, <1>11
<1>12. SeekFast'
  <2>1. ASSUME NEW u \in Threads, NEW k \in DOMAIN call'[u], call'[u][k].op = "seeking"
        PROVE  /\ speed' = FASTEST
               /\ \A j \in DOMAIN call'[u] : j > k /\ Restores(call'[u][j]) => call'[u][j].saved = FASTEST
    <3>1. CASE u = t
      <4>1. k \in DOMAIN call[t] /\ call[t][k].op = "seeking"
        BY <1>11, <2>1, <3>1
      <4>2. ASSUME NEW j \in DOMAIN call'[t], Restores(call'[t][j])
            PROVE  j \in DOMAIN call[t] /\ call'[t][j] = call[t][j]
        BY <1>11, <4>2 DEF Restores
      <4> QED BY <1>2, <1>8, <3>1, <4>1, <4>2 DEF SeekFast
    <3>2. CASE u # t
      BY <1>2, <1>3, <1>8, <2>1, <3>2 DEF SeekFast
    <3> QED BY <3>1, <3>2
  <2> QED BY <2>1 DEF SeekFast
<1>13. SpeedRestored'
  <2> SUFFICES ASSUME ~excused' PROVE SpeedRestored'
    BY DEF SpeedRestored
  <2>1. /\ \A u \in Threads : Restoring(u) => OutermostSaves(u)
        /\ \A u, w \in Threads : Restoring(u) /\ Restoring(w) => u = w
        /\ \A u \in Threads : \A k \in DOMAIN call[u] : call[u][k].op # "slowed"
        /\ \A u \in Threads : Fast(u) => speed = FASTEST
        /\ speed = asked \/ \E u \in Threads : Fast(u)
    BY <1>8 DEF PlayInv, SpeedRestored
  <2>2. ASSUME NEW u \in Threads PROVE (Restoring(u)' <=> Restoring(u)) /\ (Fast(u)' <=> Fast(u))
    <3>1. CASE u = t
      <4>1. \A k \in DOMAIN call[t] : k \in DOMAIN call'[t] /\ call'[t][k] = call[t][k]
        BY <1>3
      <4>2. Restoring(t) => Restoring(t)'
        BY <4>1 DEF Restoring
      <4>3. Fast(t) => Fast(t)'
        BY <4>1 DEF Fast
      <4>4. Restoring(t)' => Restoring(t)
        BY <1>11 DEF Restoring, Restores
      <4>5. Fast(t)' => Fast(t)
        BY <1>11 DEF Fast
      <4> QED BY <3>1, <4>2, <4>3, <4>4, <4>5
    <3>2. CASE u # t
      BY <1>3, <3>2 DEF Restoring, Fast
    <3> QED BY <3>1, <3>2
  <2>3. ASSUME NEW u \in Threads, OutermostSaves(u) PROVE OutermostSaves(u)'
    <3>1. PICK k \in DOMAIN call[u] :
            /\ Restores(call[u][k]) /\ call[u][k].saved = asked
            /\ \A j \in DOMAIN call[u] :
                 Restores(call[u][j]) /\ j # k => j > k /\ call[u][j].saved = FASTEST
      BY <2>3 DEF OutermostSaves
    <3>2. k \in DOMAIN call'[u] /\ call'[u][k] = call[u][k]
      BY <1>3
    <3>3. ASSUME NEW j \in DOMAIN call'[u], Restores(call'[u][j])
          PROVE  j \in DOMAIN call[u] /\ call'[u][j] = call[u][j]
      BY <1>3, <1>11, <3>3 DEF Restores
    <3> QED BY <1>8, <3>1, <3>2, <3>3 DEF OutermostSaves
  <2>4. \A u \in Threads : \A k \in DOMAIN call'[u] : call'[u][k].op # "slowed"
    BY <1>3, <1>7, <2>1
  <2> QED BY <1>8, <2>1, <2>2, <2>3, <2>4 DEF SpeedRestored
<1>14. IF call[t] = <<>> THEN call'[t][1].op = "reading" ELSE call'[t][1] = call[t][1]
  BY <1>3, <1>6, <1>7
<1> QED BY <1>3, <1>9, <1>10, <1>12, <1>13, <1>14

\* The application's read, and the playback thread's.
LEMMA ReadPlay ==
  ASSUME PlayInv, NEW t \in Threads, ReadNext(t) \/ (t = Playback /\ PlaybackReads)
  PROVE  PlayInv'
<1> USE Constants
<1>1. /\ CanLock(t) /\ lock' = t /\ Enter(t, "reading") /\ UNCHANGED speedVars
      /\ UNCHANGED <<event, shutdown, stage, cancelled>>
      /\ due' \in BOOLEAN
      /\ t \in Apps => stage = "alive"
      /\ call[t] # <<>> => call[t][Len(call[t])].op # "starting"
      /\ t = Playback => thread' = "reading"
      /\ t # Playback => thread' = thread
      /\ thread' = thread \/ (thread # "exited" /\ thread' # "exited")
      /\ thread' \in {"check", "wait", "read", "reading", "exited"}
  <2>1. CASE ReadNext(t)
    <3>1. t \in Apps => stage = "alive"
      BY <2>1, Callable DEF ReadNext
    <3>2. call[t] # <<>> => call[t][Len(call[t])].op # "starting"
      BY <2>1, Callable DEF ReadNext
    <3>3. t = Playback => thread = "reading"
      BY <2>1, Callable DEF ReadNext, PlayInv, Reading
    <3> QED BY <2>1, <3>1, <3>2, <3>3 DEF ReadNext, threadVars, PlayInv, PlayTypes
  <2>2. CASE t = Playback /\ PlaybackReads
    <3>1. call[t] = <<>>
      BY <2>2 DEF PlaybackReads, PlayInv, Reading
    <3> QED BY <2>2, <3>1 DEF PlaybackReads, CanLock, PlayInv, PlayTypes
  <2> QED BY <2>1, <2>2
<1>2. /\ call' \in [Threads -> Seq(Frames)] /\ LockHeld' /\ SourceOutermost' /\ SeekFast'
      /\ SpeedRestored'
      /\ call'[t] # <<>>
      /\ IF call[t] = <<>> THEN call'[t][1].op = "reading" ELSE call'[t][1] = call[t][1]
      /\ \A u \in Threads : u # t => call'[u] = call[u]
  BY <1>1, ReadEntered
<1>3. PlayTypes'
  <2>1. stage' # "alive" => \A a \in Apps : call'[a] = <<>>
    BY <1>1, <1>2 DEF PlayInv, PlayTypes
  <2>2. lock' \in Threads \cup {NoThread}
    BY <1>1
  <2> QED BY <1>1, <1>2, <2>1, <2>2 DEF PlayInv, PlayTypes, speedVars
<1>4. Reading'
  <2>1. CASE t = Playback
    BY <1>1, <1>2, <2>1 DEF PlayInv, Reading
  <2>2. CASE t # Playback
    BY <1>1, <1>2, <2>2 DEF PlayInv, Reading
  <2> QED BY <2>1, <2>2
<1>5. ThreadGone'
  BY <1>1 DEF PlayInv, ThreadGone
<1> QED BY <1>2, <1>3, <1>4, <1>5 DEF PlayInv

\* So does the beginning of a SetSource.
LEMMA SourcePlay ==
  ASSUME PlayInv, NEW t \in Threads, SetSource(t)
  PROVE  PlayInv'
<1> USE Constants
<1> DEFINE f == [op |-> "starting", saved |-> speed]
<1>1. /\ call[t] = <<>> /\ Enter(t, "starting") /\ Calls(t)
      /\ excused' = (excused \/ \E u \in Threads : Restoring(u))
      /\ UNCHANGED <<lock, speed, asked, thread, event, shutdown, stage, due, cancelled>>
  BY DEF SetSource, threadVars
<1>2. PlayTypes /\ Reading /\ LockHeld /\ SourceOutermost /\ SeekFast /\ ThreadGone
  BY DEF PlayInv
<1>3. /\ call' \in [Threads -> Seq(Frames)]
      /\ \A u \in Threads : u # t => call'[u] = call[u]
      /\ DOMAIN call'[t] = {1} /\ Len(call'[t]) = 1 /\ call'[t][1] = f /\ call'[t] # <<>>
  <2>1. f \in Frames
    BY <1>2 DEF PlayTypes, Frames
  <2>2. Len(call[t]) = 0
    BY <1>1
  <2>3. /\ call' \in [Threads -> Seq(Frames)]
        /\ \A u \in Threads : u # t => call'[u] = call[u]
        /\ Len(call[t]) \in Nat
        /\ DOMAIN call[t] = 1..Len(call[t]) /\ DOMAIN call'[t] = 1..(Len(call[t]) + 1)
        /\ Len(call'[t]) = Len(call[t]) + 1
        /\ \A k \in 1..Len(call[t]) : call'[t][k] = call[t][k]
        /\ call'[t][Len(call[t]) + 1] = f
        /\ call'[t] # <<>>
    BY <1>1, <1>2, <2>1, Entered
  <2> QED BY <2>2, <2>3
<1>4. t \in Apps /\ t # Playback /\ stage = "alive"
  BY <1>1, Callable
<1> HIDE DEF f
<1>5. f.op = "starting" /\ f.saved = speed /\ ~Locks(f) /\ Restores(f)
  BY DEF f, Locks, Restores
<1>6. PlayTypes'
  <2>1. excused' \in BOOLEAN
    BY <1>1, <1>2 DEF PlayTypes
  <2> QED BY <1>1, <1>2, <1>3, <1>4, <2>1 DEF PlayTypes
<1>7. Reading'
  BY <1>1, <1>2, <1>3, <1>4 DEF Reading
<1>8. LockHeld'
  <2>1. ~\E k \in DOMAIN call[t] : Locks(call[t][k])
    BY <1>1
  <2>2. ~\E k \in DOMAIN call'[t] : Locks(call'[t][k])
    BY <1>3, <1>5
  <2> QED BY <1>1, <1>2, <1>3, <2>1, <2>2 DEF LockHeld
<1>9. SourceOutermost'
  <2>1. ASSUME NEW u \in Threads, NEW k \in DOMAIN call'[u]
        PROVE  /\ call'[u][k].op \in {"starting", "opening"} => k = 1
               /\ call'[u][k].op = "starting" => Len(call'[u]) = 1
    BY <1>2, <1>3 DEF SourceOutermost
  <2> QED BY <2>1 DEF SourceOutermost
<1>10. SeekFast'
  <2>1. ASSUME NEW u \in Threads, NEW k \in DOMAIN call'[u], call'[u][k].op = "seeking"
        PROVE  u # t
    BY <1>3, <1>5, <2>1
  <2> QED BY <1>1, <1>2, <1>3, <2>1 DEF SeekFast
<1>11. SpeedRestored'
  <2> SUFFICES ASSUME ~excused' PROVE SpeedRestored'
    BY DEF SpeedRestored
  <2>1. ~excused /\ \A u \in Threads : ~Restoring(u)
    BY <1>1
  <2>2. \A u \in Threads : ~Fast(u)
    BY <2>1 DEF Fast, Restoring, Restores
  <2>3. speed = asked
    BY <2>1, <2>2 DEF PlayInv, SpeedRestored
  <2>4. \A u \in Threads : u # t => ~Restoring(u)'
    BY <1>3, <2>1 DEF Restoring
  <2>5. \A u \in Threads : ~Fast(u)'
    BY <1>3, <1>5, <2>2 DEF Fast
  <2>6. OutermostSaves(t)'
    BY <1>1, <1>3, <1>5, <2>3 DEF OutermostSaves
  <2>7. \A u \in Threads : \A k \in DOMAIN call'[u] : call'[u][k].op # "slowed"
    BY <1>3, <1>5, <2>1 DEF PlayInv, SpeedRestored
  <2> QED BY <1>1, <2>3, <2>4, <2>5, <2>6, <2>7 DEF SpeedRestored
<1>12. ThreadGone'
  BY <1>1, <1>2 DEF ThreadGone
<1> QED BY <1>6, <1>7, <1>8, <1>9, <1>10, <1>11, <1>12 DEF PlayInv

\* Leaving a call keeps where sources are opened, and the playback thread's read
\* unless it is the call that is left.
LEMMA LeftSame ==
  ASSUME PlayInv, NEW t \in Threads, call[t] # <<>>, Leave(t)
  PROVE  /\ SourceOutermost'
         /\ \A u \in Threads : u # t \/ Len(call[t]) > 1 =>
              (call'[u] = <<>> <=> call[u] = <<>>) /\ (call[u] # <<>> => call'[u][1] = call[u][1])
         /\ \A u \in Threads : call[u] = <<>> => call'[u] = <<>>
         /\ \A u \in Threads : \A k \in DOMAIN call'[u] : k \in DOMAIN call[u] /\ call'[u][k] = call[u][k]
         /\ \A k \in DOMAIN call[t] : k # Len(call[t]) => k \in DOMAIN call'[t]
<1> DEFINE n == Len(call[t])
<1>1. /\ call' \in [Threads -> Seq(Frames)]
      /\ \A u \in Threads : u # t => call'[u] = call[u]
      /\ n \in Nat \ {0}
      /\ DOMAIN call[t] = 1..n /\ DOMAIN call'[t] = 1..(n - 1)
      /\ Len(call'[t]) = n - 1
      /\ \A k \in 1..(n - 1) : call'[t][k] = call[t][k]
      /\ Last(call[t]) = call[t][n] /\ Last(call[t]) \in Frames
      /\ DOMAIN Front(call[t]) = 1..(n - 1)
      /\ n = 1 => call'[t] = <<>>
      /\ n # 1 => call'[t] # <<>>
  BY Left DEF PlayInv
<1>2. ASSUME NEW u \in Threads, NEW k \in DOMAIN call'[u]
      PROVE  k \in DOMAIN call[u] /\ call'[u][k] = call[u][k]
  <2>1. CASE u = t
    <3>1. k \in 1..(n - 1)
      BY <1>1, <2>1
    <3>2. k \in 1..n
      BY <1>1, <3>1
    <3> QED BY <1>1, <2>1, <3>1, <3>2
  <2>2. CASE u # t
    <3> HIDE DEF n
    <3> QED BY <1>1, <2>2
  <2> QED BY <2>1, <2>2
<1>3. SourceOutermost'
  <2>1. ASSUME NEW u \in Threads, NEW k \in DOMAIN call'[u]
        PROVE  /\ call'[u][k].op \in {"starting", "opening"} => k = 1
               /\ call'[u][k].op = "starting" => Len(call'[u]) = 1
    <3>1. /\ call[u][k].op \in {"starting", "opening"} => k = 1
          /\ call[u][k].op = "starting" => Len(call[u]) = 1
      BY <1>2 DEF PlayInv, SourceOutermost
    <3>2. u = t => Len(call[u]) # 1
      BY <1>1
    <3> QED BY <1>1, <1>2, <3>1, <3>2
  <2> QED BY <2>1 DEF SourceOutermost
<1>4. ASSUME NEW u \in Threads, u # t \/ n > 1
      PROVE  (call'[u] = <<>> <=> call[u] = <<>>) /\ (call[u] # <<>> => call'[u][1] = call[u][1])
  <2>1. u = t => 1 \in 1..(n - 1)
    BY <1>1, <1>4
  <2> QED BY <1>1, <1>4, <2>1
<1>5. \A u \in Threads : call[u] = <<>> => call'[u] = <<>>
  BY <1>1
<1>6. \A k \in DOMAIN call[t] : k # n => k \in DOMAIN call'[t]
  BY <1>1
<1> QED BY <1>2, <1>3, <1>4, <1>5, <1>6

\* The lock is given back with the outermost call that took it.
LEMMA LockLeft ==
  ASSUME PlayInv, NEW t \in Threads, call[t] # <<>>, Leave(t), Unlock(t), lock = t
  PROVE  LockHeld' /\ lock' \in Threads \cup {NoThread}
<1> USE Constants
<1> DEFINE n == Len(call[t])
<1>1. /\ \A u \in Threads : u # t => call'[u] = call[u]
      /\ DOMAIN call'[t] = 1..(n - 1)
      /\ \A k \in 1..(n - 1) : call'[t][k] = call[t][k]
      /\ DOMAIN Front(call[t]) = 1..(n - 1)
  BY Left DEF PlayInv
<1>2. lock' = IF \E k \in 1..(n - 1) : Locks(call[t][k]) THEN t ELSE NoThread
  BY <1>1 DEF Unlock
<1>3. \A u \in Threads : u # t => ~\E k \in DOMAIN call'[u] : Locks(call'[u][k])
  BY <1>1 DEF PlayInv, LockHeld
<1>4. (\E k \in DOMAIN call'[t] : Locks(call'[t][k])) <=> \E k \in 1..(n - 1) : Locks(call[t][k])
  BY <1>1
<1>5. \A u \in Threads : u # t => lock' # u
  BY <1>2
<1>6. lock' = t <=> \E k \in 1..(n - 1) : Locks(call[t][k])
  BY <1>2
<1> QED BY <1>2, <1>3, <1>4, <1>5, <1>6 DEF LockHeld

\* Leaving a read changes no speed.
LEMMA ReadLeft ==
  ASSUME PlayInv, NEW t \in Threads, call[t] # <<>>, Last(call[t]).op = "reading", Leave(t),
         UNCHANGED speedVars
  PROVE  SeekFast' /\ SpeedRestored'
<1> DEFINE n == Len(call[t])
<1>1. /\ \A u \in Threads : u # t => call'[u] = call[u]
      /\ call[t][n].op = "reading"
  BY Left DEF PlayInv
<1>2. /\ \A u \in Threads : \A k \in DOMAIN call'[u] : k \in DOMAIN call[u] /\ call'[u][k] = call[u][k]
      /\ \A k \in DOMAIN call[t] : k # n => k \in DOMAIN call'[t]
  BY LeftSame
<1>3. speed' = speed /\ asked' = asked /\ excused' = excused
  BY DEF speedVars
<1>4. SeekFast'
  BY <1>2, <1>3 DEF PlayInv, SeekFast
<1>5. ASSUME NEW u \in Threads, NEW k \in DOMAIN call[u], call[u][k].op # "reading"
      PROVE  k \in DOMAIN call'[u] /\ call'[u][k] = call[u][k]
  <2>1. u = t => k # n
    BY <1>1, <1>5
  <2> QED BY <1>1, <1>2, <2>1
<1>6. SpeedRestored'
  <2> SUFFICES ASSUME ~excused' PROVE SpeedRestored'
    BY DEF SpeedRestored
  <2>1. /\ \A u \in Threads : Restoring(u) => OutermostSaves(u)
        /\ \A u, w \in Threads : Restoring(u) /\ Restoring(w) => u = w
        /\ \A u \in Threads : \A k \in DOMAIN call[u] : call[u][k].op # "slowed"
        /\ \A u \in Threads : Fast(u) => speed = FASTEST
        /\ speed = asked \/ \E u \in Threads : Fast(u)
    BY <1>3 DEF PlayInv, SpeedRestored
  <2>2. ASSUME NEW u \in Threads PROVE (Restoring(u)' => Restoring(u)) /\ (Fast(u)' => Fast(u))
    BY <1>2 DEF Restoring, Fast
  <2>3. ASSUME NEW u \in Threads, Fast(u) PROVE Fast(u)'
    BY <1>5, <2>3 DEF Fast
  <2>4. ASSUME NEW u \in Threads, OutermostSaves(u) PROVE OutermostSaves(u)'
    <3>1. PICK k \in DOMAIN call[u] :
            /\ Restores(call[u][k]) /\ call[u][k].saved = asked
            /\ \A j \in DOMAIN call[u] :
                 Restores(call[u][j]) /\ j # k => j > k /\ call[u][j].saved = FASTEST
      BY <2>4 DEF OutermostSaves
    <3>2. k \in DOMAIN call'[u] /\ call'[u][k] = call[u][k]
      BY <1>5, <3>1 DEF Restores
    <3> QED BY <1>2, <1>3, <3>1, <3>2 DEF OutermostSaves
  <2>5. \A u \in Threads : \A k \in DOMAIN call'[u] : call'[u][k].op # "slowed"
    BY <1>2, <2>1
  <2> QED BY <1>3, <2>1, <2>2, <2>3, <2>4, <2>5 DEF SpeedRestored
<1> QED BY <1>4, <1>6

\* A read ends.
LEMMA ReadEndsPlay ==
  ASSUME PlayInv, NEW t \in Threads, ReadEnds(t)
  PROVE  PlayInv'
<1> USE Constants
<1>1. /\ call[t] # <<>> /\ Last(call[t]).op = "reading" /\ (t = Playback => Len(call[t]) > 1)
      /\ Unlock(t) /\ Leave(t) /\ UNCHANGED speedVars
      /\ UNCHANGED <<thread, event, shutdown, stage, due, cancelled>>
  BY DEF ReadEnds, Ends, threadVars
<1>2. SeekFast' /\ SpeedRestored'
  BY <1>1, ReadLeft
<1>3. lock = t
  <2>1. call[t][Len(call[t])].op = "reading" /\ Len(call[t]) \in DOMAIN call[t]
    BY <1>1, Left DEF PlayInv
  <2> QED BY <2>1 DEF PlayInv, LockHeld, Locks
<1>4. LockHeld' /\ lock' \in Threads \cup {NoThread}
  BY <1>1, <1>3, LockLeft
<1>5. /\ SourceOutermost'
      /\ \A u \in Threads : u # t \/ Len(call[t]) > 1 =>
           (call'[u] = <<>> <=> call[u] = <<>>) /\ (call[u] # <<>> => call'[u][1] = call[u][1])
      /\ \A u \in Threads : call[u] = <<>> => call'[u] = <<>>
  BY <1>1, LeftSame
<1>6. call' \in [Threads -> Seq(Frames)]
  BY <1>1, Left DEF PlayInv
<1>7. PlayTypes'
  BY <1>1, <1>4, <1>5, <1>6 DEF PlayInv, PlayTypes, speedVars
<1>8. Reading'
  BY <1>1, <1>5 DEF PlayInv, Reading
<1>9. ThreadGone'
  BY <1>1 DEF PlayInv, ThreadGone
<1> QED BY <1>2, <1>4, <1>5, <1>7, <1>8, <1>9 DEF PlayInv

\* The playback thread's read ends.
LEMMA PlaybackReadPlay ==
  ASSUME PlayInv, PlaybackRead
  PROVE  PlayInv'
<1> USE Constants
<1>1. /\ thread = "reading" /\ Len(call[Playback]) = 1 /\ lock' = NoThread /\ thread' = "check"
      /\ Leave(Playback) /\ UNCHANGED speedVars
      /\ UNCHANGED <<event, shutdown, stage, due, cancelled>>
  BY DEF PlaybackRead
<1>2. call[Playback] # <<>> /\ call[Playback][1].op = "reading"
  BY <1>1 DEF PlayInv, Reading
<1>3. /\ call' \in [Threads -> Seq(Frames)]
      /\ \A u \in Threads : u # Playback => call'[u] = call[u]
      /\ DOMAIN call[Playback] = 1..1 /\ DOMAIN Front(call[Playback]) = 1..0
      /\ Last(call[Playback]) = call[Playback][1]
      /\ call'[Playback] = <<>>
  <2> DEFINE n == Len(call[Playback])
  <2>1. /\ call' \in [Threads -> Seq(Frames)]
        /\ \A u \in Threads : u # Playback => call'[u] = call[u]
        /\ DOMAIN call[Playback] = 1..n
        /\ Last(call[Playback]) = call[Playback][n]
        /\ DOMAIN Front(call[Playback]) = 1..(n - 1)
        /\ n = 1 => call'[Playback] = <<>>
    BY <1>1, <1>2, Left DEF PlayInv
  <2> QED BY <1>1, <2>1
<1>4. SeekFast' /\ SpeedRestored'
  BY <1>1, <1>2, <1>3, ReadLeft
<1>5. lock = Playback
  BY <1>2, <1>3 DEF PlayInv, LockHeld, Locks
<1>6. Unlock(Playback)
  BY <1>1, <1>3 DEF Unlock
<1>7. LockHeld' /\ lock' \in Threads \cup {NoThread}
  BY <1>1, <1>2, <1>5, <1>6, LockLeft
<1>8. SourceOutermost' /\ \A u \in Threads : call[u] = <<>> => call'[u] = <<>>
  BY <1>1, <1>2, LeftSame
<1>9. PlayTypes'
  BY <1>1, <1>3, <1>7, <1>8 DEF PlayInv, PlayTypes, speedVars
<1>10. Reading'
  BY <1>1, <1>3 DEF Reading
<1>11. ThreadGone'
  BY <1>1 DEF PlayInv, ThreadGone
<1> QED BY <1>4, <1>7, <1>8, <1>9, <1>10, <1>11 DEF PlayInv

\* A seek ends, and puts back the speed that it found.
LEMMA SeekEndsPlay ==
  ASSUME PlayInv, NEW t \in Threads, SeekEnds(t)
  PROVE  PlayInv'
<1> USE Constants
<1> DEFINE n == Len(call[t])
           g == call[t][n]
<1>1. /\ call[t] # <<>> /\ Last(call[t]).op \in {"seeking", "slowed"}
      /\ speed' = Last(call[t]).saved /\ Unlock(t) /\ Leave(t)
      /\ UNCHANGED <<asked, excused, thread, event, shutdown, stage, due, cancelled>>
  BY DEF SeekEnds, Ends, threadVars
<1>2. /\ call' \in [Threads -> Seq(Frames)]
      /\ \A u \in Threads : u # t => call'[u] = call[u]
      /\ n \in Nat \ {0}
      /\ DOMAIN call[t] = 1..n /\ DOMAIN call'[t] = 1..(n - 1)
      /\ \A k \in 1..(n - 1) : call'[t][k] = call[t][k]
      /\ Last(call[t]) = g /\ Last(call[t]) \in Frames
  BY <1>1, Left DEF PlayInv
<1>3. /\ SourceOutermost'
      /\ \A u \in Threads : u # t \/ n > 1 =>
           (call'[u] = <<>> <=> call[u] = <<>>) /\ (call[u] # <<>> => call'[u][1] = call[u][1])
      /\ \A u \in Threads : call[u] = <<>> => call'[u] = <<>>
      /\ \A u \in Threads : \A k \in DOMAIN call'[u] : k \in DOMAIN call[u] /\ call'[u][k] = call[u][k]
      /\ \A k \in DOMAIN call[t] : k # n => k \in DOMAIN call'[t]
  BY <1>1, LeftSame
<1>4. g.op \in {"seeking", "slowed"} /\ speed' = g.saved /\ g \in Frames /\ n \in DOMAIN call[t]
  BY <1>1, <1>2
<1>5. Restores(g) /\ Locks(g)
  BY <1>4 DEF Restores, Locks
<1>6. lock = t
  BY <1>4, <1>5 DEF PlayInv, LockHeld
<1>7. LockHeld' /\ lock' \in Threads \cup {NoThread}
  BY <1>1, <1>6, LockLeft
<1>8. PlayTypes'
  <2>1. speed' \in Speeds
    BY <1>4 DEF Frames
  <2> QED BY <1>1, <1>2, <1>3, <1>7, <2>1 DEF PlayInv, PlayTypes
<1>9. Reading'
  <2>1. t = Playback => n > 1
    <3>1. t = Playback => call[t][1].op = "reading"
      BY <1>1 DEF PlayInv, Reading
    <3> QED BY <1>2, <1>4, <3>1
  <2> QED BY <1>1, <1>3, <2>1 DEF PlayInv, Reading
<1>10. SeekFast'
  <2>1. ASSUME NEW u \in Threads, NEW k \in DOMAIN call'[u], call'[u][k].op = "seeking"
        PROVE  /\ speed' = FASTEST
               /\ \A j \in DOMAIN call'[u] : j > k /\ Restores(call'[u][j]) => call'[u][j].saved = FASTEST
    <3>1. k \in DOMAIN call[u] /\ call[u][k].op = "seeking"
      BY <1>3, <2>1
    <3>2. u = t
      BY <1>6, <3>1 DEF PlayInv, LockHeld, Locks
    <3>3. k \in 1..(n - 1)
      BY <1>2, <2>1, <3>2
    <3>4. g.saved = FASTEST
      <4>1. n > k
        BY <1>2, <3>3
      <4> QED BY <1>4, <1>5, <3>1, <3>2, <4>1 DEF PlayInv, SeekFast
    <3>5. \A j \in DOMAIN call'[u] : j > k /\ Restores(call'[u][j]) => call'[u][j].saved = FASTEST
      BY <1>3, <3>1 DEF PlayInv, SeekFast
    <3> QED BY <1>4, <3>4, <3>5
  <2> QED BY <2>1 DEF SeekFast
<1>11. SpeedRestored'
  <2> SUFFICES ASSUME ~excused' PROVE SpeedRestored'
    BY DEF SpeedRestored
  <2>1. /\ \A u \in Threads : Restoring(u) => OutermostSaves(u)
        /\ \A u, w \in Threads : Restoring(u) /\ Restoring(w) => u = w
        /\ \A u \in Threads : \A k \in DOMAIN call[u] : call[u][k].op # "slowed"
        /\ \A u \in Threads : Fast(u) => speed = FASTEST
        /\ speed = asked \/ \E u \in Threads : Fast(u)
    BY <1>1 DEF PlayInv, SpeedRestored
  <2>2. Restoring(t)
    BY <1>4, <1>5 DEF Restoring
  <2>3. \A u \in Threads : u # t => ~Restoring(u) /\ ~Restoring(u)' /\ ~Fast(u)'
    <3>1. \A u \in Threads : u # t => ~Restoring(u) /\ ~Restoring(u)'
      BY <1>2, <2>1, <2>2 DEF Restoring
    <3>2. \A u \in Threads : Fast(u)' => Restoring(u)'
      BY DEF Fast, Restoring, Restores
    <3> QED BY <3>1, <3>2
  <2>4. \A u \in Threads : \A k \in DOMAIN call'[u] : call'[u][k].op # "slowed"
    BY <1>3, <2>1
  <2>5. PICK k \in DOMAIN call[t] :
          /\ Restores(call[t][k]) /\ call[t][k].saved = asked
          /\ \A j \in DOMAIN call[t] :
               Restores(call[t][j]) /\ j # k => j > k /\ call[t][j].saved = FASTEST
    BY <2>1, <2>2 DEF OutermostSaves
  <2>6. CASE k = n
    <3>1. ASSUME NEW j \in DOMAIN call'[t] PROVE ~Restores(call'[t][j])
      <4>1. j \in DOMAIN call[t] /\ call'[t][j] = call[t][j] /\ j \in 1..(n - 1)
        BY <1>2, <1>3
      <4>2. j # k /\ ~(j > k)
        BY <1>2, <2>6, <4>1
      <4> QED BY <2>5, <4>1, <4>2
    <3>2. ~Restoring(t)' /\ ~Fast(t)'
      BY <3>1 DEF Restoring, Fast, Restores
    <3>3. speed' = asked'
      BY <1>1, <1>4, <2>5, <2>6
    <3> QED BY <2>3, <2>4, <3>2, <3>3 DEF SpeedRestored
  <2>7. CASE k # n
    <3>1. g.saved = FASTEST
      BY <1>4, <1>5, <2>5, <2>7
    <3>2. k \in DOMAIN call'[t] /\ call'[t][k] = call[t][k]
      BY <1>3, <2>7
    <3>3. OutermostSaves(t)'
      BY <1>1, <1>3, <2>5, <3>2 DEF OutermostSaves
    <3>4. Fast(t)'
      <4>1. call[t][k].op # "starting"
        <5>1. call[t][k].op = "starting" => k = 1 /\ n = 1
          BY DEF PlayInv, SourceOutermost
        <5> QED BY <2>7, <5>1
      <4>2. call[t][k].op \in {"seeking", "opening"}
        BY <2>1, <2>5, <4>1 DEF Restores
      <4> QED BY <3>2, <4>2 DEF Fast
    <3> QED BY <1>4, <2>3, <2>4, <3>1, <3>3, <3>4 DEF SpeedRestored
  <2> QED BY <2>6, <2>7
<1>12. ThreadGone'
  BY <1>1 DEF PlayInv, ThreadGone
<1> QED BY <1>3, <1>7, <1>8, <1>9, <1>10, <1>11, <1>12 DEF PlayInv

\* A SetSource goes on: it is the only call of its thread.
LEMMA SourceAlone ==
  ASSUME PlayInv, NEW t \in Threads, call[t] # <<>>, Last(call[t]).op \in {"starting", "opening"}
  PROVE  /\ Len(call[t]) = 1 /\ DOMAIN call[t] = {1} /\ Last(call[t]) = call[t][1]
         /\ call[t][1] \in Frames /\ t \in Apps /\ t # Playback /\ stage = "alive"
<1> USE Constants
<1>1. /\ call[t] \in Seq(Frames) /\ Len(call[t]) \in Nat /\ DOMAIN call[t] = 1..Len(call[t])
      /\ \A k \in DOMAIN call[t] : call[t][k] \in Frames
      /\ Len(call[t]) # 0 /\ Last(call[t]) = call[t][Len(call[t])]
  BY FramesOf DEF PlayInv
<1>2. Len(call[t]) = 1
  <2>1. Len(call[t]) \in DOMAIN call[t]
    BY <1>1
  <2> QED BY <1>1, <2>1 DEF PlayInv, SourceOutermost
<1>3. t # Playback
  BY <1>1, <1>2 DEF PlayInv, Reading
<1>4. t \in Apps /\ stage = "alive"
  BY <1>3 DEF PlayInv, PlayTypes
<1> QED BY <1>1, <1>2, <1>3, <1>4

\* It sets the fastest speed.
LEMMA SourceSpeedPlay ==
  ASSUME PlayInv, NEW t \in Threads, SourceSpeed(t)
  PROVE  PlayInv'
<1> USE Constants
<1> DEFINE g == [call[t][1] EXCEPT !.op = "opening"]
<1>1. /\ call[t] # <<>> /\ Last(call[t]).op = "starting" /\ CanLock(t) /\ speed' = FASTEST
      /\ call' = [call EXCEPT ![t][1].op = "opening"]
      /\ UNCHANGED <<lock, asked, excused, thread, event, shutdown, stage, due, cancelled>>
  BY DEF SourceSpeed, Ends, threadVars
<1>2. /\ Len(call[t]) = 1 /\ DOMAIN call[t] = {1} /\ Last(call[t]) = call[t][1]
      /\ call[t][1] \in Frames /\ t \in Apps /\ t # Playback /\ stage = "alive"
  BY <1>1, SourceAlone
<1>3. g \in Frames /\ g.op = "opening" /\ g.saved = call[t][1].saved /\ Restores(g) /\ ~Locks(g)
  BY <1>2 DEF Frames, Restores, Locks
<1>4. /\ call' = [call EXCEPT ![t] = [call[t] EXCEPT ![1] = g]]
      /\ call \in [Threads -> Seq(Frames)]
  BY <1>1 DEF PlayInv, PlayTypes
<1>5. /\ call'[t] = [call[t] EXCEPT ![1] = g]
      /\ \A u \in Threads : u # t => call'[u] = call[u]
  BY <1>4
<1> HIDE DEF g
<1>6. /\ call'[t] \in Seq(Frames) /\ Len(call'[t]) = 1 /\ DOMAIN call'[t] = {1}
      /\ call'[t][1] = g /\ call'[t] # <<>>
  <2>1. call[t] \in Seq(Frames)
    BY <1>4
  <2> QED BY <1>2, <1>3, <1>5, <2>1
<1>7. call' \in [Threads -> Seq(Frames)]
  BY <1>4, <1>5, <1>6
<1>8. \A u \in Threads : u # t => \A k \in DOMAIN call[u] : ~Locks(call[u][k])
  BY <1>1, Exclusive DEF PlayInv
<1>9. PlayTypes'
  BY <1>1, <1>2, <1>7 DEF PlayInv, PlayTypes
<1>10. Reading'
  BY <1>1, <1>2, <1>5 DEF PlayInv, Reading
<1>11. LockHeld'
  <2>1. ~Locks(call[t][1])
    BY <1>1, <1>2 DEF Locks
  <2> QED BY <1>1, <1>2, <1>3, <1>5, <1>6, <2>1 DEF PlayInv, LockHeld
<1>12. SourceOutermost'
  <2>1. ASSUME NEW u \in Threads, NEW k \in DOMAIN call'[u]
        PROVE  /\ call'[u][k].op \in {"starting", "opening"} => k = 1
               /\ call'[u][k].op = "starting" => Len(call'[u]) = 1
    BY <1>5, <1>6 DEF PlayInv, SourceOutermost
  <2> QED BY <2>1 DEF SourceOutermost
<1>13. SeekFast'
  <2>1. ASSUME NEW u \in Threads, NEW k \in DOMAIN call'[u] PROVE call'[u][k].op # "seeking"
    BY <1>3, <1>5, <1>6, <1>8 DEF Locks
  <2> QED BY <2>1 DEF SeekFast
<1>14. SpeedRestored'
  <2> SUFFICES ASSUME ~excused' PROVE SpeedRestored'
    BY DEF SpeedRestored
  <2>1. /\ \A u \in Threads : Restoring(u) => OutermostSaves(u)
        /\ \A u, w \in Threads : Restoring(u) /\ Restoring(w) => u = w
        /\ \A u \in Threads : \A k \in DOMAIN call[u] : call[u][k].op # "slowed"
    BY <1>1 DEF PlayInv, SpeedRestored
  <2>2. Restoring(t)
    BY <1>1, <1>2 DEF Restoring, Restores
  <2>3. call[t][1].saved = asked
    BY <1>2, <2>1, <2>2 DEF OutermostSaves
  <2>4. \A u \in Threads : u # t => ~Restoring(u)'
    BY <1>5, <2>1, <2>2 DEF Restoring
  <2>5. OutermostSaves(t)'
    BY <1>1, <1>3, <1>6, <2>3 DEF OutermostSaves
  <2>6. Fast(t)'
    BY <1>3, <1>6 DEF Fast
  <2>7. \A u \in Threads : \A k \in DOMAIN call'[u] : call'[u][k].op # "slowed"
    BY <1>3, <1>5, <1>6, <2>1
  <2> QED BY <1>1, <2>4, <2>5, <2>6, <2>7 DEF SpeedRestored
<1>15. ThreadGone'
  BY <1>1 DEF PlayInv, ThreadGone
<1> QED BY <1>9, <1>10, <1>11, <1>12, <1>13, <1>14, <1>15 DEF PlayInv

\* It ends, well or not.
LEMMA SourceEndsPlay ==
  ASSUME PlayInv, NEW t \in Threads, SourceOpened(t) \/ SourceFails(t)
  PROVE  PlayInv'
<1> USE Constants
<1>1. /\ call[t] # <<>> /\ Last(call[t]).op = "opening" /\ Leave(t)
      /\ excused' \in BOOLEAN
      /\ UNCHANGED <<lock, asked, thread, event, shutdown, stage, due, cancelled>>
  BY DEF SourceOpened, SourceFails, Ends, threadVars, PlayInv, PlayTypes
<1>2. /\ Len(call[t]) = 1 /\ DOMAIN call[t] = {1} /\ Last(call[t]) = call[t][1]
      /\ call[t][1] \in Frames /\ t \in Apps /\ t # Playback /\ stage = "alive"
  BY <1>1, SourceAlone
<1>3. call'[t] = <<>> /\ call' \in [Threads -> Seq(Frames)] /\ \A u \in Threads : u # t => call'[u] = call[u]
  BY <1>1, <1>2, Left DEF PlayInv
<1>4. speed' \in Speeds
  BY <1>2 DEF SourceOpened, SourceFails, Frames, PlayInv, PlayTypes
<1>5. PlayTypes'
  BY <1>1, <1>2, <1>3, <1>4 DEF PlayInv, PlayTypes
<1>6. Reading'
  BY <1>1, <1>2, <1>3 DEF PlayInv, Reading
<1>7. LockHeld'
  <2>1. ~Locks(call[t][1])
    BY <1>1, <1>2 DEF Locks
  <2> QED BY <1>1, <1>2, <1>3, <2>1 DEF PlayInv, LockHeld
<1>8. SourceOutermost'
  BY <1>3 DEF PlayInv, SourceOutermost
<1>9. SeekFast'
  <2>1. CASE SourceOpened(t)
    <3>1. \A u \in Threads : u # t => \A k \in DOMAIN call[u] : ~Locks(call[u][k])
      BY <2>1, Exclusive DEF PlayInv, SourceOpened
    <3>2. ASSUME NEW u \in Threads, NEW k \in DOMAIN call'[u] PROVE call'[u][k].op # "seeking"
      BY <1>3, <3>1 DEF Locks
    <3> QED BY <3>2 DEF SeekFast
  <2>2. CASE SourceFails(t)
    BY <1>3, <2>2 DEF SourceFails, PlayInv, SeekFast
  <2> QED BY <2>1, <2>2
<1>10. SpeedRestored'
  <2> SUFFICES ASSUME ~excused' PROVE SpeedRestored'
    BY DEF SpeedRestored
  <2>1. speed' = call[t][1].saved /\ ~excused
    BY <1>2 DEF SourceOpened, SourceFails
  <2>2. /\ \A u \in Threads : Restoring(u) => OutermostSaves(u)
        /\ \A u, w \in Threads : Restoring(u) /\ Restoring(w) => u = w
        /\ \A u \in Threads : \A k \in DOMAIN call[u] : call[u][k].op # "slowed"
    BY <2>1 DEF PlayInv, SpeedRestored
  <2>3. Restoring(t)
    BY <1>1, <1>2 DEF Restoring, Restores
  <2>4. call[t][1].saved = asked
    BY <1>2, <2>2, <2>3 DEF OutermostSaves
  <2>5. \A u \in Threads : ~Restoring(u)'
    BY <1>3, <2>2, <2>3 DEF Restoring
  <2>6. \A u \in Threads : ~Fast(u)'
    BY <2>5 DEF Fast, Restoring, Restores
  <2>7. \A u \in Threads : \A k \in DOMAIN call'[u] : call'[u][k].op # "slowed"
    BY <1>3, <2>2
  <2> QED BY <1>1, <2>1, <2>4, <2>5, <2>6, <2>7 DEF SpeedRestored
<1>11. ThreadGone'
  BY <1>1 DEF PlayInv, ThreadGone
<1> QED BY <1>5, <1>6, <1>7, <1>8, <1>9, <1>10, <1>11 DEF PlayInv

\* A step that leaves the calls and the speed alone.
LEMMA CallsSame ==
  ASSUME PlayInv, UNCHANGED <<lock, call, speedVars>>, PlayTypes', Reading', ThreadGone'
  PROVE  PlayInv'
<1>1. lock' = lock /\ call' = call /\ speed' = speed /\ asked' = asked /\ excused' = excused
  BY DEF speedVars
<1>2. LockHeld' /\ SourceOutermost' /\ SeekFast'
  BY <1>1 DEF PlayInv, LockHeld, SourceOutermost, SeekFast
<1>3. SpeedRestored'
  BY <1>1 DEF PlayInv, SpeedRestored, Restoring, OutermostSaves, Fast
<1> QED BY <1>2, <1>3 DEF PlayInv

\* The steps of the playback thread and of the destruction of the player.
LEMMA ThreadPlay ==
  ASSUME PlayInv,
         (\E t \in Threads : TriggerPlayback(t)) \/ CheckShutdown \/ WaitEvent \/ BeforeNodeDestroy
           \/ Join \/ JoinTimesOut \/ DestroyNode
  PROVE  PlayInv'
<1>1. UNCHANGED <<lock, call, speedVars>>
  BY DEF TriggerPlayback, CheckShutdown, WaitEvent, BeforeNodeDestroy, Join, JoinTimesOut, DestroyNode
<1>2. PlayTypes /\ Reading /\ ThreadGone
  BY DEF PlayInv
<1>3. PlayTypes'
  <2>1. ASSUME NEW t \in Threads, TriggerPlayback(t) PROVE PlayTypes'
    BY <2>1, <1>1, <1>2 DEF TriggerPlayback, PlayTypes, speedVars
  <2>2. CASE CheckShutdown
    BY <2>2, <1>1, <1>2 DEF CheckShutdown, PlayTypes, speedVars
  <2>3. CASE WaitEvent
    BY <2>3, <1>1, <1>2 DEF WaitEvent, PlayTypes, speedVars
  <2>4. CASE BeforeNodeDestroy
    BY <2>4, <1>1, <1>2 DEF BeforeNodeDestroy, PlayTypes, speedVars
  <2>5. CASE Join \/ JoinTimesOut \/ DestroyNode
    BY <2>5, <1>1, <1>2 DEF Join, JoinTimesOut, DestroyNode, PlayTypes, speedVars
  <2> QED BY <2>1, <2>2, <2>3, <2>4, <2>5
<1>4. Reading'
  <2>1. call' = call /\ (thread' = "reading" <=> thread = "reading")
    BY <1>1 DEF TriggerPlayback, CheckShutdown, WaitEvent, BeforeNodeDestroy, Join, JoinTimesOut,
                DestroyNode
  <2> QED BY <1>2, <2>1 DEF Reading
<1>5. ThreadGone'
  <2>1. CASE Join \/ JoinTimesOut
    BY <2>1 DEF Join, JoinTimesOut, ThreadGone
  <2>2. CASE ~(Join \/ JoinTimesOut)
    <3>1. /\ stage' \in {"joined", "destroyed"} => stage \in {"joined", "destroyed"}
          /\ thread = "exited" => thread' = "exited"
          /\ cancelled' = cancelled
      BY <2>2 DEF TriggerPlayback, CheckShutdown, WaitEvent, BeforeNodeDestroy, DestroyNode
    <3> QED BY <1>2, <3>1 DEF ThreadGone
  <2> QED BY <2>1, <2>2
<1> QED BY <1>1, <1>3, <1>4, <1>5, CallsSame

\* The cancelled thread leaves its calls.
LEMMA CancelledPlay ==
  ASSUME PlayInv, Cancelled
  PROVE  PlayInv'
<1> USE Constants
<1>1. /\ cancelled /\ thread = "reading" /\ thread' = "exited" /\ lock' = NoThread
      /\ call' = [call EXCEPT ![Playback] = <<>>]
      /\ excused' = (excused \/ Restoring(Playback))
      /\ UNCHANGED <<speed, asked, event, shutdown, stage, due, cancelled>>
  BY DEF Cancelled
<1>2. call \in [Threads -> Seq(Frames)] /\ <<>> \in Seq(Frames)
  BY DEF PlayInv, PlayTypes
<1>3. /\ call'[Playback] = <<>> /\ call' \in [Threads -> Seq(Frames)]
      /\ \A u \in Threads : u # Playback => call'[u] = call[u]
  BY <1>1, <1>2
<1>4. lock = Playback
  <2>1. call[Playback] # <<>> /\ call[Playback][1].op = "reading"
    BY <1>1 DEF PlayInv, Reading
  <2>2. 1 \in DOMAIN call[Playback]
    BY <2>1, FramesOf DEF PlayInv
  <2> QED BY <2>1, <2>2 DEF PlayInv, LockHeld, Locks
<1>5. PlayTypes'
  BY <1>1, <1>3 DEF PlayInv, PlayTypes
<1>6. Reading' /\ ThreadGone'
  BY <1>1, <1>3 DEF Reading, ThreadGone
<1>7. LockHeld'
  BY <1>1, <1>3, <1>4 DEF PlayInv, LockHeld
<1>8. SourceOutermost' /\ SeekFast'
  BY <1>1, <1>3 DEF PlayInv, SourceOutermost, SeekFast
<1>9. SpeedRestored'
  <2> SUFFICES ASSUME ~excused' PROVE SpeedRestored'
    BY DEF SpeedRestored
  <2>1. /\ \A u \in Threads : Restoring(u) => OutermostSaves(u)
        /\ \A u, w \in Threads : Restoring(u) /\ Restoring(w) => u = w
        /\ \A u \in Threads : \A k \in DOMAIN call[u] : call[u][k].op # "slowed"
        /\ \A u \in Threads : Fast(u) => speed = FASTEST
        /\ speed = asked \/ \E u \in Threads : Fast(u)
        /\ ~Restoring(Playback)
    BY <1>1 DEF PlayInv, SpeedRestored
  <2>2. ~Fast(Playback)
    BY <2>1 DEF Fast, Restoring, Restores
  <2>3. ~Restoring(Playback)' /\ ~Fast(Playback)'
    BY <1>3 DEF Restoring, Fast
  <2>4. \A u \in Threads : u # Playback =>
          (Restoring(u)' <=> Restoring(u)) /\ (Fast(u)' <=> Fast(u)) /\ (OutermostSaves(u) <=> OutermostSaves(u)')
    BY <1>1, <1>3 DEF Restoring, Fast, OutermostSaves
  <2>5. \A u \in Threads : \A k \in DOMAIN call'[u] : call'[u][k].op # "slowed"
    BY <1>3, <2>1
  <2> QED BY <1>1, <2>1, <2>2, <2>3, <2>4, <2>5 DEF SpeedRestored
<1> QED BY <1>5, <1>6, <1>7, <1>8, <1>9 DEF PlayInv

\* A step that leaves the speed, the lock and the thread alone.
LEMMA PlaySame ==
  ASSUME PlayInv, UNCHANGED playVars
  PROVE  PlayInv'
<1>1. UNCHANGED <<lock, call, speedVars, threadVars>>
  BY DEF playVars
<1>2. PlayTypes' /\ Reading' /\ ThreadGone'
  BY <1>1 DEF PlayInv, PlayTypes, Reading, ThreadGone, speedVars, threadVars
<1> QED BY <1>1, <1>2, CallsSame
-----------------------------------------------------------------------------
\* A thread goes on with a node.
LEMMA OnNode ==
  ASSUME NodeInv, NEW n \in Names, NEW s, At(n, s)
  PROVE  /\ notice \in [by : Threads, node : Names, at : {"need", "lock", "list", "unlist"}]
         /\ notice.node = n /\ notice.at = s /\ stage # "destroyed"
BY Constants DEF NodeInv, At, NoNotice

\* A step that leaves the nodes alone.
LEMMA NodesSame ==
  ASSUME NodeInv, UNCHANGED nodeVars, stage = "destroyed" => stage' = "destroyed"
  PROVE  NodeInv'
<1>1. UNCHANGED <<notice, played, needed, held, refs, locked>>
  BY DEF nodeVars
<1> QED BY <1>1 DEF NodeInv, Counted, LockedFor, Adding

\* Notifications begin.
LEMMA NotifiedNodes ==
  ASSUME NodeInv, NEW t \in Threads, NEW n \in Names, AddNode(t, n) \/ RemoveNode(t, n)
  PROVE  NodeInv'
<1> USE Constants
<1>0. notice = NoNotice /\ stage # "destroyed"
  BY DEF AddNode, RemoveNode, Notifies, CalledBack
<1>1. \A m \in Names : ~Adding(m) /\ notice.node # m
  BY <1>0 DEF NoNotice, Adding
<1>2. CASE AddNode(t, n)
  <2>1. CASE UNCHANGED <<refs, notice>>
    <3>1. UNCHANGED nodeVars /\ stage' = stage
      BY <1>2, <2>1 DEF AddNode, nodeVars, playVars, threadVars
    <3> QED BY <3>1, NodesSame
  <2>2. CASE ~UNCHANGED <<refs, notice>>
    <3>1. PICK x \in {"lock", "need"} :
            /\ notice' = [by |-> t, node |-> n, at |-> x]
            /\ refs[n] > 0 <=> x = "lock"
      BY <1>2, <2>2 DEF AddNode
    <3>2. /\ n \notin played /\ refs' = [refs EXCEPT ![n] = @ + 1]
          /\ UNCHANGED <<played, needed, held, locked>>
      BY <1>2, <2>2 DEF AddNode
    <3>3. x = "need" => n \notin needed
      BY <3>1 DEF NodeInv, Counted
    <3>4. /\ notice' \in [by : Threads, node : Names, at : {"need", "lock", "list", "unlist"}]
          /\ notice'.at = x /\ notice'.node = n
      BY <3>1
    <3>5. Counted'
      <4>1. \A m \in Names : (LockedFor(m)' <=> LockedFor(m)) /\ (Adding(m)' <=> m = n)
        BY <1>1, <3>2, <3>4 DEF LockedFor, Adding
      <4>2. \A m \in Names : refs'[m] = IF m = n THEN refs[m] + 1 ELSE refs[m]
        BY <3>2 DEF NodeInv
      <4> QED BY <1>1, <3>2, <4>1, <4>2 DEF NodeInv, Counted
    <3>6. refs' \in [Names -> Nat]
      BY <3>2 DEF NodeInv
    <3> QED BY <3>2, <3>3, <3>4, <3>5, <3>6 DEF NodeInv
  <2> QED BY <2>1, <2>2
<1>3. CASE RemoveNode(t, n)
  <2>1. /\ n \in played /\ locked' = [locked EXCEPT ![n] = "no"]
        /\ notice' = [by |-> t, node |-> n, at |-> "unlist"]
        /\ UNCHANGED <<played, needed, held, refs>>
    BY <1>3 DEF RemoveNode
  <2>2. \A m \in Names : (LockedFor(m)' <=> LockedFor(m) /\ m # n) /\ ~Adding(m)'
    BY <1>1, <2>1 DEF LockedFor, Adding
  <2>3. \A m \in Names : locked'[m] = IF m = n THEN "no" ELSE locked[m]
    BY <2>1 DEF NodeInv
  <2>4. Counted'
    BY <1>1, <2>1, <2>2, <2>3 DEF NodeInv, Counted
  <2> QED BY <2>1, <2>4 DEF NodeInv
<1> QED BY <1>2, <1>3

\* And go on, and fail or end.
LEMMA NoticeNodes ==
  ASSUME NodeInv, NEW n \in Names, NoticeNext(n)
  PROVE  NodeInv'
<1> USE Constants
<1> DEFINE Notices == [by : Threads, node : Names, at : {"need", "lock", "list", "unlist"}]
<1>0. ASSUME notice' = NoNotice
      PROVE  /\ \A m \in Names : ~Adding(m)' /\ (LockedFor(m)' <=> m \in played')
             /\ notice'.at = "none"
  BY <1>0 DEF NoNotice, Adding, LockedFor
<1>1. CASE NeedNode(n)
  <2>1. notice \in Notices /\ notice.node = n /\ notice.at = "need" /\ UNCHANGED <<stage, played, held, locked>>
    BY <1>1, OnNode DEF NeedNode, playVars, threadVars
  <2>2. n \notin needed /\ n \notin played /\ Adding(n) /\ \A m \in Names : m # n => ~Adding(m)
    BY <2>1 DEF NodeInv, Adding
  <2>3. \A m \in Names : LockedFor(m) <=> m \in played
    BY <2>1 DEF LockedFor
  <2>4. CASE notice' = NoNotice
    <3>1. refs' = [refs EXCEPT ![n] = @ - 1] /\ needed' = needed
      BY <1>1, <2>1, <2>4 DEF NeedNode, GoTo, NoNotice
    <3>2. refs[n] \in Nat /\ refs[n] # 0
      BY <2>2 DEF NodeInv, Counted
    <3>3. refs' \in [Names -> Nat] /\ \A m \in Names : refs'[m] = IF m = n THEN refs[m] - 1 ELSE refs[m]
      BY <3>1, <3>2 DEF NodeInv
    <3>4. Counted'
      BY <1>0, <2>1, <2>2, <2>3, <2>4, <3>1, <3>3 DEF NodeInv, Counted
    <3> QED BY <1>0, <2>1, <2>4, <3>1, <3>3, <3>4 DEF NodeInv
  <2>5. CASE notice' # NoNotice
    <3>1. /\ refs' = [refs EXCEPT ![n] = @ + 1] /\ needed' = needed \cup {n}
          /\ notice' = [notice EXCEPT !.at = "lock"]
      BY <1>1, <2>5 DEF NeedNode, GoTo
    <3>2. notice' \in Notices /\ notice'.node = n /\ notice'.at = "lock"
      BY <2>1, <3>1
    <3>3. refs' \in [Names -> Nat] /\ \A m \in Names : refs'[m] = IF m = n THEN refs[m] + 1 ELSE refs[m]
      BY <3>1 DEF NodeInv
    <3>4. \A m \in Names : (Adding(m)' <=> Adding(m)) /\ (LockedFor(m)' <=> m \in played)
      BY <2>1, <3>2 DEF Adding, LockedFor
    <3>5. Counted'
      BY <2>1, <2>2, <2>3, <3>1, <3>3, <3>4 DEF NodeInv, Counted
    <3> QED BY <2>1, <2>2, <3>1, <3>2, <3>3, <3>5 DEF NodeInv
  <2> QED BY <2>4, <2>5
<1>2. CASE LockPlayed(n)
  <2>1. notice \in Notices /\ notice.node = n /\ notice.at = "lock" /\ UNCHANGED <<stage, played, needed, held>>
    BY <1>2, OnNode DEF LockPlayed, playVars, threadVars
  <2>2. n \notin played /\ Adding(n) /\ \A m \in Names : m # n => ~Adding(m)
    BY <2>1 DEF NodeInv, Adding
  <2>3. \A m \in Names : LockedFor(m) <=> m \in played
    BY <2>1 DEF LockedFor
  <2>4. CASE locked[n] # "no"
    <3>1. refs' = [refs EXCEPT ![n] = @ - 1] /\ notice' = NoNotice /\ locked' = locked
      BY <1>2, <2>4 DEF LockPlayed
    <3>2. refs[n] \in Nat /\ refs[n] # 0
      BY <2>2 DEF NodeInv, Counted
    <3>3. refs' \in [Names -> Nat] /\ \A m \in Names : refs'[m] = IF m = n THEN refs[m] - 1 ELSE refs[m]
      BY <3>1, <3>2 DEF NodeInv
    <3>4. Counted'
      BY <1>0, <2>1, <2>2, <2>3, <3>1, <3>3 DEF NodeInv, Counted
    <3> QED BY <1>0, <2>1, <3>1, <3>3, <3>4 DEF NodeInv
  <2>5. CASE locked[n] = "no"
    <3>1. /\ refs' = refs /\ locked' = [locked EXCEPT ![n] = "player"]
          /\ notice' = [notice EXCEPT !.at = "list"]
      BY <1>2, <2>5 DEF LockPlayed, GoTo
    <3>2. notice' \in Notices /\ notice'.node = n /\ notice'.at = "list"
      BY <2>1, <3>1
    <3>3. /\ locked' \in [Names -> {"no", "player", "app"}]
          /\ \A m \in Names : locked'[m] = IF m = n THEN "player" ELSE locked[m]
      BY <3>1 DEF NodeInv
    <3>4. \A m \in Names : (Adding(m)' <=> Adding(m)) /\ (LockedFor(m)' <=> m \in played \/ m = n)
      BY <2>1, <3>2 DEF Adding, LockedFor
    <3>5. Counted'
      BY <2>1, <2>2, <2>3, <3>1, <3>3, <3>4 DEF NodeInv, Counted
    <3> QED BY <2>1, <2>2, <3>1, <3>2, <3>3, <3>5 DEF NodeInv
  <2> QED BY <2>4, <2>5
<1>3. CASE ListNode(n)
  <2>1. /\ notice \in Notices /\ notice.node = n /\ notice.at = "list"
        /\ played' = played \cup {n} /\ notice' = NoNotice
        /\ UNCHANGED <<stage, needed, held, refs, locked>>
    BY <1>3, OnNode DEF ListNode, playVars, threadVars
  <2>2. n \notin played /\ Adding(n) /\ \A m \in Names : m # n => ~Adding(m)
    BY <2>1 DEF NodeInv, Adding
  <2>3. \A m \in Names : LockedFor(m) <=> m \in played \/ m = n
    BY <2>1 DEF LockedFor
  <2>4. Counted'
    BY <1>0, <2>1, <2>2, <2>3 DEF NodeInv, Counted
  <2> QED BY <1>0, <2>1, <2>4 DEF NodeInv
<1>4. CASE UnlistNode(n)
  <2>1. /\ notice \in Notices /\ notice.node = n /\ notice.at = "unlist" /\ stage # "destroyed"
        /\ played' = played \ {n} /\ notice' = NoNotice
        /\ refs' = [refs EXCEPT ![n] = @ - 1]
        /\ UNCHANGED <<stage, needed, held, locked>>
    BY <1>4, OnNode DEF UnlistNode, playVars, threadVars
  <2>2. n \in played /\ \A m \in Names : ~Adding(m)
    BY <2>1 DEF NodeInv, Adding
  <2>3. \A m \in Names : LockedFor(m) <=> m \in played /\ m # n
    BY <2>1 DEF LockedFor
  <2>4. refs[n] \in Nat /\ refs[n] # 0
    BY <2>2 DEF NodeInv, Counted
  <2>5. refs' \in [Names -> Nat] /\ \A m \in Names : refs'[m] = IF m = n THEN refs[m] - 1 ELSE refs[m]
    BY <2>1, <2>4 DEF NodeInv
  <2>6. Counted'
    BY <1>0, <2>1, <2>2, <2>3, <2>5 DEF NodeInv, Counted
  <2> QED BY <1>0, <2>1, <2>5, <2>6 DEF NodeInv
<1> QED BY <1>1, <1>2, <1>3, <1>4 DEF NoticeNext

\* The application's calls on the nodes.
LEMMA AppNodes ==
  ASSUME NodeInv, NEW n \in Names, GetNode(n) \/ ReleaseNode(n) \/ LockNode(n) \/ UnlockNode(n)
  PROVE  NodeInv'
<1>0. UNCHANGED <<notice, played, needed, stage>>
  BY DEF GetNode, ReleaseNode, LockNode, UnlockNode, playVars, threadVars
<1>1. \A m \in Names : (Adding(m)' <=> Adding(m)) /\ (LockedFor(m)' <=> LockedFor(m))
  BY <1>0 DEF Adding, LockedFor
<1>2. CASE GetNode(n)
  BY <1>0, <1>1, <1>2 DEF GetNode, NodeInv, Counted
<1>3. CASE ReleaseNode(n)
  BY <1>0, <1>1, <1>3 DEF ReleaseNode, NodeInv, Counted
<1>4. CASE LockNode(n)
  BY <1>0, <1>1, <1>4 DEF LockNode, NodeInv, Counted
<1>5. CASE UnlockNode(n)
  BY <1>0, <1>1, <1>5 DEF UnlockNode, NodeInv, Counted
<1> QED BY <1>2, <1>3, <1>4, <1>5

\* The destroyed player has released and unlocked what it played and needed.
LEMMA DestroyNodes ==
  ASSUME NodeInv, DestroyNode
  PROVE  NodeInv'
<1>0. /\ stage' = "destroyed" /\ notice' = notice /\ held' = held /\ played' = {} /\ needed' = {}
      /\ locked' = [n \in Names |-> IF n \in played /\ locked[n] = "player" THEN "no" ELSE locked[n]]
  BY DEF DestroyNode
<1>1. ASSUME NEW n \in Names
      PROVE  refs'[n] = (IF n \in held THEN 1 ELSE 0) + (IF Adding(n) THEN 1 ELSE 0)
  <2>1. refs'[n] = refs[n] - Cardinality({n} \cap played) - Cardinality({n} \cap needed)
    BY DEF DestroyNode
  <2>2. refs'[n] = refs[n] - (IF n \in played THEN 1 ELSE 0) - (IF n \in needed THEN 1 ELSE 0)
    BY <2>1, OneOrNone
  <2>3. refs[n] = (IF n \in played THEN 1 ELSE 0) + (IF n \in needed THEN 1 ELSE 0)
                    + (IF n \in held THEN 1 ELSE 0) + (IF Adding(n) THEN 1 ELSE 0)
    BY DEF NodeInv, Counted
  <2> QED BY <2>2, <2>3
<1>2. refs' \in [Names -> Nat]
  BY <1>1 DEF DestroyNode
<1>3. \A n \in Names : Adding(n)' <=> Adding(n)
  BY <1>0 DEF Adding
<1>4. \A n \in Names : LockedFor(n)' <=> notice.node = n /\ notice.at = "list"
  BY <1>0 DEF LockedFor
<1>5. \A n \in Names : notice.node = n /\ notice.at = "list" => n \notin played
  BY DEF NodeInv
<1>6. \A n \in Names : locked'[n] = "player" <=> LockedFor(n)'
  BY <1>0, <1>4, <1>5 DEF NodeInv, Counted, LockedFor
<1>7. Counted'
  BY <1>0, <1>1, <1>3, <1>6 DEF Counted
<1>8. locked' \in [Names -> {"no", "player", "app"}]
  BY <1>0 DEF NodeInv
<1> QED BY <1>0, <1>2, <1>7, <1>8 DEF NodeInv

\* The bounds.
LEMMA BoundsStep ==
  ASSUME BoundsOK, [Next]_vars
  PROVE  BoundsOK'
<1> USE Constants
<1>1. ASSUME NEW t \in Threads, NEW v \in Speeds, SetPlaybackSpeed(t, v) PROVE BoundsOK'
  BY <1>1 DEF SetPlaybackSpeed, Calls, BoundsOK
<1>2. ASSUME NEW t \in Threads, Seek(t) \/ SetSource(t) \/ ReadNext(t) \/ TriggerPlayback(t) PROVE BoundsOK'
  BY <1>2 DEF Seek, SetSource, ReadNext, TriggerPlayback, Calls, BoundsOK
<1>3. ASSUME NEW t \in Threads, CallEnds(t) PROVE BoundsOK'
  BY <1>3 DEF CallEnds, SeekEnds, SourceSpeed, SourceOpened, SourceFails, ReadEnds, BoundsOK
<1>4. ASSUME NEW t \in Threads, NEW n \in Names, AddNode(t, n) \/ RemoveNode(t, n) PROVE BoundsOK'
  BY <1>4 DEF AddNode, RemoveNode, Notifies, BoundsOK
<1>5. ASSUME NEW n \in Names, NoticeNext(n) PROVE BoundsOK'
  BY <1>5 DEF NoticeNext, NeedNode, LockPlayed, ListNode, UnlistNode, BoundsOK
<1>6. ASSUME NEW n \in Names, GetNode(n) \/ ReleaseNode(n) \/ LockNode(n) \/ UnlockNode(n) PROVE BoundsOK'
  BY <1>6 DEF GetNode, ReleaseNode, LockNode, UnlockNode, BoundsOK
<1>7. ASSUME BeforeNodeDestroy \/ ThreadNext \/ DestroyNext PROVE BoundsOK'
  BY <1>7 DEF BeforeNodeDestroy, ThreadNext, DestroyNext, CheckShutdown, WaitEvent, PlaybackReads,
              PlaybackRead, Cancelled, Join, JoinTimesOut, DestroyNode, BoundsOK
<1>8. CASE UNCHANGED vars
  BY <1>8 DEF vars, BoundsOK
<1> QED BY <1>1, <1>2, <1>3, <1>4, <1>5, <1>6, <1>7, <1>8 DEF Next

\* The invariant holds at the beginning.
LEMMA InitInv ==
  ASSUME Init
  PROVE  IInv
<1> USE Constants
<1>1. call = [t \in Threads |-> <<>>] /\ call \in [Threads -> Seq(Frames)]
  BY DEF Init
<1>2. \A t \in Threads : call[t] = <<>> /\ DOMAIN call[t] = {}
  BY <1>1
<1>3. PlayTypes /\ Reading /\ ThreadGone
  BY <1>1, <1>2 DEF Init, PlayTypes, Reading, ThreadGone
<1>4. LockHeld /\ SourceOutermost /\ SeekFast
  BY <1>2 DEF Init, LockHeld, SourceOutermost, SeekFast
<1>5. SpeedRestored
  BY <1>2 DEF Init, SpeedRestored, Restoring, Fast
<1>6. PlayInv
  BY <1>3, <1>4, <1>5 DEF PlayInv
<1>7. NodeInv
  <2>1. PICK H \in SUBSET Names : held = H /\ refs = [n \in Names |-> IF n \in H THEN 1 ELSE 0]
    BY DEF Init
  <2>2. played = {} /\ needed = {} /\ locked = [n \in Names |-> "no"] /\ notice = NoNotice
    BY DEF Init
  <2>3. notice.at = "none" /\ \A n \in Names : ~Adding(n) /\ ~LockedFor(n)
    BY <2>2 DEF NoNotice, Adding, LockedFor
  <2>4. Counted
    BY <2>1, <2>2, <2>3 DEF Counted
  <2> QED BY <2>1, <2>2, <2>3, <2>4 DEF NodeInv
<1>8. BoundsOK
  BY DEF Init, BoundsOK
<1> QED BY <1>6, <1>7, <1>8 DEF IInv

\* The invariant holds in every state of every execution: one step per action.
LEMMA Invariance == Spec => []IInv
<1>1. Init => IInv
  BY InitInv
<1>2. IInv /\ [Next]_vars => IInv'
  <2> SUFFICES ASSUME PlayInv, NodeInv, BoundsOK, [Next]_vars PROVE PlayInv' /\ NodeInv'
    BY BoundsStep DEF IInv
  <2>1. ASSUME NEW t \in Threads, NEW v \in Speeds, SetPlaybackSpeed(t, v) PROVE PlayInv' /\ NodeInv'
    <3>1. UNCHANGED nodeVars /\ stage' = stage
      BY <2>1 DEF SetPlaybackSpeed, threadVars
    <3> QED BY <2>1, <3>1, SetSpeedPlay, NodesSame
  <2>2. ASSUME NEW t \in Threads, Seek(t) \/ SetSource(t) \/ ReadNext(t) PROVE PlayInv' /\ NodeInv'
    <3>1. UNCHANGED nodeVars /\ stage' = stage
      BY <2>2 DEF Seek, SetSource, ReadNext, threadVars
    <3> QED BY <2>2, <3>1, SeekPlay, SourcePlay, ReadPlay, NodesSame
  <2>3. ASSUME NEW t \in Threads, CallEnds(t) PROVE PlayInv' /\ NodeInv'
    <3>1. UNCHANGED nodeVars /\ stage' = stage
      BY <2>3 DEF CallEnds, SeekEnds, SourceSpeed, SourceOpened, SourceFails, ReadEnds, threadVars
    <3> QED BY <2>3, <3>1, SeekEndsPlay, SourceSpeedPlay, SourceEndsPlay, ReadEndsPlay, NodesSame
            DEF CallEnds
  <2>4. ASSUME NEW t \in Threads, NEW n \in Names, AddNode(t, n) \/ RemoveNode(t, n)
        PROVE  PlayInv' /\ NodeInv'
    <3>1. UNCHANGED playVars
      BY <2>4 DEF AddNode, RemoveNode
    <3> QED BY <2>4, <3>1, NotifiedNodes, PlaySame
  <2>5. ASSUME NEW n \in Names, NoticeNext(n) PROVE PlayInv' /\ NodeInv'
    <3>1. UNCHANGED playVars
      BY <2>5 DEF NoticeNext, NeedNode, LockPlayed, ListNode, UnlistNode
    <3> QED BY <2>5, <3>1, NoticeNodes, PlaySame
  <2>6. ASSUME NEW n \in Names, GetNode(n) \/ ReleaseNode(n) \/ LockNode(n) \/ UnlockNode(n)
        PROVE  PlayInv' /\ NodeInv'
    <3>1. UNCHANGED playVars
      BY <2>6 DEF GetNode, ReleaseNode, LockNode, UnlockNode
    <3> QED BY <2>6, <3>1, AppNodes, PlaySame
  <2>7. ASSUME (\E t \in Threads : TriggerPlayback(t)) \/ CheckShutdown \/ WaitEvent
                 \/ BeforeNodeDestroy \/ Join \/ JoinTimesOut
        PROVE  PlayInv' /\ NodeInv'
    <3>1. UNCHANGED nodeVars /\ (stage = "destroyed" => stage' = "destroyed")
      BY <2>7 DEF TriggerPlayback, CheckShutdown, WaitEvent, BeforeNodeDestroy, Join, JoinTimesOut
    <3> QED BY <2>7, <3>1, ThreadPlay, NodesSame
  <2>8. ASSUME PlaybackReads \/ PlaybackRead \/ Cancelled PROVE PlayInv' /\ NodeInv'
    <3>1. UNCHANGED nodeVars /\ stage' = stage
      BY <2>8 DEF PlaybackReads, PlaybackRead, Cancelled
    <3> QED BY <2>8, <3>1, Constants, ReadPlay, PlaybackReadPlay, CancelledPlay, NodesSame
  <2>9. CASE DestroyNode
    BY <2>9, ThreadPlay, DestroyNodes
  <2>10. CASE UNCHANGED vars
    <3>1. UNCHANGED playVars /\ UNCHANGED nodeVars /\ stage' = stage
      BY <2>10 DEF vars, playVars, threadVars
    <3> QED BY <3>1, PlaySame, NodesSame
  <2> QED BY <2>1, <2>2, <2>3, <2>4, <2>5, <2>6, <2>7, <2>8, <2>9, <2>10
          DEF Next, ThreadNext, DestroyNext
<1> QED BY <1>1, <1>2, PTL DEF Spec
-----------------------------------------------------------------------------
\* The variables keep their types, and a player that goes has no call of the
\* application under way.
THEOREM TypeCorrect == Spec => []TypeOK
BY Invariance, IInvImplies, PTL

\* Seeks play at the fastest speed, and the speed the application set survives
\* seeks and openings of a file that nothing comes between, one inside of the
\* other or not.
THEOREM SpeedIsKept == Spec => []SpeedKept
BY Invariance, IInvImplies, PTL

\* Played nodes are alive and locked for the player alone, and no reference on a
\* node is lost or kept, also when an addition or a removal stops half-way.
THEOREM PlayedAreHeld == Spec => []PlayedHeld
BY Invariance, IInvImplies, PTL

\* After the join, the playback thread is gone, or was cancelled in a read.
THEOREM ThreadIsGone == Spec => []ThreadGone
BY Invariance, IInvImplies, PTL
=============================================================================
