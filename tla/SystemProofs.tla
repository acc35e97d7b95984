---------------------------- MODULE SystemProofs ----------------------------
(* Theorems about descriptors, directories, connections, the addresses of  *)
(* interfaces and the condition variable for Windows, for every number of  *)
(* threads, processes, numbers, paths, bytes, interfaces and signals.      *)
EXTENDS Descriptors, CreateDir, DirListing, Connection, Interfaces, Win32Cond,
        SequenceFacts, FiniteSetTheorems, WellFoundedInduction

-----------------------------------------------------------------------------
(* Descriptors *)

(* A call and its variables, as far as they depend on each other: which    *)
(* variables can hold a number at which step.                              *)
Callings ==
    [call : {"none", "pair", "open", "map"} \cup Nics,
     step : {"none", "listen", "second", "connect", "accept", "unlisten", "check",
             "setup", "write", "tidy"},
     slot : [RoleSet -> Handles \cup {None}],
     pending : Seq({"self", "stranger"}), peer : {"nobody", "self", "stranger"},
     seen : SUBSET Bits, before : SUBSET Bits, alone : BOOLEAN, done : BOOLEAN]

Empty(c, roles) == \A r \in roles : c.slot[r] = None

FineCall(c, kind) ==
    /\ c.slot["listener"] # None => kind = "windows"
    /\ c.call = "none" =>
          /\ c.step = "none" /\ Empty(c, {"listener", "file"})
          /\ Empty(c, {"connector", "acceptor"}) \/ Empty(c, {"sock"})
          /\ Empty(c, {"connector"}) \/ Empty(c, {"acceptor"}) \/ c.peer = "self"
    /\ c.call = "pair" =>
          /\ Empty(c, {"sock", "file"})
          /\ c.step \notin {"check", "tidy"} => c.slot["listener"] # None
          /\ c.step \in {"listen", "second"} => Empty(c, {"connector"})
          /\ c.step \in {"listen", "second", "connect", "accept"} => Empty(c, {"acceptor"})
    /\ c.call = "map" => Empty(c, RoleSet \ {"file"})
    /\ c.call \in {"open"} \cup Nics => Empty(c, RoleSet \ {"sock"})
    /\ c.call \in Nics => c.step \in {"setup", "write", "tidy"}

(* A call that was alone knows the flags.                                  *)
FlagsOf(c, f) ==
    c.call \in Nics /\ c.alone =>
        IF c.step = "tidy"
        THEN f = IF c.done THEN Asked(c.call, c.before) ELSE c.before
        ELSE f = c.before /\ ~c.done /\ (c.step = "write" => c.seen = f)

(* A thread and its numbers.  The one in the variable listener may stand   *)
(* for what another thread has opened, but never for anything else that    *)
(* the thread itself has opened.                                           *)
OwnsOf(t, c, tab) ==
    /\ \A h \in Handles, r \in RoleSet :
          tab[h] = <<t, r>> => c.slot[r] = h \/ (h = 0 /\ r = "file")
    /\ \A r \in RoleSet : c.slot[r] # None =>
          \/ tab[c.slot[r]] = <<t, r>>
          \/ r = "listener" /\ c.step \in {"check", "tidy"}
    /\ c.slot["listener"] # None =>
          \A r \in RoleSet \ {"listener"} : tab[c.slot["listener"]] # <<t, r>>
    /\ c.step = "check" => \A h \in Handles : tab[h] # <<t, "listener">>

TableEntries == {Closed, Stdin} \cup (Openers \X RoleSet)

DescriptorInv ==
    /\ platform \in {"posix", "windows"} /\ flags \in SUBSET Bits
    /\ table \in [Handles -> TableEntries] /\ run \in [Openers -> Callings]
    /\ \A t \in Openers : FineCall(run[t], platform) /\ FlagsOf(run[t], flags)
    /\ stray = "none" => \A t \in Openers : OwnsOf(t, run[t], table)
    /\ stray # "none" => platform = "windows" /\ stray = "listener"

(* The five variables.                                                     *)
LEMMA RolesAre == RoleSet = {"listener", "connector", "acceptor", "sock", "file"}
BY DEF RoleSet, Roles

(* The kernel gives the lowest number that is free.                        *)
LEMMA LowestFree == Free # {} => Lowest \in Free /\ Lowest \in Handles /\ table[Lowest] = Closed
<1> SUFFICES ASSUME Free # {} PROVE Lowest \in Free
  BY DEF Free
<1>1. Free \subseteq Nat
  BY DescriptorsAssumption DEF Free
<1>. DEFINE Below == OpToRel(<, Nat)
<1>2. /\ IsWellFoundedOn(Below, Nat)
      /\ \A h, k \in Nat : <<k, h>> \in Below <=> k < h
  BY NatLessThanWellFounded DEF OpToRel
<1>. HIDE DEF Below
<1>3. PICK h \in Free : \A k \in Free : ~(<<k, h>> \in Below)
  BY ONLY <1>1, <1>2, Free # {}, WFMin
<1>4. ASSUME NEW k \in Free PROVE h <= k
  <2>1. k \in Nat /\ h \in Nat /\ ~(<<k, h>> \in Below)
    BY <1>1, <1>3
  <2>2. ~(k < h)
    BY ONLY <1>2, <2>1, Zenon
  <2> QED
    BY ONLY <2>1, <2>2
<1> QED
  BY <1>4 DEF Lowest

(* A number that is neither nor becomes one of a thread does not change    *)
(* what the thread owns.                                                   *)
LEMMA Unaffected ==
    ASSUME NEW u, NEW c, NEW tab \in [Handles -> TableEntries], NEW h \in Handles, NEW v,
           c.slot \in [RoleSet -> Handles \cup {None}], OwnsOf(u, c, tab),
           \A r \in RoleSet : tab[h] # <<u, r>> /\ v # <<u, r>>
    PROVE  OwnsOf(u, c, [tab EXCEPT ![h] = v])
BY RolesAre, DescriptorsAssumption DEF OwnsOf, None

(* A step of one thread.                                                   *)
LEMMA OneCall ==
    ASSUME DescriptorInv, NEW t \in Openers, NEW x \in Callings,
           run' = [run EXCEPT ![t] = x], platform' = platform, flags' = flags,
           FineCall(x, platform), FlagsOf(x, flags),
           table' \in [Handles -> TableEntries],
           stray' = "none" => stray = "none" /\ OwnsOf(t, x, table'),
           stray' = "none" => \A u \in Openers \ {t} : OwnsOf(u, run[u], table'),
           stray' # "none" => platform = "windows" /\ stray' = "listener"
    PROVE  DescriptorInv'
<1>1. run' \in [Openers -> Callings]
  BY DEF DescriptorInv
<1>2. ASSUME NEW u \in Openers PROVE (u = t /\ run'[u] = x) \/ (u # t /\ run'[u] = run[u])
  BY DEF DescriptorInv
<1>3. ASSUME NEW u \in Openers PROVE FineCall(run'[u], platform') /\ FlagsOf(run'[u], flags')
  <2>1. FineCall(run[u], platform) /\ FlagsOf(run[u], flags)
    BY DEF DescriptorInv
  <2> QED
    BY <1>2, <2>1
<1>4. ASSUME stray' = "none", NEW u \in Openers PROVE OwnsOf(u, run'[u], table')
  BY <1>2, <1>4
<1> QED
  BY <1>1, <1>3, <1>4 DEF DescriptorInv

(* A thread that keeps its numbers.                                        *)
LEMMA KeepsNumbers ==
    ASSUME DescriptorInv, NEW t \in Openers, NEW x \in Callings,
           run' = [run EXCEPT ![t] = x],
           UNCHANGED <<platform, table, stray, flags>>,
           FineCall(x, platform), FlagsOf(x, flags), stray = "none",
           \A r \in RoleSet : x.slot[r] = run[t].slot[r],
           x.step = "check" => run[t].step = "check",
           run[t].slot["listener"] # None /\ run[t].step \in {"check", "tidy"} =>
               x.step \in {"check", "tidy"}
    PROVE  DescriptorInv'
<1>1. /\ OwnsOf(t, run[t], table) /\ table \in [Handles -> TableEntries]
      /\ \A u \in Openers : OwnsOf(u, run[u], table)
  BY DEF DescriptorInv
<1>2. OwnsOf(t, x, table)
  <2>1. "listener" \in RoleSet /\ \A r \in RoleSet : x.slot[r] = run[t].slot[r]
    BY RolesAre
  <2>2. /\ x.step = "check" => run[t].step = "check"
        /\ run[t].slot["listener"] # None /\ run[t].step \in {"check", "tidy"} =>
              x.step \in {"check", "tidy"}
    OBVIOUS
  <2>3. OwnsOf(t, run[t], table)
    BY <1>1
  <2> QED
    BY ONLY <2>1, <2>2, <2>3 DEF OwnsOf
<1> QED
  BY <1>1, <1>2, OneCall

(* A thread that opens a number.                                           *)
LEMMA OpensNumber ==
    ASSUME DescriptorInv, NEW t \in Openers, NEW x \in Callings, NEW role \in RoleSet,
           NEW h \in Handles, table[h] = Closed, table' = [table EXCEPT ![h] = <<t, role>>],
           run' = [run EXCEPT ![t] = x],
           UNCHANGED <<platform, stray, flags>>,
           FineCall(x, platform), FlagsOf(x, flags), stray = "none",
           run[t].slot[role] = None,
           x.slot[role] = h \/ (x.slot[role] = None /\ h = 0 /\ role = "file"),
           \A r \in RoleSet \ {role} : x.slot[r] = run[t].slot[r],
           x.step # "check",
           run[t].slot["listener"] # None => run[t].step \notin {"check", "tidy"}
    PROVE  DescriptorInv'
<1>1. /\ OwnsOf(t, run[t], table) /\ table \in [Handles -> TableEntries]
      /\ \A u \in Openers : OwnsOf(u, run[u], table)
      /\ \A u \in Openers : run[u].slot \in [RoleSet -> Handles \cup {None}]
  BY DEF DescriptorInv, Callings
<1>2. table' \in [Handles -> TableEntries]
  BY <1>1 DEF TableEntries
<1>3. OwnsOf(t, x, table')
  <2>1. PICK s, y, step : s = run[t].slot /\ y = x.slot /\ step = run[t].step
    OBVIOUS
  <2>2. /\ s[role] = None
        /\ y[role] = h \/ (y[role] = None /\ h = 0 /\ role = "file")
        /\ \A r \in RoleSet \ {role} : y[r] = s[r]
        /\ \A r \in RoleSet : s[r] \in Handles \cup {None}
        /\ s["listener"] # None => step \notin {"check", "tidy"}
    BY <1>1, <2>1
  <2>3. /\ \A g \in Handles, r \in RoleSet :
              table[g] = <<t, r>> => s[r] = g \/ (g = 0 /\ r = "file")
        /\ \A r \in RoleSet : s[r] # None =>
              table[s[r]] = <<t, r>> \/ (r = "listener" /\ step \in {"check", "tidy"})
    BY ONLY <1>1, <2>1 DEF OwnsOf
  <2>4. /\ \A g \in Handles : table'[g] = IF g = h THEN <<t, role>> ELSE table[g]
        /\ h \in Handles /\ None \notin Handles /\ role \in RoleSet
    BY <1>1, DescriptorsAssumption DEF None
  <2>5. \A r \in RoleSet : table[h] # <<t, r>> /\ (<<t, role>> = <<t, r>> => role = r)
    BY DEF Closed
  <2>6. \A g \in Handles, r \in RoleSet :
           table'[g] = <<t, r>> => y[r] = g \/ (g = 0 /\ r = "file")
    <3> SUFFICES ASSUME NEW g \in Handles, NEW r \in RoleSet, table'[g] = <<t, r>>
                 PROVE  y[r] = g \/ (g = 0 /\ r = "file")
      OBVIOUS
    <3>1. CASE g = h
      <4>1. role = r
        BY ONLY <3>1, <2>4, <2>5, table'[g] = <<t, r>>, g \in Handles, r \in RoleSet
      <4> QED
        BY ONLY <3>1, <4>1, <2>2
    <3>2. CASE g # h
      <4>1. s[r] = g \/ (g = 0 /\ r = "file")
        BY ONLY <3>2, <2>3, <2>4, table'[g] = <<t, r>>, g \in Handles, r \in RoleSet
      <4>2. s[r] = g => r # role
        BY ONLY <2>2, <2>4, g \in Handles
      <4>3. r # role => y[r] = s[r]
        BY ONLY <2>2, r \in RoleSet
      <4> QED
        BY ONLY <4>1, <4>2, <4>3
    <3> QED
      BY ONLY <3>1, <3>2
  <2>7. \A r \in RoleSet : y[r] # None => table'[y[r]] = <<t, r>>
    BY ONLY <2>2, <2>3, <2>4, <2>5
  <2>8. y["listener"] # None => \A r \in RoleSet \ {"listener"} : table'[y["listener"]] # <<t, r>>
    <3>1. \A r \in RoleSet \ {"listener"} : <<t, "listener">> # <<t, r>>
      OBVIOUS
    <3> QED
      BY ONLY <2>7, <3>1, RolesAre
  <2>9. x.step # "check"
    OBVIOUS
  <2> QED
    BY ONLY <2>1, <2>6, <2>7, <2>8, <2>9 DEF OwnsOf
<1>4. ASSUME NEW u \in Openers \ {t} PROVE OwnsOf(u, run[u], table')
  <2>1. \A r \in RoleSet : table[h] # <<u, r>> /\ <<t, role>> # <<u, r>>
    BY DEF Closed
  <2> QED
    BY <1>1, <2>1, Unaffected
<1> QED
  BY <1>2, <1>3, <1>4, OneCall

(* A thread that closes a number and forgets it.                           *)
LEMMA ClosesNumber ==
    ASSUME DescriptorInv, NEW t \in Openers, NEW x \in Callings, NEW role \in RoleSet,
           run[t].slot[role] # None, Closes(t, role),
           run' = [run EXCEPT ![t] = x], UNCHANGED <<platform, flags>>,
           FineCall(x, platform), FlagsOf(x, flags), stray = "none",
           x.slot[role] = None, \A r \in RoleSet \ {role} : x.slot[r] = run[t].slot[r],
           x.step = run[t].step, x.step # "check"
    PROVE  DescriptorInv'
<1>1. /\ OwnsOf(t, run[t], table) /\ table \in [Handles -> TableEntries]
      /\ \A u \in Openers : OwnsOf(u, run[u], table)
      /\ \A u \in Openers : run[u].slot \in [RoleSet -> Handles \cup {None}]
  BY DEF DescriptorInv, Callings
<1>2. PICK h \in Handles : h = run[t].slot[role]
  BY <1>1
<1>3. /\ table' = [table EXCEPT ![h] = Closed]
      /\ stray' = IF table[h] # Closed /\ table[h][1] # t THEN role ELSE "none"
  BY <1>2 DEF Closes
<1>4. table' \in [Handles -> TableEntries]
  BY <1>1, <1>3 DEF TableEntries
<1>5. CASE table[h] = <<t, role>>
  <2>1. stray' = "none"
    BY <1>3, <1>5
  <2>2. OwnsOf(t, x, table')
    <3>1. ASSUME NEW k \in Handles, NEW r \in RoleSet, table'[k] = <<t, r>>
          PROVE  x.slot[r] = k \/ (k = 0 /\ r = "file")
      <4>1. k # h /\ table[k] = <<t, r>>
        BY <1>1, <1>3, <3>1 DEF Closed
      <4>2. run[t].slot[r] = k \/ (k = 0 /\ r = "file")
        BY <1>1, <4>1 DEF OwnsOf
      <4> QED
        BY <1>2, <4>1, <4>2
    <3>2. ASSUME NEW r \in RoleSet, x.slot[r] # None
          PROVE  \/ table'[x.slot[r]] = <<t, r>>
                 \/ r = "listener" /\ x.step \in {"check", "tidy"}
      <4>1. PICK k \in Handles : k = x.slot[r] /\ k = run[t].slot[r] /\ r # role
        BY <1>1, <3>2
      <4>2. table[k] = <<t, r>> \/ (r = "listener" /\ x.step \in {"check", "tidy"})
        BY <1>1, <3>2, <4>1 DEF OwnsOf
      <4>3. table[k] = <<t, r>> => k # h
        BY <1>5, <4>1
      <4>4. table[k] = <<t, r>> => table'[k] = <<t, r>>
        BY <1>1, <1>3, <4>3
      <4> QED
        BY ONLY <4>1, <4>2, <4>4
    <3>3. ASSUME x.slot["listener"] # None, NEW r \in RoleSet \ {"listener"}
          PROVE  table'[x.slot["listener"]] # <<t, r>>
      <4>1. "listener" \in RoleSet /\ "listener" # role
        BY <3>3, RolesAre
      <4>2. x.slot["listener"] = run[t].slot["listener"] /\ x.slot["listener"] \in Handles
        BY <1>1, <3>3, <4>1
      <4>3. table[x.slot["listener"]] # <<t, r>>
        BY <1>1, <3>3, <4>2 DEF OwnsOf
      <4> QED
        BY <1>1, <1>3, <4>2, <4>3 DEF Closed
    <3> QED
      BY <3>1, <3>2, <3>3 DEF OwnsOf
  <2>3. ASSUME NEW u \in Openers \ {t} PROVE OwnsOf(u, run[u], table')
    <3>1. \A r \in RoleSet : table[h] # <<u, r>> /\ Closed # <<u, r>>
      BY <1>5 DEF Closed
    <3> QED
      BY <1>1, <1>3, <3>1, Unaffected
  <2> QED
    BY <1>4, <2>1, <2>2, <2>3, OneCall
<1>6. CASE table[h] # <<t, role>>
  <2>1. role = "listener" /\ platform = "windows"
    <3>1. role = "listener"
      BY <1>1, <1>2, <1>6 DEF OwnsOf
    <3>2. FineCall(run[t], platform)
      BY DEF DescriptorInv
    <3> QED
      BY <3>1, <3>2 DEF FineCall
  <2>2. CASE stray' # "none"
    <3>1. stray' = "listener"
      BY <1>3, <2>1, <2>2
    <3> QED
      BY <1>4, <2>1, <2>2, <3>1, OneCall
  <2>3. CASE stray' = "none"
    <3>1. table[h] = Closed \/ table[h][1] = t
      BY <1>3, <2>1, <2>3
    <3>2. ASSUME NEW u \in Openers, NEW r \in RoleSet
          PROVE  table[h] # <<u, r>> /\ Closed # <<u, r>>
      <4>1. Closed # <<u, r>>
        BY DEF Closed
      <4>2. table[h] # <<t, r>>
        BY <1>1, <1>2, <1>6, <2>1 DEF OwnsOf
      <4> QED
        BY SMTT(30), <3>1, <4>1, <4>2
    <3>3. \A u \in Openers : OwnsOf(u, run[u], table')
      BY <1>1, <1>3, <3>2, Unaffected
    <3>4. \A k \in Handles : table'[k] # <<t, "listener">>
      <4>1. \A k \in Handles : table[k] # <<t, "listener">>
        BY Zenon, <1>1, <1>2, <1>6, <2>1, RolesAre DEF OwnsOf
      <4> QED
        BY <1>1, <1>3, <4>1 DEF Closed
    <3>5. OwnsOf(t, x, table')
      <4>1. OwnsOf(t, run[t], table') /\ "listener" \in RoleSet
        BY <3>3, RolesAre
      <4>o. \A k \in Handles, r \in RoleSet :
               table'[k] = <<t, r>> => run[t].slot[r] = k \/ (k = 0 /\ r = "file")
        BY ONLY <4>1 DEF OwnsOf
      <4>2. \A r \in RoleSet : x.slot[r] = None \/ x.slot[r] = run[t].slot[r]
        BY <2>1
      <4>3. ASSUME NEW k \in Handles, NEW r \in RoleSet, table'[k] = <<t, r>>
            PROVE  x.slot[r] = k \/ (k = 0 /\ r = "file")
        <5>1. r # "listener"
          BY <3>4, <4>3
        <5>2. run[t].slot[r] = k \/ (k = 0 /\ r = "file")
          BY ONLY <4>o, <4>3
        <5>3. x.slot[r] = run[t].slot[r]
          BY <2>1, <5>1
        <5> QED
          BY ONLY <5>2, <5>3
      <4>4. \A r \in RoleSet : run[t].slot[r] # None =>
               \/ table'[run[t].slot[r]] = <<t, r>>
               \/ r = "listener" /\ run[t].step \in {"check", "tidy"}
        BY ONLY <4>1 DEF OwnsOf
      <4>5. x.slot["listener"] = None /\ x.step = run[t].step /\ x.step # "check"
        BY <2>1
      <4>6. \A r \in RoleSet : x.slot[r] # None => table'[x.slot[r]] = <<t, r>>
        BY ONLY <4>2, <4>4, <4>5
      <4> QED
        BY ONLY <4>3, <4>5, <4>6 DEF OwnsOf
    <3> QED
      BY <1>4, <2>3, <3>3, <3>5, OneCall
  <2> QED
    BY <2>2, <2>3
<1> QED
  BY <1>5, <1>6

(* What a thread knows of itself at the beginning of a step.               *)
LEMMA Knows ==
    ASSUME DescriptorInv, NEW t \in Openers
    PROVE  /\ run[t] \in Callings /\ FineCall(run[t], platform) /\ FlagsOf(run[t], flags)
           /\ run \in [Openers -> Callings] /\ flags \in SUBSET Bits
           /\ platform \in {"posix", "windows"} /\ DOMAIN run = Openers
BY DEF DescriptorInv

(* A thread that is in no call.                                            *)
LEMMA IdleIs ==
    /\ Idle \in Callings /\ Idle.call = "none" /\ Idle.step = "none"
    /\ Idle.slot = [r \in RoleSet |-> None] /\ \A r \in RoleSet : Idle.slot[r] = None
    /\ Idle.pending = <<>> /\ Idle.peer = "nobody" /\ Idle.seen = {} /\ Idle.before = {}
    /\ Idle.alone = TRUE /\ Idle.done = FALSE
BY EmptySeq DEF Idle, Callings

(* Every place that fails.                                                 *)
LEMMA FailsStep ==
    ASSUME DescriptorInv, NEW t \in Openers, Fails(t), stray = "none",
           run[t].call # "none", run[t].call # "map",
           run[t].call \in Nics => run[t].step \in {"setup", "write"}
    PROVE  DescriptorInv'
<1>1. PICK x : x = [run[t] EXCEPT !.step = "tidy", !.pending = <<>>, !.peer = "nobody",
                                  !.seen = {}]
  OBVIOUS
<1>2. /\ x \in Callings /\ x.slot = run[t].slot /\ x.call = run[t].call /\ x.step = "tidy"
      /\ x.before = run[t].before /\ x.alone = run[t].alone /\ x.done = run[t].done
  BY ZenonT(40), <1>1, Knows, EmptySeq DEF Callings
<1>3. run' = [run EXCEPT ![t] = x] /\ UNCHANGED <<platform, table, stray, flags>>
  BY <1>1, Knows DEF Fails, Callings
<1>4. FineCall(x, platform)
  BY <1>2, Knows DEF FineCall, Empty
<1>5. FlagsOf(x, flags)
  BY <1>2, Knows DEF FlagsOf
<1> QED
  BY <1>2, <1>3, <1>4, <1>5, KeepsNumbers

(* A call begins with a socket of its own: socket_pair on Windows, the     *)
(* creation of a client or a server, nic_up and nic_down.                  *)
LEMMA BeginsStep ==
    ASSUME DescriptorInv, NEW t \in Openers, NEW call \in CallsOf(platform), MayCall(t, call),
           NEW role \in {"listener", "sock"}, NEW step \in {"listen", "setup"},
           \/ call = "pair" /\ role = "listener" /\ step = "listen" /\ platform = "windows"
           \/ call \in {"open"} \cup Nics /\ role = "sock" /\ step = "setup",
           Begins(t, call, role, step)
    PROVE  DescriptorInv'
<1>1. PICK h \in Handles : h = Lowest /\ table[h] = Closed
  BY LowestFree DEF Begins
<1>2. PICK x : x = [Idle EXCEPT !.call = call, !.slot[role] = h, !.step = step,
                                !.before = BeforeOf(call)]
  OBVIOUS
<1>3. run' = [run EXCEPT ![t] = x] /\ UNCHANGED <<platform, stray, flags>>
      /\ table' = [table EXCEPT ![h] = <<t, role>>] /\ stray = "none"
  BY <1>1, <1>2 DEF Begins, MayCall
<1>4. /\ x \in Callings /\ x.call = call /\ x.step = step /\ x.before = BeforeOf(call)
      /\ x.alone = TRUE /\ x.done = FALSE
      /\ x.slot[role] = h /\ \A r \in RoleSet \ {role} : x.slot[r] = None
  <2>1. /\ call \in {"none", "pair", "open", "map"} \cup Nics
        /\ BeforeOf(call) \in SUBSET Bits /\ role \in RoleSet
    BY Knows, RolesAre DEF CallsOf, Nics, BeforeOf
  <2> QED
    BY <1>2, <2>1, IdleIs DEF Callings
<1>5. FineCall(x, platform)
  BY <1>4, RolesAre, DescriptorsAssumption DEF FineCall, Empty, Nics, None
<1>6. FlagsOf(x, flags)
  BY <1>4 DEF FlagsOf, BeforeOf
<1>7. \A r \in RoleSet : run[t].slot[r] = None
  BY DEF MayCall, Holds
<1> QED
  <2>1. role \in RoleSet /\ "listener" \in RoleSet
    BY RolesAre
  <2>2. /\ run[t].slot[role] = None /\ run[t].slot["listener"] = None
        /\ \A r \in RoleSet \ {role} : x.slot[r] = run[t].slot[r]
        /\ x.step # "check"
    BY <1>4, <1>7, <2>1
  <2> QED
    BY ONLY DescriptorInv, t \in Openers, <1>1, <1>3, <1>4, <1>5, <1>6, <2>1, <2>2,
            OpensNumber

(* socket_pair on Windows makes its socket a listener.                     *)
LEMMA ListenStep ==
    ASSUME DescriptorInv, NEW t \in Openers, Listen(t)
    PROVE  DescriptorInv'
<1>1. stray = "none" /\ run[t].call = "pair" /\ run[t].step = "listen"
  BY DEF Listen, At
<1>2. CASE Proceeds(t, "second")
  <2>1. PICK x : x = [run[t] EXCEPT !.step = "second"]
    OBVIOUS
  <2>2. /\ x \in Callings /\ x.slot = run[t].slot /\ x.call = "pair" /\ x.step = "second"
        /\ run' = [run EXCEPT ![t] = x] /\ UNCHANGED <<platform, table, stray, flags>>
    BY ZenonT(40), <1>1, <1>2, <2>1, Knows DEF Proceeds, Goes, Callings
  <2>3. FineCall(x, platform) /\ FlagsOf(x, flags)
    BY <1>1, <2>2, Knows DEF FineCall, Empty, FlagsOf, Nics
  <2> QED
    BY <1>1, <2>2, <2>3, KeepsNumbers
<1>3. CASE Fails(t)
  BY <1>1, <1>3, FailsStep DEF Nics
<1> QED
  BY <1>2, <1>3 DEF Listen

(* socket_pair on Windows opens the socket that connects to the listener.  *)
LEMMA OpenConnectorStep ==
    ASSUME DescriptorInv, NEW t \in Openers, OpenConnector(t)
    PROVE  DescriptorInv'
<1>1. stray = "none" /\ run[t].call = "pair" /\ run[t].step = "second"
  BY DEF OpenConnector, At
<1>2. CASE Opens(t, "connector", "connect")
  <2>1. PICK h \in Handles : h = Lowest /\ table[h] = Closed
    BY <1>2, LowestFree DEF Opens
  <2>2. PICK x : x = [run[t] EXCEPT !.slot["connector"] = h, !.step = "connect"]
    OBVIOUS
  <2>3. /\ x \in Callings /\ x.call = "pair" /\ x.step = "connect"
        /\ x.slot["connector"] = h
        /\ \A r \in RoleSet \ {"connector"} : x.slot[r] = run[t].slot[r]
        /\ run' = [run EXCEPT ![t] = x] /\ UNCHANGED <<platform, stray, flags>>
        /\ table' = [table EXCEPT ![h] = <<t, "connector">>]
    BY SMTT(30), <1>1, <1>2, <2>1, <2>2, Knows, RolesAre DEF Opens, Callings
  <2>4. FineCall(x, platform) /\ FlagsOf(x, flags)
    BY <1>1, <2>3, Knows, RolesAre DEF FineCall, Empty, FlagsOf, Nics
  <2>5. run[t].slot["connector"] = None
    BY <1>1, Knows DEF FineCall, Empty
  <2> QED
    BY <1>1, <2>1, <2>3, <2>4, <2>5, RolesAre, OpensNumber
<1>3. CASE Fails(t)
  BY <1>1, <1>3, FailsStep DEF Nics
<1> QED
  BY <1>2, <1>3 DEF OpenConnector

(* Somebody connects to the listener.                                      *)
LEMMA QueuesStep ==
    ASSUME DescriptorInv, NEW t \in Openers, NEW who \in {"self", "stranger"},
           stray = "none", run[t].call = "pair", Queues(t, who),
           run[t].step \in {"second", "connect", "accept"},
           who = "self" => run[t].step = "connect"
    PROVE  DescriptorInv'
<1>1. PICK p \in Seq({"self", "stranger"}) : p = Append(run[t].pending, who)
  BY Knows, AppendProperties DEF Callings
<1>2. PICK s \in {"second", "connect", "accept"} :
          s = IF who = "self" THEN "accept" ELSE run[t].step
  OBVIOUS
<1>3. PICK x : x = [run[t] EXCEPT !.pending = p, !.step = s]
  OBVIOUS
<1>4. /\ x \in Callings /\ x.slot = run[t].slot /\ x.call = "pair" /\ x.step = s
      /\ run' = [run EXCEPT ![t] = x] /\ UNCHANGED <<platform, table, stray, flags>>
  <2>1. run[t] \in Callings /\ run \in [Openers -> Callings]
    BY Knows
  <2>2. /\ x \in Callings /\ x.slot = run[t].slot /\ x.call = run[t].call /\ x.step = s
    BY ONLY ZenonT(40), <1>1, <1>2, <1>3, <2>1 DEF Callings
  <2>3. run' = [run EXCEPT ![t] = x] /\ UNCHANGED <<platform, table, stray, flags>>
    BY <1>1, <1>2, <1>3, <2>1 DEF Queues, Callings
  <2> QED
    BY <2>2, <2>3
<1>5. FineCall(x, platform) /\ FlagsOf(x, flags)
  BY <1>2, <1>4, Knows DEF FineCall, Empty, FlagsOf, Nics
<1> QED
  BY <1>2, <1>4, <1>5, KeepsNumbers

(* The connection that was accepted may be anybody's.                      *)
LEMMA AcceptStep ==
    ASSUME DescriptorInv, NEW t \in Openers, Accept(t)
    PROVE  DescriptorInv'
<1>1. stray = "none" /\ run[t].call = "pair" /\ run[t].step = "accept"
  BY DEF Accept, At
<1>2. ASSUME Free # {}, run[t].pending # <<>>,
             table' = [table EXCEPT ![Lowest] = <<t, "acceptor">>],
             NEW next \in {"unlisten", "tidy"},
             run' = [run EXCEPT ![t].slot["acceptor"] = Lowest,
                                ![t].peer = Head(run[t].pending),
                                ![t].pending = <<>>,
                                ![t].step = next],
             UNCHANGED <<platform, stray, flags>>
      PROVE  DescriptorInv'
  <2>1. PICK h \in Handles : h = Lowest /\ table[h] = Closed
    BY <1>2, LowestFree
  <2>2. PICK p \in {"self", "stranger"} : p = Head(run[t].pending)
    BY <1>2, Knows, HeadTailProperties DEF Callings
  <2>3. PICK x : x = [run[t] EXCEPT !.slot["acceptor"] = h, !.peer = p,
                                    !.pending = <<>>, !.step = next]
    OBVIOUS
  <2>4. /\ x \in Callings /\ x.call = "pair" /\ x.step = next
        /\ x.slot["acceptor"] = h
        /\ \A r \in RoleSet \ {"acceptor"} : x.slot[r] = run[t].slot[r]
    <3>1. run[t] \in Callings /\ "acceptor" \in RoleSet
      BY Knows, RolesAre
    <3>2. <<>> \in Seq({"self", "stranger"})
      BY EmptySeq
    <3>3. PICK f \in [RoleSet -> Handles \cup {None}] :
             f = [run[t].slot EXCEPT !["acceptor"] = h]
      BY <2>1, <3>1 DEF Callings
    <3>4. x = [run[t] EXCEPT !.slot = f, !.peer = p, !.pending = <<>>, !.step = next]
      BY <2>3, <3>1, <3>3 DEF Callings
    <3>5. /\ x \in Callings /\ x.slot = f /\ x.step = next /\ x.call = run[t].call
      BY ONLY <1>2, <2>2, <3>1, <3>2, <3>3, <3>4 DEF Callings
    <3>6. f["acceptor"] = h /\ \A r \in RoleSet \ {"acceptor"} : f[r] = run[t].slot[r]
      BY <3>1, <3>3 DEF Callings
    <3> QED
      BY <1>1, <3>5, <3>6
  <2>5. /\ run' = [run EXCEPT ![t] = x] /\ UNCHANGED <<platform, stray, flags>>
        /\ table' = [table EXCEPT ![h] = <<t, "acceptor">>]
    BY <1>2, <2>1, <2>2, <2>3, Knows DEF Callings
  <2>6. FineCall(x, platform) /\ FlagsOf(x, flags)
    BY <1>1, <1>2, <2>4, Knows, RolesAre DEF FineCall, Empty, FlagsOf, Nics
  <2>7. run[t].slot["acceptor"] = None
    BY <1>1, Knows DEF FineCall, Empty
  <2> QED
    BY <1>1, <1>2, <2>1, <2>4, <2>5, <2>6, <2>7, RolesAre, OpensNumber
<1>3. CASE Fails(t)
  BY <1>1, <1>3, FailsStep DEF Nics
<1> QED
  BY <1>2, <1>3 DEF Accept

(* The listener is closed, and its variable keeps the number.              *)
LEMMA UnlistenStep ==
    ASSUME DescriptorInv, NEW t \in Openers, Unlisten(t)
    PROVE  DescriptorInv'
<1>1. /\ stray = "none" /\ run[t].call = "pair" /\ run[t].step = "unlisten"
      /\ UNCHANGED <<platform, flags>>
  BY DEF Unlisten, At
<1>2. /\ OwnsOf(t, run[t], table) /\ table \in [Handles -> TableEntries]
      /\ \A u \in Openers : OwnsOf(u, run[u], table)
      /\ \A u \in Openers : run[u].slot \in [RoleSet -> Handles \cup {None}]
      /\ "listener" \in RoleSet
  BY <1>1, RolesAre DEF DescriptorInv, Callings
<1>3. PICK h \in Handles : h = run[t].slot["listener"] /\ table[h] = <<t, "listener">>
  <2>1. run[t].slot["listener"] # None
    BY <1>1, Knows DEF FineCall
  <2> QED
    BY <1>1, <1>2, <2>1 DEF OwnsOf
<1>4. table' = [table EXCEPT ![h] = Closed] /\ stray' = "none"
  BY <1>1, <1>3 DEF Unlisten, Closes
<1>5. PICK x : x = [run[t] EXCEPT !.step = "check"]
  OBVIOUS
<1>6. /\ x \in Callings /\ x.slot = run[t].slot /\ x.call = "pair" /\ x.step = "check"
      /\ run' = [run EXCEPT ![t] = x]
  BY ZenonT(40), <1>1, <1>5, Knows DEF Unlisten, Goes, Callings
<1>7. FineCall(x, platform) /\ FlagsOf(x, flags)
  BY <1>1, <1>6, Knows DEF FineCall, Empty, FlagsOf, Nics
<1>8. table' \in [Handles -> TableEntries]
  BY <1>2, <1>4 DEF TableEntries
<1>9. ASSUME NEW u \in Openers \ {t} PROVE OwnsOf(u, run[u], table')
  <2>1. \A r \in RoleSet : table[h] # <<u, r>> /\ Closed # <<u, r>>
    BY <1>3 DEF Closed
  <2> QED
    BY <1>2, <1>4, <2>1, Unaffected
<1>10. OwnsOf(t, x, table')
  <2>1. ASSUME NEW k \in Handles, NEW r \in RoleSet, table'[k] = <<t, r>>
        PROVE  k # h /\ table[k] = <<t, r>>
    BY <1>2, <1>4, <2>1 DEF Closed
  <2>2. ASSUME NEW k \in Handles PROVE table'[k] # <<t, "listener">>
    <3>1. 0 \in Nat /\ "listener" # "file"
      OBVIOUS
    <3> QED
      BY <1>2, <1>3, <2>1, <3>1 DEF OwnsOf
  <2>3. ASSUME NEW r \in RoleSet, x.slot[r] # None
        PROVE  table'[x.slot[r]] = <<t, r>> \/ r = "listener"
    <3>1. PICK k \in Handles : k = x.slot[r] /\ k = run[t].slot[r]
      BY <1>2, <1>6, <2>3
    <3>2. table[k] = <<t, r>> \/ r = "listener"
      BY <1>2, <2>3, <3>1 DEF OwnsOf
    <3>3. table[k] = <<t, r>> /\ r # "listener" => table'[k] = <<t, r>>
      BY <1>2, <1>3, <1>4
    <3> QED
      BY ONLY <3>1, <3>2, <3>3
  <2>4. \A r \in RoleSet : table'[h] # <<t, r>>
    BY <1>2, <1>4 DEF Closed
  <2> QED
    <3>1. \A k \in Handles, r \in RoleSet :
             table'[k] = <<t, r>> => x.slot[r] = k \/ (k = 0 /\ r = "file")
      BY <1>2, <1>6, <2>1 DEF OwnsOf
    <3>2. \A r \in RoleSet : x.slot[r] # None =>
             \/ table'[x.slot[r]] = <<t, r>>
             \/ r = "listener" /\ x.step \in {"check", "tidy"}
      BY <1>6, <2>3
    <3>3. \A r \in RoleSet \ {"listener"} : table'[x.slot["listener"]] # <<t, r>>
      BY <1>3, <1>6, <2>4
    <3> QED
      BY <2>2, <3>1, <3>2, <3>3 DEF OwnsOf
<1> QED
  BY <1>1, <1>4, <1>6, <1>7, <1>8, <1>9, <1>10, OneCall

(* What a call leaves behind.                                              *)
LEMMA ReturnsIs ==
    ASSUME DescriptorInv, NEW t \in Openers, NEW kept \in SUBSET RoleSet, Returns(t, kept)
    PROVE  \E x \in Callings :
              /\ run' = [run EXCEPT ![t] = x] /\ x.call = "none" /\ x.step = "none"
              /\ \A r \in RoleSet : x.slot[r] = IF r \in kept THEN run[t].slot[r] ELSE None
              /\ kept # {} => x.peer = run[t].peer
<1>1. PICK f \in [RoleSet -> Handles \cup {None}] :
         f = [r \in RoleSet |-> IF r \in kept THEN run[t].slot[r] ELSE None]
  BY Knows DEF Callings
<1>2. PICK p \in {"nobody", "self", "stranger"} :
         p = IF kept = {} THEN "nobody" ELSE run[t].peer
  BY Knows DEF Callings
<1>3. PICK x : x = [Idle EXCEPT !.slot = f, !.peer = p]
  OBVIOUS
<1>4. x \in Callings /\ x.call = "none" /\ x.step = "none" /\ x.slot = f /\ x.peer = p
  BY <1>3, IdleIs DEF Callings
<1>5. run' = [run EXCEPT ![t] = x]
  BY <1>1, <1>2, <1>3 DEF Returns
<1> QED
  BY <1>1, <1>2, <1>4, <1>5

(* The pair is handed out.                                                 *)
LEMMA CheckStep ==
    ASSUME DescriptorInv, NEW t \in Openers, Check(t)
    PROVE  DescriptorInv'
<1>1. stray = "none" /\ run[t].call = "pair" /\ run[t].step = "check"
  BY DEF Check, At
<1>2. CASE /\ TalksToItself(t)
           /\ Returns(t, {"connector", "acceptor"})
           /\ UNCHANGED <<platform, table, stray, flags>>
  <2>1. PICK x \in Callings :
           /\ run' = [run EXCEPT ![t] = x] /\ x.call = "none" /\ x.step = "none"
           /\ \A r \in RoleSet : x.slot[r] = IF r \in {"connector", "acceptor"}
                                             THEN run[t].slot[r] ELSE None
           /\ x.peer = run[t].peer
    BY <1>2, RolesAre, ReturnsIs
  <2>2. FineCall(x, platform) /\ FlagsOf(x, flags)
    BY <1>2, <2>1, RolesAre DEF FineCall, Empty, FlagsOf, Nics, TalksToItself
  <2>3. /\ OwnsOf(t, run[t], table) /\ table \in [Handles -> TableEntries]
        /\ \A u \in Openers : OwnsOf(u, run[u], table)
        /\ FineCall(run[t], platform)
    BY <1>1 DEF DescriptorInv
  <2>4. OwnsOf(t, x, table)
    <3>1. ASSUME NEW k \in Handles, NEW r \in RoleSet, table[k] = <<t, r>>
          PROVE  x.slot[r] = k \/ (k = 0 /\ r = "file")
      <4>1. r # "listener"
        BY <1>1, <2>3, <3>1 DEF OwnsOf
      <4>2. run[t].slot[r] = k \/ (k = 0 /\ r = "file")
        BY <2>3, <3>1 DEF OwnsOf
      <4>3. k # None
        BY DescriptorsAssumption DEF None
      <4>4. r \in {"sock", "file"} => run[t].slot[r] = None
        BY <1>1, <2>3 DEF FineCall, Empty
      <4>5. r \in {"connector", "acceptor"} => x.slot[r] = run[t].slot[r]
        BY <2>1
      <4> QED
        BY ONLY <4>1, <4>2, <4>3, <4>4, <4>5, RolesAre, r \in RoleSet
    <3>2. ASSUME NEW r \in RoleSet, x.slot[r] # None PROVE table[x.slot[r]] = <<t, r>>
      <4>1. r \in {"connector", "acceptor"} /\ x.slot[r] = run[t].slot[r]
        BY <2>1, <3>2
      <4> QED
        BY <2>3, <3>2, <4>1 DEF OwnsOf
    <3>3. x.slot["listener"] = None
      BY <2>1, RolesAre
    <3> QED
      BY <2>1, <3>1, <3>2, <3>3 DEF OwnsOf
  <2> QED
    BY <1>1, <1>2, <2>1, <2>2, <2>3, <2>4, OneCall
<1>3. CASE Fails(t)
  BY <1>1, <1>3, FailsStep DEF Nics
<1> QED
  BY <1>2, <1>3 DEF Check

(* A socket is handed out.                                                 *)
LEMMA SetUpStep ==
    ASSUME DescriptorInv, NEW t \in Openers, SetUp(t)
    PROVE  DescriptorInv'
<1>1. stray = "none" /\ run[t].call = "open" /\ run[t].step = "setup"
  BY DEF SetUp, At
<1>2. CASE Returns(t, {"sock"}) /\ UNCHANGED <<platform, table, stray, flags>>
  <2>1. PICK x \in Callings :
           /\ run' = [run EXCEPT ![t] = x] /\ x.call = "none" /\ x.step = "none"
           /\ \A r \in RoleSet : x.slot[r] = IF r \in {"sock"} THEN run[t].slot[r] ELSE None
    BY <1>2, RolesAre, ReturnsIs
  <2>2. FineCall(x, platform) /\ FlagsOf(x, flags)
    BY <2>1, RolesAre DEF FineCall, Empty, FlagsOf, Nics
  <2>3. \A r \in RoleSet : x.slot[r] = run[t].slot[r]
    BY <1>1, <2>1, Knows, RolesAre DEF FineCall, Empty
  <2> QED
    BY <1>1, <1>2, <2>1, <2>2, <2>3, KeepsNumbers
<1>3. CASE Fails(t)
  BY <1>1, <1>3, FailsStep DEF Nics
<1> QED
  BY <1>2, <1>3 DEF SetUp

(* The flags are read.                                                     *)
LEMMA GetFlagsStep ==
    ASSUME DescriptorInv, NEW t \in Openers, GetFlags(t)
    PROVE  DescriptorInv'
<1>1. stray = "none" /\ run[t].call \in Nics /\ run[t].step = "setup"
  BY DEF GetFlags, At, Nics
<1>2. CASE /\ run' = [run EXCEPT ![t].seen = flags, ![t].step = "write"]
           /\ UNCHANGED <<platform, table, stray, flags>>
  <2>1. PICK x : x = [run[t] EXCEPT !.seen = flags, !.step = "write"]
    OBVIOUS
  <2>2. /\ x \in Callings /\ x.slot = run[t].slot /\ x.call = run[t].call
        /\ x.step = "write" /\ x.seen = flags /\ x.before = run[t].before
        /\ x.alone = run[t].alone /\ x.done = run[t].done
        /\ run' = [run EXCEPT ![t] = x]
    BY ZenonT(40), <1>2, <2>1, Knows DEF Callings
  <2>3. FineCall(x, platform)
    BY <1>1, <2>2, Knows DEF FineCall, Empty, Nics
  <2>4. FlagsOf(x, flags)
    BY <1>1, <2>2, Knows DEF FlagsOf
  <2> QED
    BY <1>1, <1>2, <2>2, <2>3, <2>4, KeepsNumbers
<1>3. CASE Fails(t)
  BY <1>1, <1>3, FailsStep DEF Nics
<1> QED
  BY <1>2, <1>3 DEF GetFlags

(* The flags change, by a call or by another process.                      *)
LEMMA DisturbsStep ==
    ASSUME DescriptorInv, NEW who, run' = Disturbs(who), flags' \in SUBSET Bits,
           stray = "none", UNCHANGED <<platform, table, stray>>,
           who \in Openers => /\ run[who].call \in Nics /\ run[who].step = "write"
                              /\ flags' = NewFlags(run[who].call, run[who].seen)
    PROVE  DescriptorInv'
<1>1. /\ run \in [Openers -> Callings] /\ table \in [Handles -> TableEntries]
      /\ \A u \in Openers : /\ run[u] \in Callings /\ OwnsOf(u, run[u], table)
                            /\ FineCall(run[u], platform) /\ FlagsOf(run[u], flags)
  BY DEF DescriptorInv
<1>2. ASSUME NEW u \in Openers
      PROVE  /\ run'[u] \in Callings /\ FineCall(run'[u], platform)
             /\ FlagsOf(run'[u], flags') /\ OwnsOf(u, run'[u], table)
  <2>1. run'[u] = IF u = who THEN [run[u] EXCEPT !.done = TRUE, !.step = "tidy", !.seen = {}]
                  ELSE IF run[u].call \in Nics
                  THEN [run[u] EXCEPT !.alone = FALSE, !.before = {}]
                  ELSE run[u]
    BY Zenon DEF Disturbs
  <2>2. CASE u = who
    <3>1. /\ run'[u] \in Callings /\ run'[u].slot = run[u].slot
          /\ run'[u].call = run[u].call /\ run'[u].step = "tidy" /\ run'[u].done = TRUE
          /\ run'[u].alone = run[u].alone /\ run'[u].before = run[u].before
      <4>1. run'[u] = [run[u] EXCEPT !.done = TRUE, !.step = "tidy", !.seen = {}]
        BY <2>1, <2>2
      <4>2. run[u] \in Callings
        BY <1>1
      <4> QED
        BY ONLY <4>1, <4>2 DEF Callings
    <3>2. run[u].call \in Nics /\ run[u].step = "write"
      BY <2>2
    <3>3. FineCall(run'[u], platform)
      BY <1>1, <3>1, <3>2 DEF FineCall, Empty, Nics
    <3>4. FlagsOf(run'[u], flags')
      <4>1. run[u].alone = TRUE => run[u].seen = run[u].before
        BY <1>1, <3>2 DEF FlagsOf
      <4>2. flags' = NewFlags(run[u].call, run[u].seen)
        BY <2>2
      <4>3. run[u].alone = TRUE => flags' = Asked(run[u].call, run[u].before)
        BY <4>1, <4>2 DEF Asked, NewFlags
      <4> QED
        BY <3>1, <4>3 DEF FlagsOf
    <3>5. OwnsOf(u, run'[u], table)
      BY <1>1, <3>1, <3>2 DEF OwnsOf
    <3> QED
      BY <3>1, <3>3, <3>4, <3>5
  <2>3. CASE u # who /\ run[u].call \in Nics
    <3>1. /\ run'[u] \in Callings /\ run'[u].slot = run[u].slot
          /\ run'[u].call = run[u].call /\ run'[u].step = run[u].step
          /\ run'[u].alone = FALSE /\ run'[u].peer = run[u].peer
      BY ZenonT(40), <1>1, <2>1, <2>3 DEF Callings
    <3>2. FineCall(run'[u], platform)
      BY <1>1, <3>1 DEF FineCall, Empty
    <3>3. FlagsOf(run'[u], flags')
      BY <3>1 DEF FlagsOf
    <3>4. OwnsOf(u, run'[u], table)
      BY <1>1, <3>1 DEF OwnsOf
    <3> QED
      BY <3>1, <3>2, <3>3, <3>4
  <2>4. CASE u # who /\ run[u].call \notin Nics
    <3>1. run'[u] = run[u]
      BY <2>1, <2>4
    <3> QED
      BY <1>1, <2>4, <3>1 DEF FlagsOf
  <2> QED
    BY SMTT(30), <2>2, <2>3, <2>4
<1>3. run' \in [Openers -> Callings]
  BY Zenon, <1>2 DEF Disturbs
<1> QED
  BY <1>1, <1>2, <1>3 DEF DescriptorInv

(* A file is opened; number 0 gets lost.                                   *)
LEMMA OpenFileStep ==
    ASSUME DescriptorInv, NEW t \in Openers, OpenFile(t)
    PROVE  DescriptorInv'
<1>1. PICK h \in Handles : h = Lowest /\ table[h] = Closed
  BY LowestFree DEF OpenFile
<1>2. PICK n : n = IF IsOpen(h) THEN h ELSE None
  OBVIOUS
<1>3. n \in Handles \cup {None} /\ (n = h \/ (n = None /\ h = 0))
  <2>1. h \in Nat
    BY DescriptorsAssumption
  <2>2. IsOpen(h) \/ h = 0
    BY <2>1 DEF IsOpen
  <2>3. n = h \/ (n = None /\ h = 0)
    BY <1>2, <2>2
  <2> QED
    BY <2>3
<1>4. PICK x : x = [Idle EXCEPT !.call = "map", !.step = "tidy", !.slot["file"] = n]
  OBVIOUS
<1>5. /\ x \in Callings /\ x.call = "map" /\ x.step = "tidy" /\ "file" \in RoleSet
      /\ x.slot["file"] = n /\ \A r \in RoleSet \ {"file"} : x.slot[r] = None
  BY <1>4, <1>3, IdleIs, RolesAre DEF Callings
<1>6. /\ run' = [run EXCEPT ![t] = x] /\ UNCHANGED <<platform, stray, flags>>
      /\ table' = [table EXCEPT ![h] = <<t, "file">>] /\ stray = "none"
  BY <1>1, <1>2, <1>4 DEF OpenFile, MayCall
<1>7. FineCall(x, platform) /\ FlagsOf(x, flags)
  BY <1>5, RolesAre DEF FineCall, FlagsOf, Empty, Nics
<1>8. \A r \in RoleSet : run[t].slot[r] = None
  BY DEF OpenFile, MayCall, Holds
<1> QED
  <2>1. /\ run[t].slot["file"] = None /\ run[t].slot["listener"] = None
        /\ \A r \in RoleSet \ {"file"} : x.slot[r] = run[t].slot[r]
        /\ x.step # "check"
        /\ x.slot["file"] = h \/ (x.slot["file"] = None /\ h = 0)
    BY <1>5, <1>8, <1>3, RolesAre
  <2> QED
    BY ONLY ZenonT(40), DescriptorInv, t \in Openers, <1>1, <1>5, <1>6, <1>7, <2>1, OpensNumber

(* The variable that is closed next holds a number.                        *)
LEMMA FirstHeld ==
    ASSUME NEW t, ToClose(t) # {}
    PROVE  FirstToClose(t) \in Holds(t)
<1>1. /\ DOMAIN Roles = 1 .. 5
      /\ Roles[1] = "listener" /\ Roles[2] = "connector" /\ Roles[3] = "acceptor"
      /\ Roles[4] = "sock" /\ Roles[5] = "file"
  BY DEF Roles
<1>. DEFINE First(i) == /\ Roles[i] \in ToClose(t)
                        /\ \A j \in 1 .. i - 1 : Roles[j] \notin ToClose(t)
<1>2. \E i \in DOMAIN Roles : First(i)
  <2>1. CASE Roles[1] \in ToClose(t)
    BY <1>1, <2>1
  <2>2. CASE Roles[1] \notin ToClose(t) /\ Roles[2] \in ToClose(t)
    BY <1>1, <2>2
  <2>3. CASE /\ Roles[1] \notin ToClose(t) /\ Roles[2] \notin ToClose(t)
             /\ Roles[3] \in ToClose(t)
    BY <1>1, <2>3
  <2>4. CASE /\ Roles[1] \notin ToClose(t) /\ Roles[2] \notin ToClose(t)
             /\ Roles[3] \notin ToClose(t) /\ Roles[4] \in ToClose(t)
    BY <1>1, <2>4
  <2>5. CASE /\ Roles[1] \notin ToClose(t) /\ Roles[2] \notin ToClose(t)
             /\ Roles[3] \notin ToClose(t) /\ Roles[4] \notin ToClose(t)
    <3>1. Roles[5] \in ToClose(t)
      BY <1>1, <2>5, RolesAre DEF ToClose, Holds
    <3> QED
      BY <1>1, <2>5, <3>1
  <2> QED
    BY <2>1, <2>2, <2>3, <2>4, <2>5
<1>3. First(CHOOSE i \in DOMAIN Roles : First(i))
  BY ONLY <1>2
<1> QED
  BY <1>3 DEF FirstToClose, ToClose

(* A call closes one of its numbers, or returns.                           *)
LEMMA TidyStep ==
    ASSUME DescriptorInv, NEW t \in Openers, Tidy(t)
    PROVE  DescriptorInv'
<1>1. stray = "none" /\ run[t].step = "tidy" /\ UNCHANGED <<platform, flags>>
  BY DEF Tidy
<1>2. CASE ToClose(t) # {}
  <2>1. PICK role \in RoleSet : role = FirstToClose(t) /\ run[t].slot[role] # None
    BY <1>2, FirstHeld DEF Holds
  <2>2. Closes(t, role) /\ run' = [run EXCEPT ![t].slot[role] = None]
    BY <1>2, <2>1 DEF Tidy
  <2>3. PICK x : x = [run[t] EXCEPT !.slot[role] = None]
    OBVIOUS
  <2>4. /\ x \in Callings /\ x.call = run[t].call /\ x.step = run[t].step
        /\ x.before = run[t].before /\ x.alone = run[t].alone /\ x.done = run[t].done
        /\ x.seen = run[t].seen /\ x.slot[role] = None
        /\ \A r \in RoleSet \ {role} : x.slot[r] = run[t].slot[r]
        /\ run' = [run EXCEPT ![t] = x]
    BY ZenonT(40), <2>1, <2>2, <2>3, Knows DEF Callings
  <2>5. FineCall(x, platform)
    <3>1. \A r \in RoleSet : x.slot[r] = None \/ x.slot[r] = run[t].slot[r]
      BY <2>4
    <3> QED
      BY <1>1, <2>4, <3>1, Knows, RolesAre DEF FineCall, Empty
  <2>6. FlagsOf(x, flags)
    BY <2>4, Knows DEF FlagsOf
  <2> QED
    BY <1>1, <2>1, <2>2, <2>4, <2>5, <2>6, ClosesNumber
<1>3. CASE ToClose(t) = {}
  <2>1. Returns(t, {}) /\ UNCHANGED <<table, stray>>
    BY <1>3 DEF Tidy
  <2>2. PICK x \in Callings :
           /\ run' = [run EXCEPT ![t] = x] /\ x.call = "none" /\ x.step = "none"
           /\ \A r \in RoleSet : x.slot[r] = IF r \in {} THEN run[t].slot[r] ELSE None
    BY <2>1, ReturnsIs
  <2>3. \A r \in RoleSet : x.slot[r] = None /\ run[t].slot[r] = None
    BY <1>3, <2>2 DEF ToClose, Holds
  <2>4. FineCall(x, platform) /\ FlagsOf(x, flags)
    BY <2>2, <2>3, RolesAre DEF FineCall, Empty, FlagsOf, Nics
  <2> QED
    BY ZenonT(40), <1>1, <2>1, <2>2, <2>3, <2>4, RolesAre, KeepsNumbers
<1> QED
  BY <1>2, <1>3

(* The caller closes a descriptor that it was given.                       *)
LEMMA CloseHeldStep ==
    ASSUME DescriptorInv, NEW t \in Openers, CloseHeld(t)
    PROVE  DescriptorInv'
<1>1. stray = "none" /\ run[t].call = "none" /\ UNCHANGED <<platform, flags>>
  BY DEF CloseHeld
<1>2. PICK role \in RoleSet :
         /\ run[t].slot[role] # None /\ Closes(t, role)
         /\ run' = [run EXCEPT ![t].slot[role] = None, ![t].peer = "nobody"]
  BY DEF CloseHeld, Holds
<1>3. PICK x : x = [run[t] EXCEPT !.slot[role] = None, !.peer = "nobody"]
  OBVIOUS
<1>4. /\ x \in Callings /\ x.call = "none" /\ x.step = run[t].step
      /\ x.slot[role] = None /\ \A r \in RoleSet \ {role} : x.slot[r] = run[t].slot[r]
      /\ run' = [run EXCEPT ![t] = x]
  BY ZenonT(40), <1>1, <1>2, <1>3, Knows DEF Callings
<1>5. FineCall(x, platform) /\ x.step = "none"
  <2>1. FineCall(run[t], platform)
    BY Knows
  <2> QED
    BY <1>1, <1>2, <1>4, <2>1, RolesAre DEF FineCall, Empty, Nics
<1>6. FlagsOf(x, flags)
  BY <1>4 DEF FlagsOf, Nics
<1> QED
  BY <1>1, <1>2, <1>4, <1>5, <1>6, ClosesNumber

(* The kernel makes a pair.                                                *)
LEMMA SocketpairStep ==
    ASSUME DescriptorInv, NEW t \in Openers, Socketpair(t)
    PROVE  DescriptorInv'
<1>1. stray = "none" /\ UNCHANGED <<platform, stray, flags>>
  BY DEF Socketpair, MayCall
<1>2. PICK h \in Free, k \in Free :
         /\ h < k
         /\ table' = [table EXCEPT ![h] = <<t, "connector">>, ![k] = <<t, "acceptor">>]
         /\ run' = [run EXCEPT ![t] = [Idle EXCEPT !.slot["connector"] = h,
                                                   !.slot["acceptor"] = k,
                                                   !.peer = "self"]]
  BY DEF Socketpair
<1>3. /\ h \in Handles /\ k \in Handles /\ h # k
      /\ table[h] = Closed /\ table[k] = Closed /\ h # None /\ k # None
  BY <1>2, DescriptorsAssumption DEF Free, None
<1>4. PICK first : first = [table EXCEPT ![h] = <<t, "connector">>]
  OBVIOUS
<1>5. /\ \A u \in Openers : OwnsOf(u, run[u], table)
      /\ \A u \in Openers : run[u].slot \in [RoleSet -> Handles \cup {None}]
      /\ table \in [Handles -> TableEntries]
      /\ \A r \in RoleSet : run[t].slot[r] = None
  BY <1>1 DEF DescriptorInv, Callings, Socketpair, MayCall, Holds
<1>6. /\ first \in [Handles -> TableEntries] /\ first[k] = Closed
      /\ table' = [first EXCEPT ![k] = <<t, "acceptor">>]
      /\ table' \in [Handles -> TableEntries]
  BY <1>2, <1>3, <1>4, <1>5, RolesAre DEF TableEntries
<1>7. PICK x : x = [Idle EXCEPT !.slot["connector"] = h, !.slot["acceptor"] = k,
                                !.peer = "self"]
  OBVIOUS
<1>8. /\ x \in Callings /\ x.call = "none" /\ x.step = "none" /\ x.peer = "self"
      /\ x.slot["connector"] = h /\ x.slot["acceptor"] = k
      /\ \A r \in RoleSet \ {"connector", "acceptor"} : x.slot[r] = None
      /\ run' = [run EXCEPT ![t] = x]
  BY <1>2, <1>3, <1>7, IdleIs, RolesAre DEF Callings
<1>9. FineCall(x, platform) /\ FlagsOf(x, flags)
  BY <1>8, RolesAre DEF FineCall, Empty, FlagsOf, Nics
<1>10. ASSUME NEW u \in Openers \ {t} PROVE OwnsOf(u, run[u], table')
  <2>1. \A r \in RoleSet : table[h] # <<u, r>> /\ <<t, "connector">> # <<u, r>>
    BY <1>3 DEF Closed
  <2>2. OwnsOf(u, run[u], first)
    BY <1>3, <1>4, <1>5, <2>1, Unaffected
  <2>3. \A r \in RoleSet : first[k] # <<u, r>> /\ <<t, "acceptor">> # <<u, r>>
    BY <1>6 DEF Closed
  <2> QED
    BY <1>3, <1>5, <1>6, <2>2, <2>3, Unaffected
<1>11. OwnsOf(t, x, table')
  <2>1. /\ table'[h] = <<t, "connector">> /\ table'[k] = <<t, "acceptor">>
        /\ \A l \in Handles \ {h, k} : table'[l] = table[l]
    BY <1>3, <1>4, <1>5, <1>6
  <2>2. ASSUME NEW l \in Handles, NEW r \in RoleSet, table'[l] = <<t, r>>
        PROVE  x.slot[r] = l \/ (l = 0 /\ r = "file")
    <3>1. CASE l = h
      BY <1>8, <2>1, <2>2, <3>1
    <3>2. CASE l = k
      BY <1>8, <2>1, <2>2, <3>2
    <3>3. CASE l \notin {h, k}
      <4>1. table[l] = <<t, r>>
        BY <2>1, <2>2, <3>3
      <4>2. run[t].slot[r] = l \/ (l = 0 /\ r = "file")
        BY <1>5, <4>1 DEF OwnsOf
      <4>3. l # None
        BY DescriptorsAssumption DEF None
      <4> QED
        BY <1>5, <4>2, <4>3
    <3> QED
      BY <3>1, <3>2, <3>3
  <2>3. ASSUME NEW r \in RoleSet, x.slot[r] # None PROVE table'[x.slot[r]] = <<t, r>>
    <3>1. r \in {"connector", "acceptor"}
      BY <1>8, <2>3
    <3> QED
      BY <1>8, <2>1, <3>1
  <2>4. x.slot["listener"] = None
    BY <1>8, RolesAre
  <2> QED
    BY <1>8, <2>2, <2>3, <2>4 DEF OwnsOf
<1> QED
  BY <1>1, <1>6, <1>8, <1>9, <1>10, <1>11, OneCall

(* Every step of every thread keeps the table, the variables and the flags *)
(* in agreement.                                                           *)
LEMMA DescriptorStep == DescriptorInv /\ [DescriptorsNext]_descriptorVars => DescriptorInv'
<1> SUFFICES ASSUME DescriptorInv, [DescriptorsNext]_descriptorVars PROVE DescriptorInv'
  OBVIOUS
<1>1. ASSUME NEW t \in Openers, SocketPair(t) PROVE DescriptorInv'
  <2>1. CASE OpenListener(t)
    <3>1. /\ MayCall(t, "pair") /\ platform = "windows"
          /\ Begins(t, "pair", "listener", "listen") /\ "pair" \in CallsOf(platform)
      BY <2>1 DEF OpenListener, CallsOf
    <3> QED
      BY <3>1, BeginsStep
  <2>2. CASE Listen(t)
    BY <2>2, ListenStep
  <2>3. CASE OpenConnector(t)
    BY <2>3, OpenConnectorStep
  <2>4. CASE Connect(t)
    <3>1. stray = "none" /\ run[t].call = "pair" /\ run[t].step = "connect"
      BY <2>4 DEF Connect, At
    <3>2. CASE Queues(t, "self")
      BY <3>1, <3>2, QueuesStep
    <3>3. CASE Fails(t)
      BY <3>1, <3>3, FailsStep DEF Nics
    <3> QED
      BY <2>4, <3>2, <3>3 DEF Connect
  <2>5. CASE Stranger(t)
    <3>1. /\ stray = "none" /\ run[t].call = "pair" /\ Queues(t, "stranger")
          /\ run[t].step \in {"second", "connect", "accept"}
      BY <2>5 DEF Stranger, Listening, At
    <3> QED
      BY <3>1, QueuesStep
  <2>6. CASE Accept(t)
    BY <2>6, AcceptStep
  <2>7. CASE Unlisten(t)
    BY <2>7, UnlistenStep
  <2>8. CASE Check(t)
    BY <2>8, CheckStep
  <2>9. CASE Socketpair(t)
    BY <2>9, SocketpairStep
  <2> QED
    BY <1>1, <2>1, <2>2, <2>3, <2>4, <2>5, <2>6, <2>7, <2>8, <2>9 DEF SocketPair
<1>2. ASSUME NEW t \in Openers, OpenOne(t) PROVE DescriptorInv'
  <2>1. PICK call \in {"open"} \cup Nics :
           MayCall(t, call) /\ Begins(t, call, "sock", "setup")
    BY <1>2 DEF OpenOne
  <2>2. call \in CallsOf(platform)
    BY <2>1 DEF MayCall
  <2> QED
    BY <2>1, <2>2, BeginsStep
<1>3. ASSUME NEW t \in Openers, SetFlags(t) PROVE DescriptorInv'
  <2>1. stray = "none" /\ run[t].call \in Nics /\ run[t].step = "write"
    BY <1>3 DEF SetFlags, At, Nics
  <2>2. CASE /\ flags' = NewFlags(run[t].call, run[t].seen)
             /\ run' = Disturbs(t) /\ UNCHANGED <<platform, table, stray>>
    <3>1. run[t].seen \in SUBSET Bits
      BY Knows DEF Callings
    <3>2. flags' \in SUBSET Bits
      BY <2>2, <3>1 DEF NewFlags, Bits
    <3> QED
      BY <2>1, <2>2, <3>2, DisturbsStep
  <2>3. CASE Fails(t)
    <3>1. run[t].call # "none" /\ run[t].call # "map"
      BY <2>1 DEF Nics
    <3> QED
      BY <2>1, <2>3, <3>1, FailsStep
  <2> QED
    BY <1>3, <2>2, <2>3 DEF SetFlags
<1>4. CASE OtherProcess
  <2>1. /\ stray = "none" /\ run' = Disturbs("nobody")
        /\ UNCHANGED <<platform, table, stray>>
    BY <1>4 DEF OtherProcess
  <2>2. flags \in SUBSET Bits
    BY DEF DescriptorInv
  <2>3. flags' \in SUBSET Bits
    BY <1>4, <2>2 DEF OtherProcess, Bits
  <2> QED
    BY <2>1, <2>3, DescriptorsAssumption, DisturbsStep
<1>5. CASE UNCHANGED descriptorVars
  BY <1>5 DEF descriptorVars, DescriptorInv
<1>6. ASSUME NEW t \in Openers,
             SetUp(t) \/ GetFlags(t) \/ OpenFile(t) \/ Tidy(t) \/ CloseHeld(t)
      PROVE  DescriptorInv'
  BY <1>6, SetUpStep, GetFlagsStep, OpenFileStep, TidyStep, CloseHeldStep
<1> QED
  BY <1>1, <1>2, <1>3, <1>4, <1>5, <1>6 DEF DescriptorsNext

(* At the beginning nobody has opened anything.                            *)
LEMMA DescriptorStart == DescriptorsInit => DescriptorInv
<1> SUFFICES ASSUME DescriptorsInit PROVE DescriptorInv
  OBVIOUS
<1>1. /\ table \in [Handles -> {Closed, Stdin}] /\ run = [t \in Openers |-> Idle]
      /\ stray = "none" /\ flags = {} /\ platform \in {"posix", "windows"}
  BY DEF DescriptorsInit
<1>2. run \in [Openers -> Callings] /\ table \in [Handles -> TableEntries]
  BY <1>1, IdleIs DEF TableEntries
<1>3. FineCall(Idle, platform) /\ FlagsOf(Idle, flags)
  BY IdleIs, RolesAre DEF FineCall, Empty, FlagsOf, Nics
<1>4. ASSUME NEW t \in Openers PROVE OwnsOf(t, Idle, table)
  <2>1. \A r \in RoleSet : Closed # <<t, r>> /\ Stdin # <<t, r>>
    BY RolesAre DEF Closed, Stdin
  <2>2. \A h \in Handles, r \in RoleSet : table[h] # <<t, r>>
    BY <1>1, <2>1
  <2> QED
    BY <2>2, IdleIs, RolesAre DEF OwnsOf
<1> QED
  BY <1>1, <1>2, <1>3, <1>4 DEF DescriptorInv

(* The invariant of the table.                                             *)
THEOREM DescriptorInvariant == DescriptorsSpec => []DescriptorInv
BY DescriptorStart, DescriptorStep, PTL DEF DescriptorsSpec

(* No call loses a descriptor or closes one that another thread has        *)
(* opened, but for the listener of socket_pair on Windows and number 0 in  *)
(* filemap_create, for every number of threads and descriptors.            *)
THEOREM DescriptorsCorrect == DescriptorsSpec => []DescriptorsOwned
<1>1. DescriptorInv => DescriptorsOwned
  <2> SUFFICES ASSUME DescriptorInv PROVE DescriptorsOwned
    OBVIOUS
  <2>1. CASE stray # "none"
    BY <2>1 DEF DescriptorInv, DescriptorsOwned
  <2>2. CASE stray = "none"
    <3>1. \A t \in Openers : OwnsOf(t, run[t], table)
      BY <2>2 DEF DescriptorInv
    <3> QED
      BY <2>2, <3>1 DEF OwnsOf, DescriptorsOwned, Holds
  <2> QED
    BY <2>1, <2>2
<1> QED
  BY <1>1, DescriptorInvariant, PTL

(* socket_pair hands out two ends of one connection, whoever else connects *)
(* meanwhile.                                                              *)
THEOREM PairCorrect == DescriptorsSpec => []PairConnected
<1>1. DescriptorInv => PairConnected
  <2> SUFFICES ASSUME DescriptorInv, NEW t \in Openers, run[t].call = "none",
                      {"connector", "acceptor"} \subseteq Holds(t)
               PROVE  run[t].peer = "self"
    BY DEF PairConnected
  <2>1. run[t].slot["connector"] # None /\ run[t].slot["acceptor"] # None
    BY DEF Holds
  <2> QED
    BY <2>1, Knows DEF FineCall, Empty
<1> QED
  BY <1>1, DescriptorInvariant, PTL

(* nic_up and nic_down change the flags they are asked to change and leave *)
(* the others, as long as nobody else changes any.                         *)
THEOREM FlagsCorrect == DescriptorsSpec => []FlagsExact
<1>1. DescriptorInv => FlagsExact
  BY Knows DEF FlagsExact, FlagsOf
<1> QED
  BY <1>1, DescriptorInvariant, PTL

-----------------------------------------------------------------------------
(* Listing a directory *)

(* The entry that readdir returns next is the one behind those it has      *)
(* returned, and the search handle is open until a search fails.           *)
Dirs == [handle : {"none", "open", "invalid"}, info : Nat, search : Seq(Entries)]

Lists == [names : Seq(Entries), ended : BOOLEAN, failed : BOOLEAN, opened : 0 .. 1,
          closed : 0 .. 1]

ListingInv ==
    /\ dir \in Dirs /\ listed \in Lists
    /\ dir.handle = "none" <=> dir = NoDir
    /\ dir.handle = "open" =>
          /\ dir.info \in 1 .. Len(dir.search)
          /\ Len(listed.names) = dir.info - 1
          /\ listed.opened = 1 /\ listed.closed = 0 /\ listed.ended = FALSE
    /\ dir.handle = "invalid" =>
          /\ dir.info \in 0 .. Len(dir.search)
          /\ Len(listed.names) = dir.info
          /\ listed.failed <=> dir.info < Len(dir.search)
    /\ dir.handle # "open" => listed.opened = listed.closed
    /\ dir.handle # "none" =>
          \A i \in 1 .. Len(listed.names) : listed.names[i] = dir.search[i]

(* Every call keeps that.                                                  *)
LEMMA ListingStep == ListingInv /\ [ListingNext]_listingVars => ListingInv'
<1> SUFFICES ASSUME ListingInv, [ListingNext]_listingVars PROVE ListingInv'
  OBVIOUS
<1>1. ASSUME NEW found \in Listings, Opendir(found) PROVE ListingInv'
  <2>1. /\ found \in Seq(Entries) /\ Len(found) \in Nat
        /\ <<>> \in Seq(Entries) /\ Len(<<>>) = 0
        /\ found # <<>> <=> Len(found) > 0
    BY DirListingAssumption, EmptySeq, LenProperties
  <2>2. CASE /\ found # <<>>
             /\ dir' = [handle |-> "open", info |-> 1, search |-> found]
             /\ listed' = [NothingListed EXCEPT !.opened = 1]
    <3>1. /\ dir'.handle = "open" /\ dir'.info = 1 /\ dir'.search = found
          /\ dir' \in Dirs /\ dir' # NoDir
      BY <2>1, <2>2 DEF NoDir, Dirs
    <3>2. listed' = [names |-> <<>>, ended |-> FALSE, failed |-> FALSE, opened |-> 1,
                     closed |-> 0]
      BY <2>2 DEF NothingListed
    <3>3. /\ listed'.names = <<>> /\ listed'.opened = 1 /\ listed'.closed = 0
          /\ listed'.ended = FALSE /\ listed' \in Lists
      BY <2>1, <3>2 DEF Lists
    <3> QED
      BY <2>1, <2>2, <3>1, <3>3 DEF ListingInv
  <2>3. CASE /\ dir' = [handle |-> "invalid", info |-> 0, search |-> found]
             /\ listed' = [NothingListed EXCEPT !.failed = found # <<>>]
    <3>1. /\ dir'.handle = "invalid" /\ dir'.info = 0 /\ dir'.search = found
          /\ dir' \in Dirs /\ dir' # NoDir
      BY <2>1, <2>3 DEF NoDir, Dirs
    <3>2. PICK lost \in BOOLEAN : lost <=> found # <<>>
      OBVIOUS
    <3>3. listed' = [names |-> <<>>, ended |-> FALSE, failed |-> lost, opened |-> 0,
                     closed |-> 0]
      BY <2>3, <3>2 DEF NothingListed
    <3>4. /\ listed'.names = <<>> /\ listed'.opened = 0 /\ listed'.closed = 0
          /\ listed'.failed <=> found # <<>>
          /\ listed' \in Lists
      BY <2>1, <3>2, <3>3 DEF Lists
    <3> QED
      BY <2>1, <3>1, <3>4 DEF ListingInv
  <2> QED
    BY <1>1, <2>2, <2>3 DEF Opendir
<1>2. CASE Readdir
  <2>1. CASE dir.handle = "open"
    <3>1. /\ dir \in Dirs /\ listed \in Lists /\ dir.info \in 1 .. Len(dir.search)
          /\ Len(listed.names) = dir.info - 1
          /\ listed.opened = 1 /\ listed.closed = 0 /\ listed.ended = FALSE
          /\ \A i \in 1 .. dir.info - 1 : listed.names[i] = dir.search[i]
      BY <2>1 DEF ListingInv
    <3>2. /\ dir.search \in Seq(Entries) /\ listed.names \in Seq(Entries)
          /\ Len(dir.search) \in Nat /\ dir.info \in Nat
      BY <3>1, LenProperties DEF Dirs, Lists
    <3>3. PICK e \in Entries : e = dir.search[dir.info]
      BY <3>1, <3>2, ElementOfSeq
    <3>4. PICK names \in Seq(Entries) :
              /\ names = Append(listed.names, dir.search[dir.info])
              /\ Len(names) = dir.info
              /\ \A i \in 1 .. dir.info : names[i] = dir.search[i]
      <4>1. /\ Append(listed.names, e) \in Seq(Entries)
            /\ Len(Append(listed.names, e)) = dir.info
            /\ \A i \in 1 .. dir.info - 1 : Append(listed.names, e)[i] = listed.names[i]
            /\ Append(listed.names, e)[dir.info] = e
        BY <3>1, <3>2, <3>3, AppendProperties
      <4>2. \A i \in 1 .. dir.info : i \in 1 .. dir.info - 1 \/ i = dir.info
        BY ONLY <3>2
      <4>3. \A i \in 1 .. dir.info : Append(listed.names, e)[i] = dir.search[i]
        BY ONLY <3>1, <3>3, <4>1, <4>2
      <4> QED
        BY ONLY <3>3, <4>1, <4>3
    <3>5. CASE /\ dir.info < Len(dir.search)
               /\ dir' = [dir EXCEPT !.info = @ + 1]
               /\ listed' = [listed EXCEPT !.names = names]
      <4>1. /\ dir' \in Dirs /\ dir'.handle = "open" /\ dir'.info = dir.info + 1
            /\ dir'.search = dir.search
        BY <2>1, <3>1, <3>2, <3>5 DEF Dirs
      <4>2. /\ listed' \in Lists /\ listed'.names = names
            /\ listed'.opened = 1 /\ listed'.closed = 0 /\ listed'.ended = FALSE
        BY <3>1, <3>5 DEF Lists
      <4>3. dir' # NoDir
        BY <4>1 DEF NoDir
      <4> QED
        BY ONLY <3>2, <3>4, <3>5, <4>1, <4>2, <4>3 DEF ListingInv
    <3>6. CASE /\ dir' = [dir EXCEPT !.handle = "invalid"]
               /\ listed' = [listed EXCEPT !.names = names,
                                           !.failed = dir.info < Len(dir.search),
                                           !.closed = @ + 1]
      <4>1. /\ dir' \in Dirs /\ dir'.handle = "invalid" /\ dir'.info = dir.info
            /\ dir'.search = dir.search
        BY <3>1, <3>6 DEF Dirs
      <4>2. PICK lost \in BOOLEAN : lost = (dir.info < Len(dir.search))
        <5>1. (dir.info < Len(dir.search)) \in BOOLEAN
          BY ONLY <3>2
        <5> QED
          BY ONLY <5>1, Zenon
      <4>3. listed' = [listed EXCEPT !.names = names, !.failed = lost, !.closed = 1]
        <5>1. listed' = [listed EXCEPT !.names = names, !.failed = lost,
                                       !.closed = listed.closed + 1]
          BY ONLY <3>6, <4>2, Zenon
        <5>2. listed.closed + 1 = 1
          BY ONLY <3>1
        <5> QED
          BY ONLY <5>1, <5>2, Zenon
      <4>4. /\ listed' \in Lists /\ listed'.names = names
            /\ listed'.failed <=> dir.info < Len(dir.search)
            /\ listed'.opened = listed'.closed
        BY <3>1, <4>2, <4>3 DEF Lists
      <4>5. dir' # NoDir
        BY <4>1 DEF NoDir
      <4> QED
        BY ONLY <3>1, <3>2, <3>4, <4>1, <4>4, <4>5 DEF ListingInv
    <3> QED
      BY <1>2, <2>1, <3>4, <3>5, <3>6 DEF Readdir
  <2>2. CASE dir.handle = "invalid"
    <3>1. dir' = dir /\ listed' = [listed EXCEPT !.ended = TRUE]
      BY <1>2, <2>2 DEF Readdir
    <3>2. /\ listed' \in Lists /\ listed'.names = listed.names
          /\ listed'.failed = listed.failed
          /\ listed'.opened = listed.opened /\ listed'.closed = listed.closed
      BY <3>1 DEF ListingInv, Lists
    <3>3. dir' \in Dirs /\ dir' # NoDir /\ dir'.handle = "invalid"
      BY <2>2, <3>1 DEF ListingInv, NoDir
    <3> QED
      BY <2>2, <3>1, <3>2, <3>3 DEF ListingInv
  <2> QED
    BY <1>2, <2>1, <2>2 DEF Readdir, ListingInv, Dirs
<1>3. CASE Closedir
  <2>1. dir' = NoDir /\ dir' \in Dirs /\ dir'.handle = "none"
    BY <1>3, EmptySeq DEF Closedir, NoDir, Dirs
  <2>2. listed' \in Lists /\ listed'.opened = listed'.closed
    BY <1>3 DEF Closedir, ListingInv, Lists, Dirs, MustClose
  <2> QED
    BY <2>1, <2>2 DEF ListingInv
<1>4. CASE UNCHANGED listingVars
  BY <1>4 DEF listingVars, ListingInv
<1> QED
  BY <1>1, <1>2, <1>3, <1>4 DEF ListingNext

(* readdir returns what the system finds, each entry once and in order, and *)
(* stops before the last one only if the system has failed; the search      *)
(* handle is closed once.                                                   *)
THEOREM ListingCorrect == ListingSpec => []ListedOnce
<1>1. ListingInit => ListingInv
  <2>1. <<>> \in Seq(Entries) /\ Len(<<>>) = 0
    BY EmptySeq
  <2> QED
    BY <2>1 DEF ListingInit, ListingInv, NoDir, NothingListed, Dirs, Lists
<1>2. ListingInv => ListedOnce
  <2> SUFFICES ASSUME ListingInv PROVE ListedOnce
    OBVIOUS
  <2>1. listed.opened - listed.closed = IF dir.handle = "open" THEN 1 ELSE 0
    BY DEF ListingInv, Lists
  <2>2. ASSUME dir # NoDir
        PROVE  /\ SubSeq(dir.search, 1, Len(listed.names)) = listed.names
               /\ listed.ended =>
                     /\ dir.handle # "open"
                     /\ Len(listed.names) = dir.info
                     /\ listed.names = dir.search <=> ~listed.failed
    <3>1. /\ listed.names \in Seq(Entries) /\ dir.search \in Seq(Entries)
          /\ Len(dir.search) \in Nat /\ Len(listed.names) \in 0 .. Len(dir.search)
          /\ \A i \in 1 .. Len(listed.names) : listed.names[i] = dir.search[i]
      BY <2>2, LenProperties DEF ListingInv, Dirs, Lists
    <3>2. /\ SubSeq(dir.search, 1, Len(listed.names)) \in Seq(Entries)
          /\ Len(SubSeq(dir.search, 1, Len(listed.names))) = Len(listed.names)
          /\ \A i \in 1 .. Len(listed.names) :
                SubSeq(dir.search, 1, Len(listed.names))[i] = dir.search[i]
      BY ONLY <3>1, TakeAndKeep
    <3>3. SubSeq(dir.search, 1, Len(listed.names)) = listed.names
      BY ONLY <3>1, <3>2, SeqEqual, Zenon
    <3>4. listed.ended => /\ dir.handle # "open"
                          /\ Len(listed.names) = dir.info
                          /\ listed.failed <=> Len(listed.names) < Len(dir.search)
      BY <2>2 DEF ListingInv, Dirs
    <3>5. listed.names = dir.search <=> Len(listed.names) = Len(dir.search)
      BY ONLY <3>1, SeqEqual, Zenon
    <3>6. Len(listed.names) = Len(dir.search) <=> ~(Len(listed.names) < Len(dir.search))
      BY ONLY <3>1
    <3> QED
      BY ONLY <3>3, <3>4, <3>5, <3>6
  <2> QED
    BY <2>1, <2>2 DEF ListedOnce
<1> QED
  BY <1>1, <1>2, ListingStep, PTL DEF ListingSpec

-----------------------------------------------------------------------------
(* Creating a directory *)

(* The file system is a tree: what is above a directory is a directory,    *)
(* and a file that was there is at its root.                               *)
TreeOK ==
    /\ dirs \subseteq Seq(Names) /\ files \subseteq Seq(Names)
    /\ \A f \in files : Len(f) = 1
    /\ \A d \in dirs : Len(d) > 1 => Parent(d) \in dirs

(* A call has found or made every name it has passed, and one that asks    *)
(* for a directory has not seen it, or was overtaken since.                *)
OnItsWay(m, ds, fs) ==
    /\ m.target # <<>> /\ m.i \in 1 .. Len(m.target) /\ m.result = 0
    /\ \A j \in 1 .. m.i - 1 : Prefix(m.target, j) \in ds \cup fs
    /\ m.step = "mkdir" =>
          /\ Prefix(m.target, m.i) \notin fs
          /\ Prefix(m.target, m.i) \notin ds \/ m.overtaken = TRUE

Over(m, ds, fs) ==
    IF m.result = 0 THEN \A j \in 1 .. Len(m.target) : Prefix(m.target, j) \in ds \cup fs
    ELSE \/ m.refused = TRUE \/ m.overtaken = TRUE
         \/ \E j \in 1 .. Len(m.target) : Prefix(m.target, j) \in fs

CallOK(m, ds, fs) ==
    /\ m.step # "done" => OnItsWay(m, ds, fs)
    /\ m.step = "done" /\ m.target # <<>> => Over(m, ds, fs)

Makings == [target : Seq(Names), i : Nat, step : {"done", "access", "mkdir"},
            result : {0, -1}, refused : BOOLEAN, overtaken : BOOLEAN]

CreateDirInv ==
    /\ TreeOK
    /\ making \in [Callers -> Makings]
    /\ \A p \in Callers : CallOK(making[p], dirs, files)

(* The first j names of a path, and what is above them.                    *)
LEMMA PrefixIs ==
    ASSUME NEW path \in Seq(Names), NEW j \in 1 .. Len(path)
    PROVE  /\ Prefix(path, j) \in Seq(Names) /\ Len(Prefix(path, j)) = j
           /\ j > 1 => Parent(Prefix(path, j)) = Prefix(path, j - 1)
           /\ j = Len(path) => Prefix(path, j) = path
<1>1. Len(path) \in Nat /\ j \in 0 .. Len(path)
  BY LenProperties
<1>2. /\ SubSeq(path, 1, j) \in Seq(Names) /\ Len(SubSeq(path, 1, j)) = j
      /\ \A i \in 1 .. j : SubSeq(path, 1, j)[i] = path[i]
  BY ONLY <1>1, TakeAndKeep
<1>3. ASSUME j > 1 PROVE Parent(Prefix(path, j)) = Prefix(path, j - 1)
  <2>1. PICK x : x = SubSeq(path, 1, j)
    OBVIOUS
  <2>2. PICK k \in Nat : k = j - 1
    BY <1>1
  <2>3. x \in Seq(Names) /\ Len(x) = j /\ k \in 0 .. Len(x) /\ k \in 0 .. Len(path)
        /\ \A i \in 1 .. k : x[i] = path[i]
    BY <1>1, <1>2, <2>1, <2>2
  <2>4. /\ SubSeq(x, 1, k) \in Seq(Names) /\ Len(SubSeq(x, 1, k)) = k
        /\ \A i \in 1 .. k : SubSeq(x, 1, k)[i] = x[i]
    BY ONLY <2>3, TakeAndKeep
  <2>5. /\ SubSeq(path, 1, k) \in Seq(Names) /\ Len(SubSeq(path, 1, k)) = k
        /\ \A i \in 1 .. k : SubSeq(path, 1, k)[i] = path[i]
    BY ONLY <2>3, TakeAndKeep
  <2>6. SubSeq(x, 1, k) = SubSeq(path, 1, k)
    BY ONLY <2>3, <2>4, <2>5, SeqEqual, Zenon
  <2>7. Prefix(path, j) = x /\ Prefix(path, j - 1) = SubSeq(path, 1, k)
    BY <2>1, <2>2 DEF Prefix
  <2>8. Parent(x) = SubSeq(x, 1, k)
    BY <2>2, <2>3 DEF Parent
  <2> QED
    BY <2>6, <2>7, <2>8
<1>4. ASSUME j = Len(path) PROVE SubSeq(path, 1, j) = path
  BY ONLY <1>2, <1>4, SeqEqual, Zenon
<1> QED
  BY <1>2, <1>3, <1>4 DEF Prefix

(* A call stays right when another one makes a directory, if it is told.   *)
LEMMA OthersMake ==
    ASSUME NEW m \in Makings, NEW ds, NEW fs, NEW path, CallOK(m, ds, fs)
    PROVE  /\ m.step = "done" => CallOK(m, ds \cup {path}, fs)
           /\ path \notin Prefixes(m.target) => CallOK(m, ds \cup {path}, fs)
           /\ CallOK([m EXCEPT !.overtaken = TRUE], ds \cup {path}, fs)
<1> DEFINE o == [m EXCEPT !.overtaken = TRUE]
<1>1. /\ o.target = m.target /\ o.i = m.i /\ o.step = m.step
      /\ o.result = m.result /\ o.overtaken = TRUE /\ o.refused = m.refused
  BY DEF Makings
<1> HIDE DEF o
<1>2. CASE m.step = "done"
  <2>1. CallOK(m, ds \cup {path}, fs)
    BY <1>2 DEF CallOK, Over
  <2>2. CallOK(o, ds \cup {path}, fs)
    BY <1>1, <1>2, <2>1 DEF CallOK, Over
  <2> QED
    BY <2>1, <2>2 DEF o
<1>3. CASE m.step # "done"
  <2>1. OnItsWay(m, ds, fs)
    BY <1>3 DEF CallOK
  <2>2. OnItsWay(o, ds \cup {path}, fs)
    BY <1>1, <2>1 DEF OnItsWay
  <2>3. ASSUME path \notin Prefixes(m.target) PROVE OnItsWay(m, ds \cup {path}, fs)
    <3>1. Prefix(m.target, m.i) # path
      BY <2>1, <2>3 DEF OnItsWay, Prefixes
    <3> QED
      BY <2>1, <3>1 DEF OnItsWay
  <2>4. CallOK(o, ds \cup {path}, fs)
    BY <1>1, <1>3, <2>2 DEF CallOK
  <2>5. path \notin Prefixes(m.target) => CallOK(m, ds \cup {path}, fs)
    BY <1>3, <2>3 DEF CallOK
  <2> QED
    BY <1>3, <2>4, <2>5 DEF o
<1> QED
  BY <1>2, <1>3 DEF o

(* The loop goes on behind a name that is there.                           *)
LEMMA GoesOn ==
    ASSUME NEW m \in Makings, NEW ds, NEW fs, OnItsWay(m, ds, fs),
           Prefix(m.target, m.i) \in ds \cup fs
    PROVE  NextName(m) \in Makings /\ CallOK(NextName(m), ds, fs)
<1>1. /\ m.i \in 1 .. Len(m.target) /\ Len(m.target) \in Nat
      /\ m.target # <<>> /\ m.result = 0
      /\ \A j \in 1 .. m.i - 1 : Prefix(m.target, j) \in ds \cup fs
  BY LenProperties DEF OnItsWay, Makings
<1>2. \A j \in 1 .. m.i : Prefix(m.target, j) \in ds \cup fs
  <2> SUFFICES ASSUME NEW j \in 1 .. m.i PROVE Prefix(m.target, j) \in ds \cup fs
    OBVIOUS
  <2>1. j = m.i \/ j \in 1 .. m.i - 1
    BY <1>1
  <2> QED
    BY <1>1, <2>1
<1>3. CASE m.i = Len(m.target)
  <2> DEFINE n == [m EXCEPT !.step = "done"]
  <2>1. /\ NextName(m) = n /\ n \in Makings /\ n.step = "done"
        /\ n.target = m.target /\ n.result = 0
    BY <1>1, <1>3 DEF NextName, LastName, Makings
  <2> HIDE DEF n
  <2>2. Over(n, ds, fs)
    BY <1>2, <1>3, <2>1 DEF Over
  <2> QED
    BY <2>1, <2>2 DEF CallOK
<1>4. CASE m.i < Len(m.target)
  <2> DEFINE n == [m EXCEPT !.i = @ + 1, !.step = "access"]
  <2>1. /\ NextName(m) = n /\ n \in Makings /\ n.step = "access" /\ n.i = m.i + 1
        /\ n.target = m.target /\ n.result = 0
    <3>1. NextName(m) = n
      BY <1>1, <1>4 DEF NextName, LastName
    <3>2. m \in Makings /\ m.i + 1 \in Nat
      BY <1>1
    <3>3. n \in Makings /\ n.step = "access" /\ n.i = m.i + 1 /\ n.target = m.target
          /\ n.result = m.result
      BY <3>2 DEF Makings
    <3> QED
      BY <1>1, <3>1, <3>3
  <2> HIDE DEF n
  <2>2. OnItsWay(n, ds, fs)
    BY <1>1, <1>2, <1>4, <2>1 DEF OnItsWay
  <2> QED
    BY <2>1, <2>2 DEF CallOK
<1> QED
  BY <1>1, <1>3, <1>4

(* Every step of a call keeps the tree a tree and the calls on their way.  *)
LEMMA CreateDirStep == CreateDirInv /\ [CreateDirNext]_createDirVars => CreateDirInv'
<1> SUFFICES ASSUME CreateDirInv, [CreateDirNext]_createDirVars PROVE CreateDirInv'
  OBVIOUS
<1>0. making \in [Callers -> Makings]
  BY DEF CreateDirInv
<1>1. ASSUME NEW p \in Callers, NEW m \in Makings, CallOK(m, dirs, files),
             making' = [making EXCEPT ![p] = m], UNCHANGED <<dirs, files>>
      PROVE  CreateDirInv'
  <2>1. \A q \in Callers : making'[q] = IF q = p THEN m ELSE making[q]
    BY <1>0, <1>1
  <2>2. making' \in [Callers -> Makings]
    BY <1>0, <1>1
  <2>3. TreeOK'
    BY <1>1 DEF CreateDirInv, TreeOK
  <2>4. \A q \in Callers : CallOK(making[q], dirs, files)
    BY DEF CreateDirInv
  <2>5. \A q \in Callers : CallOK(making'[q], dirs', files')
    BY ONLY <1>1, <2>1, <2>4, Zenon
  <2> QED
    BY <2>2, <2>3, <2>5 DEF CreateDirInv
<1>2. ASSUME NEW p \in Callers, NEW path \in Targets, Call(p, path)
      PROVE  CreateDirInv'
  <2> DEFINE m == [NotMaking EXCEPT !.target = path, !.i = 1, !.step = "access"]
  <2>1. path \in Seq(Names) /\ path # <<>> /\ Len(path) \in Nat \ {0}
    BY CreateDirAssumption, EmptySeq
  <2>2. /\ m \in Makings /\ m.step = "access" /\ m.target = path /\ m.i = 1 /\ m.result = 0
    BY <2>1 DEF NotMaking, Makings
  <2>3. making' = [making EXCEPT ![p] = m] /\ UNCHANGED <<dirs, files>>
    BY <1>2 DEF Call
  <2> HIDE DEF m
  <2>4. OnItsWay(m, dirs, files)
    BY <2>1, <2>2 DEF OnItsWay
  <2>5. CallOK(m, dirs, files)
    BY <2>2, <2>4 DEF CallOK
  <2> QED
    BY <1>1, <2>2, <2>3, <2>5
<1>3. ASSUME NEW p \in Callers, Access(p) PROVE CreateDirInv'
  <2>1. PICK m \in Makings : m = making[p]
    BY <1>0
  <2>2. m.step = "access" /\ OnItsWay(m, dirs, files)
    BY <1>3, <2>1 DEF Access, CreateDirInv, CallOK
  <2>3. CASE Prefix(m.target, m.i) \in dirs \cup files
    <3>1. PICK n : n = NextName(m)
      OBVIOUS
    <3>2. n \in Makings /\ CallOK(n, dirs, files)
      BY <2>2, <2>3, <3>1, GoesOn
    <3>3. making' = [making EXCEPT ![p] = n] /\ UNCHANGED <<dirs, files>>
      BY <1>3, <2>1, <2>3, <3>1 DEF Access
    <3> QED
      BY <1>1, <3>2, <3>3
  <2>4. CASE Prefix(m.target, m.i) \notin dirs \cup files
    <3>1. PICK n : n = [m EXCEPT !.step = "mkdir"]
      OBVIOUS
    <3>2. /\ n \in Makings /\ n.step = "mkdir" /\ n.target = m.target /\ n.i = m.i
          /\ n.result = m.result
      BY <3>1 DEF Makings
    <3>3. OnItsWay(n, dirs, files)
      BY <2>2, <2>4, <3>2 DEF OnItsWay
    <3>4. CallOK(n, dirs, files)
      BY <3>2, <3>3 DEF CallOK
    <3>5. making' = [making EXCEPT ![p] = n] /\ UNCHANGED <<dirs, files>>
      BY <1>3, <2>1, <2>4, <3>1 DEF Access
    <3> QED
      BY <1>1, <3>2, <3>4, <3>5
  <2> QED
    BY <2>3, <2>4
<1>4. ASSUME NEW p \in Callers, Mkdir(p) PROVE CreateDirInv'
  <2>1. PICK m \in Makings : m = making[p]
    BY <1>0
  <2>2. m.step = "mkdir" /\ OnItsWay(m, dirs, files) /\ m.target \in Seq(Names)
    BY <1>4, <2>1 DEF Mkdir, CreateDirInv, CallOK, Makings
  <2>3. PICK path : path = Prefix(m.target, m.i)
    OBVIOUS
  <2>4. /\ Len(path) = 1 \/ Parent(path) \in dirs
        /\ dirs' = dirs \cup {path} /\ files' = files
        /\ making' = [q \in Callers |->
                         IF q = p THEN NextName(m)
                         ELSE IF making[q].step # "done" /\ path \in Prefixes(making[q].target)
                         THEN [making[q] EXCEPT !.overtaken = TRUE]
                         ELSE making[q]]
    BY <1>4, <2>1, <2>3 DEF Mkdir, CanMake
  <2>5. path \in Seq(Names)
    BY <2>2, <2>3, PrefixIs DEF OnItsWay
  <2>6. TreeOK'
    <3>1. TreeOK
      BY DEF CreateDirInv
    <3>2. Len(path) > 1 => Parent(path) \in dirs
      <4>1. Len(path) = 1 => ~(Len(path) > 1)
        OBVIOUS
      <4> QED
        BY ONLY <2>4, <4>1, Zenon
    <3>3. \A d \in dirs' : Len(d) > 1 => Parent(d) \in dirs'
      BY ONLY <2>4, <3>1, <3>2, Zenon DEF TreeOK
    <3>4. dirs' \subseteq Seq(Names) /\ files' = files
      BY ONLY <2>4, <2>5, <3>1, Zenon DEF TreeOK
    <3> QED
      BY ONLY <3>1, <3>3, <3>4, Zenon DEF TreeOK
  <2>8. NextName(m) \in Makings /\ CallOK(NextName(m), dirs \cup {path}, files)
    <3>1. PICK o \in Makings : o = [m EXCEPT !.step = "access"]
      BY DEF Makings
    <3>2. o.target = m.target /\ o.i = m.i /\ o.result = m.result /\ o.step = "access"
      BY <3>1 DEF Makings
    <3>3. OnItsWay(o, dirs \cup {path}, files)
      BY <2>2, <3>2 DEF OnItsWay
    <3>4. NextName(o) = NextName(m)
      BY <3>1, <3>2 DEF NextName, LastName, Makings
    <3>5. Prefix(o.target, o.i) \in (dirs \cup {path}) \cup files
      BY <2>3, <3>2
    <3> QED
      BY <3>3, <3>4, <3>5, GoesOn
  <2>9. ASSUME NEW q \in Callers
        PROVE  making'[q] \in Makings /\ CallOK(making'[q], dirs', files')
    <3>1. CASE q = p
      BY <2>4, <2>8, <3>1
    <3>2. CASE q # p
      <4>1. PICK n \in Makings : n = making[q]
        BY <1>0
      <4>2. CallOK(n, dirs, files)
        BY <4>1 DEF CreateDirInv
      <4>3. [n EXCEPT !.overtaken = TRUE] \in Makings
        BY DEF Makings
      <4>4. /\ n.step = "done" => CallOK(n, dirs \cup {path}, files)
            /\ path \notin Prefixes(n.target) => CallOK(n, dirs \cup {path}, files)
            /\ CallOK([n EXCEPT !.overtaken = TRUE], dirs \cup {path}, files)
        BY ONLY <4>2, OthersMake
      <4>5. making'[q] = IF n.step # "done" /\ path \in Prefixes(n.target)
                         THEN [n EXCEPT !.overtaken = TRUE] ELSE n
        BY <2>4, <3>2, <4>1
      <4> QED
        BY ONLY <2>4, <4>3, <4>4, <4>5, Zenon
    <3> QED
      BY <3>1, <3>2
  <2>10. making' \in [Callers -> Makings]
    <3>1. \A q \in Callers : making'[q] \in Makings
      BY <2>9
    <3>2. making' = [q \in Callers |-> making'[q]]
      BY <2>4
    <3> QED
      BY <3>1, <3>2
  <2> QED
    BY <2>6, <2>9, <2>10 DEF CreateDirInv
<1>5. ASSUME NEW p \in Callers, MkdirFails(p) PROVE CreateDirInv'
  <2>1. PICK m \in Makings : m = making[p]
    BY <1>0
  <2>2. m.step = "mkdir" /\ OnItsWay(m, dirs, files) /\ m.target \in Seq(Names)
    BY <1>5, <2>1 DEF MkdirFails, CreateDirInv, CallOK, Makings
  <2>3. PICK path : path = Prefix(m.target, m.i)
    OBVIOUS
  <2>4. PICK b \in BOOLEAN : b = CanMake(path)
    BY DEF CanMake
  <2>5. PICK n : n = [m EXCEPT !.step = "done", !.result = -1, !.refused = b]
    OBVIOUS
  <2>6. /\ n \in Makings /\ n.step = "done" /\ n.result = -1 /\ n.refused = b
        /\ n.target = m.target /\ n.overtaken = m.overtaken
    BY <2>5 DEF Makings
  <2>7. making' = [making EXCEPT ![p] = n] /\ UNCHANGED <<dirs, files>>
    BY <1>5, <2>1, <2>3, <2>4, <2>5 DEF MkdirFails
  <2>8. Over(n, dirs, files)
    <3>1. CASE CanMake(path)
      BY <2>4, <2>6, <3>1 DEF Over
    <3>2. CASE path \in dirs
      BY <2>2, <2>3, <2>6, <3>2 DEF Over, OnItsWay
    <3>3. CASE path \notin dirs /\ ~CanMake(path)
      <4>1. m.i \in 1 .. Len(m.target) /\ Len(m.target) \in Nat /\ path \notin files
        BY <2>2, <2>3, LenProperties DEF OnItsWay
      <4>2. Len(path) = m.i
        BY <2>2, <2>3, <4>1, PrefixIs
      <4>3. m.i > 1 /\ Parent(path) \notin dirs
        BY <3>3, <4>1, <4>2 DEF CanMake
      <4>4. Parent(path) = Prefix(m.target, m.i - 1)
        BY <2>2, <2>3, <4>1, <4>3, PrefixIs
      <4>5. m.i - 1 \in 1 .. m.i - 1 /\ m.i - 1 \in 1 .. Len(m.target)
        BY <4>1, <4>3
      <4>6. Prefix(m.target, m.i - 1) \in files
        BY <2>2, <4>3, <4>4, <4>5 DEF OnItsWay
      <4> QED
        BY <2>6, <4>5, <4>6 DEF Over
    <3> QED
      BY <3>1, <3>2, <3>3
  <2>9. CallOK(n, dirs, files)
    BY <2>6, <2>8 DEF CallOK
  <2> QED
    BY <1>1, <2>6, <2>7, <2>9
<1>6. CASE UNCHANGED createDirVars
  BY <1>6 DEF createDirVars, CreateDirInv, TreeOK
<1> QED
  BY <1>2, <1>3, <1>4, <1>5, <1>6 DEF CreateDirNext

(* createdir returns 0 only if the path is there and all above it are      *)
(* directories, and -1 only if it was refused, blocked by a file or        *)
(* overtaken, whatever the paths and however many processes create them.   *)
THEOREM CreateDirCorrect == CreateDirSpec => []CreatedirSound
<1>1. CreateDirInit => CreateDirInv
  <2> SUFFICES ASSUME CreateDirInit PROVE CreateDirInv
    OBVIOUS
  <2>1. PICK path \in Targets, i \in 0 .. 1, blocked \in BOOLEAN :
           /\ dirs  = IF i = 1 /\ ~blocked THEN {Prefix(path, i)} ELSE {}
           /\ files = IF i = 1 /\ blocked THEN {Prefix(path, i)} ELSE {}
    BY DEF CreateDirInit
  <2>2. path \in Seq(Names) /\ 1 \in 1 .. Len(path)
    BY CreateDirAssumption, EmptySeq
  <2>3. Prefix(path, 1) \in Seq(Names) /\ Len(Prefix(path, 1)) = 1
    BY <2>2, PrefixIs
  <2>4. TreeOK
    <3>1. PICK root \in Seq(Names) : root = Prefix(path, 1) /\ Len(root) = 1
      BY <2>3
    <3>2. dirs \subseteq {root} /\ files \subseteq {root}
      BY <2>1, <3>1
    <3>3. \A d \in dirs : Len(d) = 1
      BY ONLY <3>1, <3>2, Zenon
    <3>4. \A f \in files : Len(f) = 1
      BY ONLY <3>1, <3>2, Zenon
    <3>5. \A d \in dirs : ~(Len(d) > 1)
      BY <3>3
    <3> QED
      BY ONLY <3>1, <3>2, <3>4, <3>5, Zenon DEF TreeOK
  <2>5. NotMaking \in Makings /\ NotMaking.step = "done" /\ NotMaking.target = <<>>
    BY EmptySeq DEF NotMaking, Makings
  <2>6. making = [p \in Callers |-> NotMaking]
    BY DEF CreateDirInit
  <2>7. CallOK(NotMaking, dirs, files)
    BY <2>5 DEF CallOK
  <2> QED
    BY <2>4, <2>5, <2>6, <2>7 DEF CreateDirInv
<1>2. CreateDirInv => CreatedirSound
  <2> SUFFICES ASSUME CreateDirInv, NEW p \in Callers,
                      making[p].target # <<>>, making[p].step = "done"
               PROVE  IF making[p].result = 0
                      THEN /\ Prefixes(making[p].target) \ {making[p].target} \subseteq dirs
                           /\ making[p].target \in dirs \cup files
                      ELSE \/ making[p].refused \/ making[p].overtaken
                           \/ Prefixes(making[p].target) \cap files # {}
    BY DEF CreatedirSound
  <2>1. PICK m \in Makings : m = making[p]
    BY DEF CreateDirInv
  <2>2. Over(m, dirs, files) /\ m.target \in Seq(Names) /\ Len(m.target) \in Nat \ {0}
    BY <2>1, EmptySeq DEF CreateDirInv, CallOK, Makings
  <2>3. CASE m.result = 0
    <3>1. \A j \in 1 .. Len(m.target) : Prefix(m.target, j) \in dirs \cup files
      BY <2>2, <2>3 DEF Over
    <3>2. ASSUME NEW j \in 1 .. Len(m.target), Prefix(m.target, j) # m.target
          PROVE  Prefix(m.target, j) \in dirs
      <4>1. j # Len(m.target)
        BY <2>2, <3>2, PrefixIs
      <4>2. PICK k \in 1 .. Len(m.target) : k = j + 1 /\ k - 1 = j
        BY <2>2, <4>1
      <4>3. /\ Len(Prefix(m.target, k)) = k /\ k > 1
            /\ Parent(Prefix(m.target, k)) = Prefix(m.target, j)
        BY <2>2, <4>2, PrefixIs
      <4>4. Prefix(m.target, k) \in dirs
        <5>1. \A x \in files : Len(x) = 1
          BY DEF CreateDirInv, TreeOK
        <5>2. Prefix(m.target, k) \notin files
          <6> SUFFICES ASSUME Prefix(m.target, k) \in files PROVE FALSE
            OBVIOUS
          <6>1. Len(Prefix(m.target, k)) = 1
            BY <5>1
          <6>2. k = 1
            BY ONLY <4>3, <6>1, Zenon
          <6> QED
            BY <4>3, <6>2
        <5>3. Prefix(m.target, k) \in dirs \cup files
          BY <3>1
        <5> QED
          BY ONLY <5>2, <5>3
      <4> QED
        BY <4>3, <4>4 DEF CreateDirInv, TreeOK
    <3>3. m.target \in dirs \cup files
      <4>1. Len(m.target) \in 1 .. Len(m.target)
        BY <2>2
      <4>2. Prefix(m.target, Len(m.target)) = m.target
        BY <2>2, <4>1, PrefixIs
      <4> QED
        BY <3>1, <4>1, <4>2
    <3> QED
      BY <2>1, <2>3, <3>2, <3>3 DEF Prefixes
  <2>4. CASE m.result # 0
    BY <2>1, <2>2, <2>4 DEF Over, Prefixes
  <2> QED
    BY <2>3, <2>4
<1> QED
  BY <1>1, <1>2, CreateDirStep, PTL DEF CreateDirSpec

-----------------------------------------------------------------------------
(* A connection *)

(* The bytes that the peer has read and those in the kernel are numbered   *)
(* from 1 on, and a call knows how many there are: those of the calls      *)
(* before it, and what it has written itself.                              *)
StreamOK ==
    /\ wire \in Seq(Nat) /\ taken \in Seq(Nat)
    /\ \A i \in 1 .. Len(taken) : taken[i] = i
    /\ \A i \in 1 .. Len(wire) : wire[i] = Len(taken) + i

Sendings == [call : {"sendn", "sendn_retry", "udp_sendn"}, size : Nat, nleft : Nat,
             retry : Int]

SendingOK ==
    /\ sent \in Nat \cup {Dead}
    /\ sending # NotSending =>
          /\ sending \in Sendings
          /\ sent \in Nat /\ sending.nleft \in 1 .. sending.size
          /\ Len(taken) + Len(wire) = sent + (sending.size - sending.nleft)
    /\ sending = NotSending /\ sent # Dead => Len(taken) + Len(wire) = sent

SendInv == StreamOK /\ SendingOK

(* recv has ended the connection only with nothing left to read.           *)
ReceiveInv ==
    /\ coming \in Nat /\ over \in BOOLEAN /\ closed \in BOOLEAN
    /\ over => (closed /\ coming = 0) \/ link \in {"broken", "refused"}

(* select has reported an error only after there was one, and on POSIX     *)
(* systems the error is in the socket or was taken by an earlier call.     *)
WaitInv ==
    /\ os \in {"posix", "windows"} /\ soError \in BOOLEAN
    /\ wait \in [step : {"idle", "error"}, ready : BOOLEAN, result : {0, -1},
                 linked : BOOLEAN, swallowed : BOOLEAN]
    /\ wait.step = "error" =>
          /\ os = "posix" /\ wait.result = -1
          /\ wait.ready => link \in {"connected", "broken", "refused"}
    /\ link = "refused" /\ os = "posix" => soError \/ wait.swallowed
    /\ wait.result = 0 => wait.linked \/ (os = "posix" /\ wait.swallowed)

(* The arithmetic of the bytes that are written: NextByte, sent and nleft. *)
LEMMA Behind ==
    ASSUME NEW a \in Nat, NEW b \in Nat, NEW i \in Nat, i > b
    PROVE  a + b + (i - b) = a + i
OBVIOUS

(* What the kernel takes of a call are the next bytes of the message.      *)
LEMMA Writes ==
    ASSUME SendInv, NEW n \in Nat \ {0}, sending # NotSending, n <= sending.nleft,
           wire' = wire \o Written(n), taken' = taken
    PROVE  StreamOK' /\ Len(wire') = Len(wire) + n
<1>1. /\ wire \in Seq(Nat) /\ taken \in Seq(Nat)
      /\ Len(wire) \in Nat /\ Len(taken) \in Nat
      /\ sent \in Nat /\ sending.size \in Nat /\ sending.nleft \in Nat
      /\ sent + (sending.size - sending.nleft) = Len(taken) + Len(wire)
  BY LenProperties DEF SendInv, StreamOK, SendingOK, Sendings
<1>2. PICK w : w = Written(n)
  OBVIOUS
<1>3. /\ w \in [1 .. n -> Nat]
      /\ \A i \in 1 .. n : w[i] = Len(taken) + Len(wire) + i
  <2>1. \A i \in 1 .. n : NextByte + i - 1 = Len(taken) + Len(wire) + i
    BY <1>1 DEF NextByte
  <2>2. w = [i \in 1 .. n |-> NextByte + i - 1]
    BY <1>2 DEF Written
  <2>3. \A i \in 1 .. n : Len(taken) + Len(wire) + i \in Nat
    BY <1>1
  <2> QED
    BY ONLY <2>1, <2>2, <2>3
<1>4. w \in Seq(Nat) /\ Len(w) = n
  BY ONLY <1>3, FunctionIsSeq
<1>5. /\ wire' \in Seq(Nat) /\ Len(wire') = Len(wire) + n
      /\ \A i \in 1 .. Len(wire) + n :
            wire'[i] = IF i <= Len(wire) THEN wire[i] ELSE w[i - Len(wire)]
  <2>1. wire' = wire \o w
    BY <1>2
  <2>2. /\ wire \o w \in Seq(Nat) /\ Len(wire \o w) = Len(wire) + Len(w)
        /\ \A i \in 1 .. Len(wire) + Len(w) :
              (wire \o w)[i] = IF i <= Len(wire) THEN wire[i] ELSE w[i - Len(wire)]
    BY ONLY ZenonT(40), <1>1, <1>4, ConcatProperties
  <2> QED
    BY <1>4, <2>1, <2>2
<1>6. ASSUME NEW i \in 1 .. Len(wire) + n PROVE wire'[i] = Len(taken) + i
  <2>1. CASE i <= Len(wire)
    <3>1. wire'[i] = wire[i] /\ i \in 1 .. Len(wire)
      BY <1>1, <1>5, <2>1
    <3> QED
      BY <3>1 DEF SendInv, StreamOK
  <2>2. CASE i > Len(wire)
    <3>1. i - Len(wire) \in 1 .. n /\ wire'[i] = w[i - Len(wire)]
      BY ONLY <1>1, <1>5, <2>2
    <3>2. w[i - Len(wire)] = Len(taken) + Len(wire) + (i - Len(wire))
      BY <1>3, <3>1
    <3>3. i \in Nat
      BY <1>1
    <3>4. PICK a \in Nat, b \in Nat : a = Len(taken) /\ b = Len(wire)
      BY <1>1
    <3>5. a + b + (i - b) = a + i
      BY ONLY <2>2, <3>3, <3>4, Behind
    <3>6. wire'[i] = a + b + (i - b)
      <4>1. wire'[i] = w[i - b] /\ w[i - b] = a + b + (i - b)
        BY ONLY <3>1, <3>2, <3>4
      <4> QED
        BY ONLY <4>1, Zenon
    <3>7. wire'[i] = a + i
      BY ONLY <3>5, <3>6, Zenon
    <3> QED
      BY ONLY <3>4, <3>7, Zenon
  <2>3. i <= Len(wire) \/ i > Len(wire)
    BY <1>1
  <2> QED
    BY ONLY <2>1, <2>2, <2>3, Zenon
<1> QED
  BY <1>1, <1>5, <1>6 DEF SendInv, StreamOK

(* Every step of the sender, the kernel and the peer keeps the bytes in    *)
(* order and the caller's count right.                                     *)
LEMMA SendStep == SendInv /\ [ConnectionNext]_connectionVars => SendInv'
<1> SUFFICES ASSUME SendInv, [ConnectionNext]_connectionVars PROVE SendInv'
  OBVIOUS
<1> USE DEF kernelVars, sendVars, receiveVars
<1>0. ASSUME UNCHANGED <<sending, sent, wire, taken>> PROVE SendInv'
  BY <1>0 DEF SendInv, StreamOK, SendingOK
<1>1. CASE Establish \/ Refuse \/ Break \/ Wait \/ FetchError \/ PeerWrites
  BY <1>0, <1>1 DEF Establish, Refuse, Break, Wait, FetchError, PeerWrites
<1>2. ASSUME NEW size \in Sizes, Recv(size) PROVE SendInv'
  BY <1>0, <1>2 DEF Recv
<1>3. ASSUME NEW size \in Sizes, NEW call \in Calls, NEW retry \in Retries \cup {0},
             Send(call, size, retry)
      PROVE  SendInv'
  <2>1. /\ size \in Nat \ {0} /\ retry \in Int
        /\ call \in {"sendn", "sendn_retry", "udp_sendn"}
    BY ConnectionAssumption DEF Calls
  <2>2. /\ sending = NotSending /\ sent # Dead
        /\ sending' = [call |-> call, size |-> size, nleft |-> size, retry |-> retry]
        /\ UNCHANGED <<sent, wire, taken>>
    BY <1>3 DEF Send, Ready
  <2>3. sent \in Nat /\ Len(taken) + Len(wire) = sent
    BY <2>2 DEF SendInv, SendingOK
  <2>4. /\ sending' \in Sendings /\ sending'.size = size /\ sending'.nleft = size
        /\ sending'.call # "none"
    BY <2>1, <2>2 DEF Sendings
  <2>5. SendingOK'
    BY <2>1, <2>2, <2>3, <2>4 DEF SendingOK, NotSending
  <2>6. StreamOK'
    BY <2>2 DEF SendInv, StreamOK
  <2> QED
    BY <2>5, <2>6 DEF SendInv
<1>4. ASSUME sending # NotSending
      PROVE  /\ sending \in Sendings /\ sent \in Nat
             /\ sending.nleft \in 1 .. sending.size /\ sending.size \in Nat
             /\ Len(taken) + Len(wire) = sent + (sending.size - sending.nleft)
             /\ Len(taken) \in Nat /\ Len(wire) \in Nat
             /\ NotSending.call = "none" /\ sending.call # "none"
  BY <1>4, LenProperties DEF SendInv, SendingOK, StreamOK, Sendings, NotSending
<1>5. CASE Write
  <2>1. PICK n \in Amounts :
           /\ wire' = wire \o Written(n)
           /\ IF n = sending.nleft THEN SendReturns(sent, sending.size)
              ELSE sending' = [sending EXCEPT !.nleft = @ - n] /\ UNCHANGED sent
    BY <1>5 DEF Write
  <2>2. sending # NotSending /\ taken' = taken
    BY <1>5 DEF Write
  <2>3. n \in Nat \ {0} /\ n <= sending.nleft
    <3>1. Len(wire) \in Nat /\ Room \in Nat /\ sending.nleft \in Nat \ {0}
      BY <1>4, <2>2, ConnectionAssumption
    <3> QED
      BY <3>1 DEF Amounts, Least
  <2>4. StreamOK' /\ Len(wire') = Len(wire) + n
    BY <2>1, <2>2, <2>3, Writes
  <2>. PICK a \in Nat, b \in Nat, s \in Nat, left \in Nat, size \in Nat :
            /\ a = Len(taken) /\ b = Len(wire) /\ s = sent
            /\ left = sending.nleft /\ size = sending.size
    BY SMTT(30), <1>4, <2>2
  <2>5. CASE n = sending.nleft
    <3>1. sending' = NotSending /\ sent' = sent + sending.size
      BY <1>4, <2>1, <2>2, <2>5 DEF SendReturns
    <3>2. sent' \in Nat /\ Len(taken') + Len(wire') = sent'
      <4>1. a + b = s + (size - left)
        BY <1>4, <2>2
      <4>2. a + (b + left) = s + size /\ s + size \in Nat
        BY ONLY <4>1
      <4> QED
        BY <2>2, <2>4, <2>5, <3>1, <4>2
    <3> QED
      BY <2>4, <3>1, <3>2 DEF SendInv, SendingOK
  <2>6. CASE n # sending.nleft
    <3>1. /\ sending' = [sending EXCEPT !.nleft = sending.nleft - n] /\ sent' = sent
          /\ sending.nleft - n \in 1 .. sending.size
      BY SMTT(30), <1>4, <2>1, <2>2, <2>3, <2>6
    <3>2. /\ sending' \in Sendings /\ sending'.nleft = sending.nleft - n
          /\ sending'.size = sending.size /\ sending'.call = sending.call
      BY SMTT(30), <1>4, <2>2, <3>1 DEF Sendings
    <3>3. /\ sending'.nleft \in 1 .. sending'.size
          /\ Len(taken') + Len(wire') = sent' + (sending'.size - sending'.nleft)
      <4>1. a + b = s + (size - left)
        BY <1>4, <2>2
      <4>2. a + (b + n) = s + (size - (left - n))
        BY ONLY <2>3, <4>1
      <4> QED
        BY <2>2, <2>4, <3>1, <3>2, <4>2
    <3>4. sending' # NotSending
      BY <1>4, <2>2, <3>2
    <3> QED
      BY <1>4, <2>2, <2>4, <3>1, <3>2, <3>3, <3>4 DEF SendInv, SendingOK
  <2> QED
    BY <2>5, <2>6
<1>6. CASE WouldBlock
  <2>1. sending # NotSending /\ TryAgain /\ UNCHANGED <<wire, taken>>
    BY <1>6 DEF WouldBlock
  <2>2. CASE UNCHANGED <<sending, sent>>
    BY <1>0, <2>1, <2>2
  <2>3. CASE SendReturns(sent, sending.size - sending.nleft)
    <3>1. sending' = NotSending /\ sent' = sent + (sending.size - sending.nleft)
      BY <1>4, <2>1, <2>3 DEF SendReturns
    <3>2. sent' \in Nat /\ Len(taken') + Len(wire') = sent'
      BY <1>4, <2>1, <3>1
    <3> QED
      BY <2>1, <3>1, <3>2 DEF SendInv, SendingOK, StreamOK
  <2>4. CASE sending' = [sending EXCEPT !.retry = Counted(@)] /\ UNCHANGED sent
    <3>1. sending' = [sending EXCEPT !.retry = sending.retry - 1]
      BY <2>4 DEF Counted
    <3>2. /\ sending' \in Sendings /\ sending'.nleft = sending.nleft
          /\ sending'.size = sending.size /\ sending'.call = sending.call
      BY SMTT(30), <1>4, <2>1, <3>1 DEF Sendings
    <3>3. sending' # NotSending
      BY <1>4, <2>1, <3>2
    <3> QED
      BY <1>4, <2>1, <2>4, <3>2, <3>3 DEF SendInv, SendingOK, StreamOK
  <2> QED
    BY <2>1, <2>2, <2>3, <2>4 DEF TryAgain
<1>7. CASE SendError
  <2>1. sending' = NotSending /\ sent' = Dead /\ UNCHANGED <<wire, taken>>
    BY <1>7 DEF SendError, SendReturns
  <2> QED
    BY <2>1 DEF SendInv, SendingOK, StreamOK
<1>8. CASE PeerReads
  <2>1. /\ wire # <<>> /\ taken' = Append(taken, Head(wire)) /\ wire' = Tail(wire)
        /\ UNCHANGED <<sending, sent>>
    BY <1>8 DEF PeerReads
  <2>2. /\ wire \in Seq(Nat) /\ taken \in Seq(Nat) /\ Len(taken) \in Nat
        /\ Len(wire) \in Nat \ {0} /\ wire[1] = Len(taken) + 1
    BY <2>1, EmptySeq, LenProperties DEF SendInv, StreamOK
  <2>3. PICK h \in Nat : h = Head(wire) /\ h = Len(taken) + 1
    BY <2>1, <2>2, HeadTailProperties
  <2>4. /\ wire' \in Seq(Nat) /\ Len(wire') = Len(wire) - 1
        /\ \A i \in 1 .. Len(wire) - 1 : wire'[i] = wire[i + 1]
    BY <2>1, <2>2, HeadTailProperties
  <2>5. /\ taken' \in Seq(Nat) /\ Len(taken') = Len(taken) + 1
        /\ \A i \in 1 .. Len(taken) : taken'[i] = taken[i]
        /\ taken'[Len(taken) + 1] = h
    <3>1. /\ Append(taken, h) \in Seq(Nat) /\ Len(Append(taken, h)) = Len(taken) + 1
          /\ \A i \in 1 .. Len(taken) : Append(taken, h)[i] = taken[i]
          /\ Append(taken, h)[Len(taken) + 1] = h
      BY ONLY <2>2, <2>3, AppendProperties
    <3>2. taken' = Append(taken, h)
      BY <2>1, <2>3
    <3> QED
      BY ONLY <3>1, <3>2
  <2>6. \A i \in 1 .. Len(taken') : taken'[i] = i
    <3> SUFFICES ASSUME NEW i \in 1 .. Len(taken) + 1 PROVE taken'[i] = i
      BY <2>5
    <3>1. i \in 1 .. Len(taken) \/ i = Len(taken) + 1
      BY <2>2
    <3> QED
      BY <2>3, <2>5, <3>1 DEF SendInv, StreamOK
  <2>7. \A i \in 1 .. Len(wire') : wire'[i] = Len(taken') + i
    <3> SUFFICES ASSUME NEW i \in 1 .. Len(wire) - 1 PROVE wire'[i] = Len(taken) + 1 + i
      BY <2>4, <2>5
    <3>1. i + 1 \in 1 .. Len(wire) /\ wire'[i] = wire[i + 1]
      BY <2>2, <2>4
    <3>2. wire[i + 1] = Len(taken) + (i + 1)
      BY <3>1 DEF SendInv, StreamOK
    <3> QED
      BY <2>2, <3>1, <3>2
  <2>8. StreamOK'
    BY <2>4, <2>5, <2>6, <2>7 DEF StreamOK
  <2>9. Len(taken') + Len(wire') = Len(taken) + Len(wire)
    BY <2>2, <2>4, <2>5
  <2>10. SendingOK'
    BY <2>1, <2>9 DEF SendInv, SendingOK
  <2> QED
    BY <2>8, <2>10 DEF SendInv
<1>9. CASE UNCHANGED connectionVars
  BY <1>0, <1>9 DEF connectionVars
<1> QED
  BY <1>1, <1>2, <1>3, <1>5, <1>6, <1>7, <1>8, <1>9 DEF ConnectionNext, Turn

(* recv tells the end of a connection from a moment without bytes.         *)
LEMMA ReceiveStep == ReceiveInv /\ [ConnectionNext]_connectionVars => ReceiveInv'
<1> SUFFICES ASSUME ReceiveInv, [ConnectionNext]_connectionVars PROVE ReceiveInv'
  OBVIOUS
<1> USE DEF kernelVars, sendVars, receiveVars
<1>0. ASSUME UNCHANGED <<link, coming, closed, over>> PROVE ReceiveInv'
  BY <1>0 DEF ReceiveInv
<1>1. CASE Establish \/ Refuse \/ Break
  BY <1>1 DEF Establish, Refuse, Break, ReceiveInv
<1>2. CASE Wait \/ FetchError \/ Turn \/ PeerReads \/ UNCHANGED connectionVars
  BY <1>0, <1>2 DEF Wait, FetchError, Turn, Write, WouldBlock, SendError, PeerReads,
                    connectionVars
<1>3. ASSUME NEW size \in Sizes, NEW call \in Calls, NEW retry \in Retries \cup {0},
             Send(call, size, retry)
      PROVE  ReceiveInv'
  BY <1>0, <1>3 DEF Send
<1>4. CASE PeerWrites
  <2>1. /\ link = "connected" /\ closed = FALSE /\ link' = link /\ over' = over
        /\ coming' \in {coming, coming + 1} /\ closed' \in {closed, TRUE}
    BY <1>4 DEF PeerWrites, ReceiveInv
  <2>2. coming' \in Nat /\ over' \in BOOLEAN /\ closed' \in BOOLEAN
    <3>1. coming \in Nat /\ over \in BOOLEAN
      BY DEF ReceiveInv
    <3>2. coming' \in Nat
      BY <2>1, <3>1
    <3>3. over' \in BOOLEAN
      BY ONLY <2>1, <3>1, Zenon
    <3>4. closed' \in BOOLEAN
      <4>1. closed' \in {FALSE, TRUE}
        BY ONLY <2>1, Zenon
      <4> QED
        BY ONLY <4>1, Zenon
    <3> QED
      BY ONLY <3>2, <3>3, <3>4, Zenon
  <2>3. over = FALSE
    BY <2>1 DEF ReceiveInv
  <2> QED
    BY <2>1, <2>2, <2>3 DEF ReceiveInv
<1>5. ASSUME NEW size \in Sizes, Recv(size) PROVE ReceiveInv'
  <2>1. PICK n \in Received(size) \cup IF interrupts < MaxInterrupts THEN {-1} ELSE {} :
           /\ over' = IsOver(n)
           /\ coming' = IF n > 0 THEN coming - n ELSE coming
    BY <1>5 DEF Recv
  <2>2. closed' = closed /\ link' = link /\ size \in Nat \ {0} /\ coming \in Nat
    BY <1>5, ConnectionAssumption DEF Recv, ReceiveInv
  <2>3. \/ n = -2 /\ link \in {"broken", "refused"}
        \/ n \in Nat \ {0} /\ n <= coming
        \/ n = 0 /\ closed /\ coming = 0
        \/ n = -1
    BY <2>1, <2>2 DEF Received, Least
  <2>4. coming' \in Nat
    BY <2>1, <2>2, <2>3
  <2>5. over' \in BOOLEAN /\ closed' \in BOOLEAN
    BY <2>1, <2>2 DEF IsOver, ReceiveInv
  <2>6. (over' = TRUE) => (\/ closed' = TRUE /\ coming' = 0
                           \/ link' \in {"broken", "refused"})
    <3> SUFFICES ASSUME over' = TRUE, ~(link \in {"broken", "refused"})
                 PROVE  closed' = TRUE /\ coming' = 0
      BY <2>2
    <3>1. n \in {0, -2}
      BY <2>1 DEF IsOver
    <3>2. n = 0 /\ (closed = TRUE) /\ coming = 0
      BY <2>2, <2>3, <3>1 DEF ReceiveInv
    <3> QED
      BY <2>1, <2>2, <3>2
  <2> QED
    BY <2>4, <2>5, <2>6 DEF ReceiveInv
<1> QED
  BY <1>1, <1>2, <1>3, <1>4, <1>5 DEF ConnectionNext

(* The peer gets the message byte by byte, and the caller is told how far  *)
(* it got, for every size of the message, the calls and the kernel's room. *)
THEOREM StreamCorrect == ConnectionSpec => []StreamExact
<1>1. ConnectionInit => SendInv /\ ReceiveInv
  <2> SUFFICES ASSUME ConnectionInit PROVE SendInv /\ ReceiveInv
    OBVIOUS
  <2>1. <<>> \in Seq(Nat) /\ Len(<<>>) = 0
    BY EmptySeq
  <2>2. wire = <<>> /\ taken = <<>> /\ sent = 0 /\ sending = NotSending
    BY DEF ConnectionInit
  <2>3. StreamOK
    BY <2>1, <2>2 DEF StreamOK
  <2>4. SendingOK
    BY <2>1, <2>2 DEF SendingOK
  <2>5. ReceiveInv
    BY DEF ConnectionInit, ReceiveInv
  <2> QED
    BY <2>3, <2>4, <2>5 DEF SendInv
<1>2. SendInv /\ ReceiveInv => StreamExact
  <2> SUFFICES ASSUME SendInv, ReceiveInv PROVE StreamExact
    OBVIOUS
  <2>1. /\ wire \in Seq(Nat) /\ taken \in Seq(Nat)
        /\ Len(wire) \in Nat /\ Len(taken) \in Nat
    BY LenProperties DEF SendInv, StreamOK
  <2>2. PICK n \in Nat : n = Len(taken) + Len(wire)
    BY <2>1
  <2>3. /\ taken \o wire \in Seq(Nat) /\ Len(taken \o wire) = n
        /\ \A i \in 1 .. n : (taken \o wire)[i]
              = IF i <= Len(taken) THEN taken[i] ELSE wire[i - Len(taken)]
    BY ONLY <2>1, <2>2, ConcatProperties
  <2>4. ASSUME NEW i \in 1 .. n PROVE (taken \o wire)[i] = i
    <3>1. CASE i <= Len(taken)
      <4>1. i \in 1 .. Len(taken) /\ (taken \o wire)[i] = taken[i]
        BY <2>1, <2>3, <3>1
      <4> QED
        BY <4>1 DEF SendInv, StreamOK
    <3>2. CASE i > Len(taken)
      <4>1. i - Len(taken) \in 1 .. Len(wire)
            /\ (taken \o wire)[i] = wire[i - Len(taken)]
        BY <2>1, <2>2, <2>3, <3>2
      <4>2. wire[i - Len(taken)] = Len(taken) + (i - Len(taken))
        BY <4>1 DEF SendInv, StreamOK
      <4>3. PICK a \in Nat : a = Len(taken)
        BY <2>1
      <4>4. a + (i - a) = i
        BY ONLY <2>4, <4>3
      <4>5. (taken \o wire)[i] = a + (i - a)
        <5>1. (taken \o wire)[i] = wire[i - a] /\ wire[i - a] = a + (i - a)
          BY ONLY <4>1, <4>2, <4>3
        <5> QED
          BY ONLY <5>1, Zenon
      <4> QED
        BY ONLY <4>4, <4>5, Zenon
    <3>3. i <= Len(taken) \/ i > Len(taken)
      BY <2>1
    <3> QED
      BY ONLY <3>1, <3>2, <3>3, Zenon
  <2>5. /\ Numbers(n) \in Seq(Nat) /\ Len(Numbers(n)) = n
        /\ \A i \in 1 .. n : Numbers(n)[i] = i
    <3>1. PICK f : f = Numbers(n)
      OBVIOUS
    <3>2. f \in [1 .. n -> Nat] /\ \A i \in 1 .. n : f[i] = i
      BY <3>1 DEF Numbers
    <3>3. f \in Seq(Nat) /\ Len(f) = n
      BY ONLY <3>2, FunctionIsSeq
    <3> QED
      BY <3>1, <3>2, <3>3
  <2>6. taken \o wire = Numbers(n)
    BY ONLY <2>3, <2>4, <2>5, SeqEqual, Zenon
  <2> QED
    BY <2>2, <2>6 DEF StreamExact, SendInv, SendingOK, ReceiveInv
<1> QED
  BY <1>1, <1>2, SendStep, ReceiveStep, PTL DEF ConnectionSpec

(* An error of the connection is in the socket until waitforconnect has    *)
(* fetched it.                                                             *)
LEMMA WaitForStep == WaitInv /\ [ConnectionNext]_connectionVars => WaitInv'
<1> SUFFICES ASSUME WaitInv, [ConnectionNext]_connectionVars PROVE WaitInv'
  OBVIOUS
<1> USE DEF kernelVars, sendVars, receiveVars
<1>0. ASSUME UNCHANGED <<os, link, soError, wait>> PROVE WaitInv'
  BY <1>0 DEF WaitInv
<1>1. CASE Establish \/ Refuse \/ Break
  BY <1>1 DEF Establish, Refuse, Break, WaitInv
<1>2. CASE Turn \/ PeerReads \/ PeerWrites \/ UNCHANGED connectionVars
  BY <1>0, <1>2 DEF Turn, Write, WouldBlock, SendError, PeerReads, PeerWrites,
                    connectionVars
<1>3. ASSUME NEW size \in Sizes, NEW call \in Calls, NEW retry \in Retries \cup {0},
             Send(call, size, retry)
      PROVE  WaitInv'
  BY <1>0, <1>3 DEF Send
<1>4. ASSUME NEW size \in Sizes, Recv(size) PROVE WaitInv'
  BY <1>0, <1>4 DEF Recv
<1>. DEFINE Waits == [step : {"idle", "error"}, ready : BOOLEAN, result : {0, -1},
                      linked : BOOLEAN, swallowed : BOOLEAN]
<1>5. CASE Wait
  <2>1. PICK ready \in {Writable, FALSE} :
          wait' = IF os = "posix" THEN [wait EXCEPT !.step = "error", !.ready = ready]
                  ELSE [wait EXCEPT !.result = IF ready THEN 0 ELSE -1,
                                    !.linked = link \in {"connected", "broken"}]
    BY <1>5 DEF Wait
  <2>2. /\ wait.result = -1 /\ wait.step = "idle" /\ wait \in Waits
        /\ os \in {"posix", "windows"} /\ soError \in BOOLEAN
        /\ os' = os /\ link' = link /\ soError' = soError
    BY <1>5 DEF Wait, WaitInv
  <2>3. /\ ready \in BOOLEAN
        /\ (ready = TRUE) => (\/ link \in {"connected", "broken"}
                              \/ link = "refused" /\ os = "posix")
    BY <2>1 DEF Writable
  <2>4. CASE os = "posix"
    <3>1. /\ wait' \in Waits /\ wait'.step = "error" /\ wait'.ready = ready
          /\ wait'.result = -1 /\ wait'.swallowed = wait.swallowed
      BY <2>1, <2>2, <2>3, <2>4
    <3> QED
      BY <2>2, <2>3, <2>4, <3>1 DEF WaitInv
  <2>5. CASE os = "windows"
    <3>1. PICK linked \in BOOLEAN : linked <=> (link \in {"connected", "broken"})
      BY Zenon
    <3>2. PICK result \in {0, -1} : result = IF ready THEN 0 ELSE -1
      BY <2>3
    <3>3. wait' = [wait EXCEPT !.result = result, !.linked = linked]
      <4>1. CASE linked
        <5>1. linked = (link \in {"connected", "broken"})
          BY ONLY <3>1, <4>1
        <5> QED
          BY <2>1, <2>5, <3>2, <5>1
      <4>2. CASE ~linked
        <5>1. linked = (link \in {"connected", "broken"})
          BY ONLY <3>1, <4>2
        <5> QED
          BY <2>1, <2>5, <3>2, <5>1
      <4> QED
        BY <4>1, <4>2
    <3>4. /\ wait' \in Waits /\ wait'.step = "idle" /\ wait'.linked = linked
          /\ wait'.result = result /\ (result = 0 => ready = TRUE)
      <4>1. wait' = [step |-> "idle", ready |-> wait.ready, result |-> result,
                     linked |-> linked, swallowed |-> wait.swallowed]
        BY <2>2, <3>3
      <4>2. result = 0 => ready = TRUE
        BY <2>3, <3>2
      <4> QED
        BY <2>2, <3>1, <3>2, <4>1, <4>2
    <3>5. ready = TRUE => linked = TRUE
      BY <2>3, <2>5, <3>1
    <3> QED
      BY <2>2, <2>5, <3>4, <3>5 DEF WaitInv
  <2> QED
    BY <2>2, <2>4, <2>5
<1>6. CASE FetchError
  <2>1. /\ os = "posix" /\ wait.step = "error" /\ wait \in Waits
        /\ soError \in BOOLEAN /\ soError' = FALSE /\ os' = os /\ link' = link
        /\ wait.ready = TRUE => link \in {"connected", "broken", "refused"}
        /\ link = "refused" => soError = TRUE \/ wait.swallowed = TRUE
    BY <1>6 DEF FetchError, WaitInv
  <2>2. PICK accepted \in BOOLEAN : accepted = Accepts(wait.ready, soError)
    BY <2>1 DEF Accepts
  <2>3. PICK linked : linked = (link \in {"connected", "broken"})
    OBVIOUS
  <2>4. PICK swallowed \in BOOLEAN :
           swallowed = (wait.swallowed \/ (soError /\ ~accepted))
    OBVIOUS
  <2>5. wait' = [wait EXCEPT !.step = "idle", !.result = IF accepted THEN 0 ELSE -1,
                             !.linked = linked, !.swallowed = swallowed]
    BY <1>6, <2>2, <2>3, <2>4 DEF FetchError
  <2>6. /\ wait' \in Waits /\ wait'.step = "idle" /\ wait'.linked = linked
        /\ wait'.swallowed = swallowed
        /\ (wait'.result = 0 => accepted = TRUE)
    <3>1. linked \in BOOLEAN
      BY <2>3
    <3>2. PICK result \in {0, -1} : result = IF accepted THEN 0 ELSE -1
      BY <2>2
    <3>3. result = 0 => accepted = TRUE
      BY <2>2, <3>2
    <3>4. wait' = [wait EXCEPT !.step = "idle", !.result = result,
                               !.linked = linked, !.swallowed = swallowed]
      BY <2>5, <3>2
    <3>5. wait' = [step |-> "idle", ready |-> wait.ready, result |-> result,
                   linked |-> linked, swallowed |-> swallowed]
      BY <2>1, <3>4
    <3> QED
      BY <2>1, <3>1, <3>3, <3>5
  <2>7. accepted = TRUE => wait.ready = TRUE /\ soError = FALSE
    BY <2>1, <2>2 DEF Accepts
  <2>8. link = "refused" => swallowed = TRUE
    BY <2>1, <2>2, <2>4, <2>7
  <2>9. accepted = TRUE => linked = TRUE \/ swallowed = TRUE
    BY <2>1, <2>3, <2>7, <2>8
  <2> QED
    BY <2>1, <2>6, <2>8, <2>9 DEF WaitInv
<1> QED
  BY <1>1, <1>2, <1>3, <1>4, <1>5, <1>6 DEF ConnectionNext

(* waitforconnect does not take a socket for connected that never was,     *)
(* unless an earlier call has taken the error away, in every order of the  *)
(* calls and of what happens to the connection.                            *)
THEOREM WaitCorrect == ConnectionSpec => []WaitTruthful
<1>1. ConnectionInit => WaitInv
  <2> SUFFICES ASSUME ConnectionInit PROVE WaitInv
    OBVIOUS
  <2>1. wait \in [step : {"idle", "error"}, ready : BOOLEAN, result : {0, -1},
                 linked : BOOLEAN, swallowed : BOOLEAN]
    BY DEF ConnectionInit, NotWaiting
  <2>2. wait.step = "idle" /\ wait.result = -1
    BY DEF ConnectionInit, NotWaiting
  <2>3. link # "refused" /\ os \in {"posix", "windows"} /\ soError \in BOOLEAN
    BY DEF ConnectionInit
  <2> QED
    BY <2>1, <2>2, <2>3 DEF WaitInv
<1>2. WaitInv => WaitTruthful
  BY DEF WaitInv, WaitTruthful
<1> QED
  BY <1>1, <1>2, WaitForStep, PTL DEF ConnectionSpec

-----------------------------------------------------------------------------
(* Interfaces *)

(* Where each element of a list ends, when element i takes width[i]        *)
(* entries.                                                                *)
LEMMA EndsAre ==
    ASSUME NEW list, NEW n \in Nat, Len(list) = n,
           NEW width, \A i \in 1 .. n : width[i] \in Nat
    PROVE  /\ \A i \in 0 .. n : Ends(list, width)[i] \in Nat
           /\ Ends(list, width)[0] = 0
           /\ \A i \in 1 .. n : Ends(list, width)[i] = Ends(list, width)[i - 1] + width[i]
<1> DEFINE Sums(f, k) == /\ f \in [0 .. k -> Nat] /\ f[0] = 0
                         /\ \A i \in 1 .. k : f[i] = f[i - 1] + width[i]
           Has(k) == \E f : Sums(f, k)
           P == {k \in Nat : k <= n => Has(k)}
<1>1. 0 \in P
  <2>1. PICK f : f = [i \in 0 .. 0 |-> 0]
    OBVIOUS
  <2>2. Sums(f, 0)
    BY <2>1
  <2> QED
    BY <2>2
<1>2. ASSUME NEW k \in Nat, k \in P PROVE k + 1 \in P
  <2>1. ASSUME k + 1 <= n PROVE \E f : Sums(f, k + 1)
    <3>1. k <= n /\ k + 1 \in 1 .. n
      BY <2>1
    <3>2. PICK f : Sums(f, k)
      BY <1>2, <3>1
    <3>3. PICK e : e = [i \in 0 .. k + 1 |-> IF i = k + 1 THEN f[k] + width[k + 1] ELSE f[i]]
      OBVIOUS
    <3>4. width[k + 1] \in Nat
      BY <3>1
    <3>5. e \in [0 .. k + 1 -> Nat] /\ e[0] = 0
      BY <3>2, <3>3, <3>4
    <3>6. ASSUME NEW i \in 1 .. k + 1 PROVE e[i] = e[i - 1] + width[i]
      <4>1. CASE i = k + 1
        BY <4>1, <3>3
      <4>2. CASE i # k + 1
        <5>1. i \in 1 .. k /\ i - 1 \in 0 .. k + 1 /\ i \in 0 .. k + 1 /\ i - 1 # k + 1
          BY <4>2
        <5>2. e[i] = f[i] /\ e[i - 1] = f[i - 1] /\ f[i] = f[i - 1] + width[i]
          BY <5>1, <4>2, <3>2, <3>3
        <5> QED
          BY ONLY <5>2
      <4> QED
        BY <4>1, <4>2
    <3>7. Sums(e, k + 1)
      BY <3>5, <3>6
    <3> HIDE DEF Sums
    <3> QED
      BY ONLY <3>7, Zenon
  <2>2. k + 1 \in Nat
    OBVIOUS
  <2>3. k + 1 <= n => Has(k + 1)
    BY <2>1
  <2> HIDE DEF Has
  <2> QED
    BY <2>2, <2>3
<1>3. \A k \in Nat : k \in P
  <2> HIDE DEF P
  <2> QED
    BY ONLY <1>1, <1>2, Induct
<1>4. PICK f : Sums(f, n)
  <2> HIDE DEF Has
  <2>1. n \in P => Has(n)
    OBVIOUS
  <2> HIDE DEF P
  <2>2. n \in P
    BY <1>3
  <2> USE DEF Has
  <2> HIDE DEF Sums
  <2> QED
    BY ONLY <2>1, <2>2
<1>5. f = [i \in 0 .. n |-> IF i = 0 THEN 0 ELSE f[i - 1] + width[i]]
  BY <1>4
<1>6. PICK h : h = [i \in 0 .. n |-> IF i = 0 THEN 0 ELSE h[i - 1] + width[i]]
               /\ Ends(list, width) = h
  BY ONLY <1>5, Len(list) = n, Zenon DEF Ends
<1> DEFINE Q == {k \in Nat : k <= n => h[k] \in Nat}
<1>7. 0 \in Q
  BY <1>6
<1>8. ASSUME NEW k \in Nat, k \in Q PROVE k + 1 \in Q
  <2> SUFFICES ASSUME k + 1 <= n PROVE h[k + 1] \in Nat
    OBVIOUS
  <2>1. h[k] \in Nat /\ k + 1 \in 0 .. n /\ k + 1 # 0 /\ (k + 1) - 1 = k /\ width[k + 1] \in Nat
    BY <1>8
  <2>2. h[k + 1] = h[k] + width[k + 1]
    BY <1>6, <2>1
  <2> QED
    BY <2>1, <2>2
<1>9. \A k \in Nat : k \in Q
  <2> HIDE DEF Q
  <2> QED
    BY ONLY <1>7, <1>8, Induct
<1>10. /\ \A i \in 0 .. n : h[i] \in Nat
       /\ h[0] = 0
       /\ \A i \in 1 .. n : h[i] = h[i - 1] + width[i]
  BY <1>6, <1>9
<1> QED
  BY <1>6, <1>10

(* They go up, so that every entry belongs to one element.                 *)
LEMMA EndsGrow ==
    ASSUME NEW n \in Nat, NEW e, \A i \in 0 .. n : e[i] \in Nat, e[0] = 0,
           \A i \in 1 .. n : e[i - 1] <= e[i]
    PROVE  /\ \A i, j \in 0 .. n : i <= j => e[i] <= e[j]
           /\ \A k \in Nat : 0 < k /\ k <= e[n] => \E i \in 1 .. n : e[i - 1] < k /\ k <= e[i]
<1>1. ASSUME NEW i \in 0 .. n PROVE \A j \in 0 .. n : i <= j => e[i] <= e[j]
  <2> DEFINE P == {j \in Nat : j \in 0 .. n /\ i <= j => e[i] <= e[j]}
  <2>1. 0 \in P
    OBVIOUS
  <2>2. ASSUME NEW j \in Nat, j \in P PROVE j + 1 \in P
    <3> SUFFICES ASSUME j + 1 \in 0 .. n, i <= j + 1 PROVE e[i] <= e[j + 1]
      OBVIOUS
    <3>1. CASE i = j + 1
      BY <3>1
    <3>2. CASE i # j + 1
      <4>1. i <= j /\ j \in 0 .. n /\ j + 1 \in 1 .. n /\ (j + 1) - 1 = j
        BY <3>2
      <4>2. e[i] <= e[j] /\ e[j] <= e[j + 1]
        BY <4>1, <2>2
      <4> QED
        BY <4>1, <4>2
    <3> QED
      BY <3>1, <3>2
  <2>3. \A j \in Nat : j \in P
    <3> HIDE DEF P
    <3> QED
      BY ONLY <2>1, <2>2, Induct
  <2> QED
    BY <2>3
<1>2. ASSUME NEW k \in Nat, 0 < k, k <= e[n]
      PROVE  \E i \in 1 .. n : e[i - 1] < k /\ k <= e[i]
  <2> DEFINE S == {i \in 0 .. n : k <= e[i]}
  <2>1. S \subseteq Nat /\ S # {}
    BY <1>2
  <2>2. PICK i \in S : \A j \in S : i <= j
    BY ONLY <2>1, LeastElement
  <2>3. i \in 1 .. n /\ i - 1 \in 0 .. n /\ k <= e[i]
    BY <1>2
  <2>4. i - 1 \notin S
    BY <2>2, <2>3
  <2>5. e[i - 1] < k
    BY <2>3, <2>4
  <2> QED
    BY <2>3, <2>5
<1> QED
  BY <1>1, <1>2

(* What is counted for each element decides what is counted for all.       *)
LEMMA EndsCompare ==
    ASSUME NEW n \in Nat, NEW d, NEW e, d[0] = 0, e[0] = 0,
           \A i \in 0 .. n : d[i] \in Nat /\ e[i] \in Nat,
           \A i \in 1 .. n : d[i] - d[i - 1] <= e[i] - e[i - 1]
    PROVE  /\ d[n] <= e[n]
           /\ (\A i \in 1 .. n : d[i] - d[i - 1] = e[i] - e[i - 1]) => d[n] = e[n]
<1> DEFINE P == {i \in Nat : i <= n => d[i] <= e[i]}
           Same == \A i \in 1 .. n : d[i] - d[i - 1] = e[i] - e[i - 1]
           Q == {i \in Nat : i <= n /\ Same => d[i] = e[i]}
<1>1. 0 \in P /\ 0 \in Q
  OBVIOUS
<1>2. ASSUME NEW i \in Nat, i \in P PROVE i + 1 \in P
  <2> SUFFICES ASSUME i + 1 <= n PROVE d[i + 1] <= e[i + 1]
    OBVIOUS
  <2>1. i \in 0 .. n /\ i + 1 \in 1 .. n /\ i + 1 \in 0 .. n /\ (i + 1) - 1 = i /\ d[i] <= e[i]
    BY <1>2
  <2>2. d[i + 1] - d[i] <= e[i + 1] - e[i]
    BY <2>1
  <2>3. d[i] \in Nat /\ d[i + 1] \in Nat /\ e[i] \in Nat /\ e[i + 1] \in Nat
    BY <2>1
  <2> QED
    BY ONLY <2>1, <2>2, <2>3
<1>3. ASSUME NEW i \in Nat, i \in Q PROVE i + 1 \in Q
  <2> SUFFICES ASSUME i + 1 <= n, Same PROVE d[i + 1] = e[i + 1]
    OBVIOUS
  <2>1. i \in 0 .. n /\ i + 1 \in 1 .. n /\ i + 1 \in 0 .. n /\ (i + 1) - 1 = i /\ d[i] = e[i]
    BY <1>3
  <2>2. d[i + 1] - d[i] = e[i + 1] - e[i]
    BY <2>1
  <2>3. d[i] \in Nat /\ d[i + 1] \in Nat /\ e[i] \in Nat /\ e[i + 1] \in Nat
    BY <2>1
  <2> QED
    BY ONLY <2>1, <2>2, <2>3
<1>4. \A i \in Nat : i \in P
  <2> HIDE DEF P
  <2> QED
    BY ONLY <1>1, <1>2, Induct
<1>5. \A i \in Nat : i \in Q
  <2> HIDE DEF Q
  <2> QED
    BY ONLY <1>1, <1>3, Induct
<1> QED
  BY <1>4, <1>5

(* What a loop has filled in: the first m entries, with the parts of the   *)
(* elements one after the other.                                           *)
FilledWith(list, parts, count, m, entries) ==
    /\ entries = [k \in 1 .. count |-> entries[k]]
    /\ \A k \in 1 .. count : k > m => entries[k] = NotFilled
    /\ \A k \in 1 .. m : \E i \in DOMAIN list : \E a \in 1 .. Len(parts[i]) :
          entries[k] = parts[i][a]
    /\ \A i \in DOMAIN list : \A a \in 1 .. Len(parts[i]) :
          \E k \in 1 .. m : entries[k] = parts[i][a]

(* No two of the parts are the same.                                       *)
Differ(list, parts) ==
    \A i, j \in DOMAIN list : \A a \in 1 .. Len(parts[i]), b \in 1 .. Len(parts[j]) :
        parts[i][a] = parts[j][b] => i = j /\ a = b

Distinct(entries, m) == \A k, l \in 1 .. m : entries[k] = entries[l] => k = l

(* The second loop fills in the parts; when it has as many for each element *)
(* as were counted, it fills in all entries.                               *)
Outcome(q, n, parts, width) ==
    \E m \in Nat :
       /\ AllOf(q.list, width) \in Nat /\ m <= AllOf(q.list, width)
       /\ (\A i \in 1 .. n : Len(parts[i]) = width[i]) => m = AllOf(q.list, width)
       /\ FilledWith(q.list, parts, AllOf(q.list, width), m, Filled(q, parts))
       /\ Distinct(Filled(q, parts), m)

(* A loop that fills a new block in leaves it like this, when no element   *)
(* has more parts than were counted for it.                                *)
LEMMA FilledIs ==
    ASSUME NEW q, NEW n \in Nat, Len(q.list) = n, DOMAIN q.list = 1 .. n,
           NEW parts, \A i \in 1 .. n : Len(parts[i]) \in Nat, Differ(q.list, parts),
           NEW width, \A i \in 1 .. n : width[i] \in Nat /\ Len(parts[i]) <= width[i],
           q.entries = [k \in 1 .. AllOf(q.list, width) |-> NotFilled]
    PROVE  Outcome(q, n, parts, width)
<1> DEFINE lens == [i \in DOMAIN q.list |-> Len(parts[i])]
<1>1. PICK count : count = AllOf(q.list, width)
  OBVIOUS
<1>2. PICK d : d = Ends(q.list, width)
  OBVIOUS
<1>3. PICK e : e = Ends(q.list, lens)
  OBVIOUS
<1>4. /\ \A i \in 0 .. n : d[i] \in Nat
      /\ d[0] = 0
      /\ \A i \in 1 .. n : d[i] = d[i - 1] + width[i]
  <2>1. \A i \in 1 .. n : width[i] \in Nat
    OBVIOUS
  <2> QED
    BY ONLY <1>2, <2>1, n \in Nat, Len(q.list) = n, EndsAre
<1>5. /\ \A i \in 0 .. n : e[i] \in Nat
      /\ e[0] = 0
      /\ \A i \in 1 .. n : e[i] = e[i - 1] + Len(parts[i])
  <2>1. \A i \in 1 .. n : lens[i] \in Nat /\ lens[i] = Len(parts[i])
    OBVIOUS
  <2> HIDE DEF lens
  <2>2. /\ \A i \in 0 .. n : e[i] \in Nat
        /\ e[0] = 0
        /\ \A i \in 1 .. n : e[i] = e[i - 1] + lens[i]
    BY ONLY <1>3, <2>1, n \in Nat, Len(q.list) = n, EndsAre
  <2> QED
    BY <2>1, <2>2
<1>6. count = d[n] /\ count \in Nat
  BY <1>1, <1>2, <1>4 DEF AllOf
<1>7. \A i \in 1 .. n : e[i - 1] \in Nat /\ d[i - 1] \in Nat /\ e[i] \in Nat /\ d[i] \in Nat
  BY <1>4, <1>5
<1>8. /\ e[n] \in Nat /\ e[n] <= count
      /\ (\A i \in 1 .. n : Len(parts[i]) = width[i]) => e[n] = count
  <2>1. ASSUME NEW i \in 1 .. n
        PROVE  e[i] - e[i - 1] = Len(parts[i]) /\ d[i] - d[i - 1] = width[i]
    <3>1. /\ Len(parts[i]) \in Nat /\ e[i - 1] \in Nat /\ e[i] = e[i - 1] + Len(parts[i])
          /\ width[i] \in Nat /\ d[i - 1] \in Nat /\ d[i] = d[i - 1] + width[i]
      BY ONLY <1>4, <1>5, <1>7, i \in 1 .. n,
              \A k \in 1 .. n : Len(parts[k]) \in Nat,
              \A k \in 1 .. n : width[k] \in Nat /\ Len(parts[k]) <= width[k]
    <3> QED
      BY ONLY <3>1
  <2>2. /\ \A i \in 0 .. n : e[i] \in Nat /\ d[i] \in Nat
        /\ \A i \in 1 .. n : e[i] - e[i - 1] <= d[i] - d[i - 1]
    BY <2>1, <1>4, <1>5
  <2>3. /\ e[n] <= d[n]
        /\ (\A i \in 1 .. n : e[i] - e[i - 1] = d[i] - d[i - 1]) => e[n] = d[n]
    BY ONLY <2>2, <1>4, <1>5, n \in Nat, EndsCompare
  <2>4. (\A i \in 1 .. n : Len(parts[i]) = width[i])
        => \A i \in 1 .. n : e[i] - e[i - 1] = d[i] - d[i - 1]
    BY <2>1
  <2>5. e[n] \in Nat
    BY <1>5
  <2> QED
    BY ONLY <2>3, <2>4, <2>5, <1>6
<1>9. /\ \A i, j \in 0 .. n : i <= j => e[i] <= e[j]
      /\ \A k \in Nat : 0 < k /\ k <= e[n] => \E i \in 1 .. n : e[i - 1] < k /\ k <= e[i]
  <2>1. ASSUME NEW i \in 1 .. n PROVE e[i - 1] <= e[i]
    <3>1. Len(parts[i]) \in Nat /\ e[i - 1] \in Nat /\ e[i] = e[i - 1] + Len(parts[i])
      BY ONLY <1>5, <1>7, \A k \in 1 .. n : Len(parts[k]) \in Nat, i \in 1 .. n
    <3> QED
      BY ONLY <3>1
  <2> QED
    BY ONLY <1>5, <2>1, n \in Nat, EndsGrow
<1> DEFINE f == Filled(q, parts)
           Of(k) == CHOOSE i \in DOMAIN q.list : e[i - 1] < k /\ k <= e[i]
<1>10. f = [k \in DOMAIN q.entries |-> IF k > e[Len(q.list)] THEN q.entries[k]
                                       ELSE parts[Of(k)][k - e[Of(k) - 1]]]
  BY ONLY <1>3 DEF Filled
<1>11. \A k \in 1 .. count : f[k] = IF k > e[n] THEN NotFilled
                                    ELSE parts[Of(k)][k - e[Of(k) - 1]]
  BY <1>1, <1>10
<1>19. f = [k \in 1 .. count |-> f[k]]
  BY <1>1, <1>10
<1> HIDE DEF f
<1>12. ASSUME NEW k \in 1 .. count, k <= e[n]
       PROVE  /\ Of(k) \in 1 .. n /\ k - e[Of(k) - 1] \in 1 .. Len(parts[Of(k)])
              /\ f[k] = parts[Of(k)][k - e[Of(k) - 1]]
  <2>1. k \in Nat /\ 0 < k
    OBVIOUS
  <2>2. \E i \in 1 .. n : e[i - 1] < k /\ k <= e[i]
    BY <1>9, <1>12, <2>1
  <2>3. Of(k) \in 1 .. n /\ e[Of(k) - 1] < k /\ k <= e[Of(k)]
    BY ONLY <2>2, DOMAIN q.list = 1 .. n
  <2>4. PICK i : i = Of(k)
    OBVIOUS
  <2>5. i \in 1 .. n /\ e[i - 1] < k /\ k <= e[i]
    BY ONLY <2>3, <2>4
  <2>6. e[i] = e[i - 1] + Len(parts[i]) /\ e[i - 1] \in Nat /\ Len(parts[i]) \in Nat
    BY <2>5, <1>5, <1>7
  <2>7. k - e[i - 1] \in 1 .. Len(parts[i])
    BY ONLY <2>1, <2>5, <2>6
  <2>8. f[k] = parts[Of(k)][k - e[Of(k) - 1]]
    <3>1. ~(k > e[n])
      <4>1. PICK y : y = e[n]
        OBVIOUS
      <4>2. y \in Nat /\ k <= y
        BY <4>1, <1>8, <1>12
      <4>3. ~(k > y)
        BY ONLY <4>2, <2>1
      <4> QED
        BY ONLY <4>1, <4>3, Zenon
    <3> QED
      BY ONLY <3>1, <1>11, k \in 1 .. count, Zenon
  <2> QED
    BY ONLY <2>4, <2>5, <2>7, <2>8
<1>13. ASSUME NEW i \in 1 .. n, NEW a \in 1 .. Len(parts[i])
       PROVE  \E k \in 1 .. e[n] : k = e[i - 1] + a /\ f[k] = parts[i][a]
  <2>1. PICK k : k = e[i - 1] + a
    OBVIOUS
  <2>2. e[i] = e[i - 1] + Len(parts[i]) /\ e[i - 1] \in Nat /\ Len(parts[i]) \in Nat /\ e[i] \in Nat
    BY <1>5, <1>7
  <2>3. e[i] <= e[n]
    BY <1>9
  <2>4. k \in 1 .. e[n] /\ k \in 1 .. count /\ k <= e[n] /\ e[i - 1] < k /\ k <= e[i]
    <3>1. PICK y, z, s, t : y = e[i - 1] /\ z = e[i] /\ s = e[n] /\ t = Len(parts[i])
      OBVIOUS
    <3>2. /\ y \in Nat /\ z \in Nat /\ s \in Nat /\ t \in Nat /\ z = y + t /\ z <= s
          /\ s <= count /\ count \in Nat /\ k = y + a /\ a \in 1 .. t
      BY <3>1, <2>1, <2>2, <2>3, <1>8, <1>6
    <3>3. k \in 1 .. s /\ k \in 1 .. count /\ k <= s /\ y < k /\ k <= z
      BY ONLY <3>2
    <3> QED
      BY ONLY <3>1, <3>3
  <2>5. /\ Of(k) \in 1 .. n /\ e[Of(k) - 1] < k /\ k <= e[Of(k)]
    BY ONLY <2>4, DOMAIN q.list = 1 .. n, i \in 1 .. n
  <2>6. PICK j : j = Of(k)
    OBVIOUS
  <2>7. j \in 1 .. n /\ e[j - 1] < k /\ k <= e[j]
    BY ONLY <2>5, <2>6
  <2>8. j = i
    <3>1. ASSUME j < i PROVE FALSE
      <4>1. j \in 0 .. n /\ i - 1 \in 0 .. n /\ j <= i - 1
        BY <2>7, <3>1
      <4>2. e[j] <= e[i - 1] /\ e[j] \in Nat
        BY <4>1, <1>9, <1>5
      <4> QED
        BY ONLY <4>2, <2>2, <2>4, <2>7, a \in 1 .. Len(parts[i])
    <3>2. ASSUME i < j PROVE FALSE
      <4>1. i \in 0 .. n /\ j - 1 \in 0 .. n /\ i <= j - 1
        BY <2>7, <3>2
      <4>2. e[i] <= e[j - 1] /\ e[j - 1] \in Nat
        BY <4>1, <1>9, <1>5
      <4> QED
        BY ONLY <4>2, <2>2, <2>4, <2>7
    <3> QED
      BY <3>1, <3>2, <2>7
  <2>9. f[k] = parts[Of(k)][k - e[Of(k) - 1]]
    BY <1>12, <2>4
  <2>10. k - e[i - 1] = a
    BY <2>1, <2>2
  <2> QED
    BY ONLY <2>1, <2>4, <2>6, <2>8, <2>9, <2>10
<1> HIDE DEF Of
<1>14. FilledWith(q.list, parts, count, e[n], f)
  <2>1. \A k \in 1 .. count : k > e[n] => f[k] = NotFilled
    BY <1>11
  <2>2. \A k \in 1 .. e[n] : k \in 1 .. count /\ k <= e[n]
    BY <1>8, <1>6
  <2>3. \A k \in 1 .. e[n] : \E i \in DOMAIN q.list : \E a \in 1 .. Len(parts[i]) :
              f[k] = parts[i][a]
    BY <1>12, <2>2
  <2>4. \A i \in DOMAIN q.list : \A a \in 1 .. Len(parts[i]) :
              \E k \in 1 .. e[n] : f[k] = parts[i][a]
    BY <1>13
  <2> QED
    BY ONLY <1>19, <2>1, <2>3, <2>4 DEF FilledWith
<1>15. ASSUME NEW k \in 1 .. e[n], NEW l \in 1 .. e[n], f[k] = f[l] PROVE k = l
  <2>1. k \in 1 .. count /\ k <= e[n] /\ l \in 1 .. count /\ l <= e[n]
    BY <1>8, <1>6
  <2>2. PICK i, a : i = Of(k) /\ a = k - e[i - 1]
    OBVIOUS
  <2>3. PICK j, b : j = Of(l) /\ b = l - e[j - 1]
    OBVIOUS
  <2>4. i \in 1 .. n /\ a \in 1 .. Len(parts[i]) /\ f[k] = parts[i][a]
    BY ONLY <2>1, <2>2, <1>12
  <2>5. j \in 1 .. n /\ b \in 1 .. Len(parts[j]) /\ f[l] = parts[j][b]
    BY ONLY <2>1, <2>3, <1>12
  <2>6. i = j /\ a = b
    <3>1. parts[i][a] = parts[j][b] /\ i \in DOMAIN q.list /\ j \in DOMAIN q.list
      BY ONLY <2>4, <2>5, <1>15, DOMAIN q.list = 1 .. n
    <3>2. \A c \in 1 .. Len(parts[i]), g \in 1 .. Len(parts[j]) :
              parts[i][c] = parts[j][g] => i = j /\ c = g
      BY ONLY <3>1, Differ(q.list, parts) DEF Differ
    <3> QED
      BY ONLY <2>4, <2>5, <3>1, <3>2
  <2>7. e[i - 1] \in Nat
    BY <2>4, <1>7
  <2> QED
    BY ONLY <2>1, <2>2, <2>3, <2>6, <2>7, <1>6
<1>16. \A k, l \in 1 .. e[n] : f[k] = f[l] => k = l
  BY <1>15
<1>17. /\ count \in Nat /\ e[n] <= count
       /\ (\A i \in 1 .. n : Len(parts[i]) = width[i]) => e[n] = count
       /\ FilledWith(q.list, parts, count, e[n], f)
       /\ Distinct(f, e[n])
  BY ONLY <1>6, <1>8, <1>14, <1>16 DEF Distinct
<1>18. PICK m \in Nat : m = e[n]
  BY <1>8
<1> QED
  BY ONLY <1>1, <1>17, <1>18 DEF f, Outcome

(* The lists that a system may find.                                       *)
PosixElements ==
    [name : STRING, number : Nat, up : BOOLEAN, family : {"inet", "packet", "none"}]

WindowsElements ==
    [name : STRING, addresses : Nat, prefixes : Nat, up : BOOLEAN, physical : BOOLEAN]

(* A list that a call may be walking.                                      *)
FineList(list, windows) ==
    IF windows
    THEN /\ list \in Seq(WindowsElements)
         /\ \A i, j \in DOMAIN list : list[i].name = list[j].name => i = j
    ELSE /\ list \in Seq(PosixElements)
         /\ \A i, j \in DOMAIN list :
               list[i].family = "inet" /\ list[j].family = "inet" =>
                   /\ list[i].number # 0
                   /\ list[i].name = list[j].name /\ list[i].number = list[j].number => i = j

(* The block after the second loop; on POSIX systems every entry is filled *)
(* in.                                                                     *)
PosixFill(list, count, entries) ==
    /\ count \in Nat /\ Distinct(entries, count)
    /\ FilledWith(list, PosixParts(list), count, count, entries)

(* On Windows entries stay as they are when prefixes are missing.          *)
WindowsFill(list, count, entries) ==
    \E m \in Nat :
       /\ count \in Nat /\ m <= count /\ Distinct(entries, m)
       /\ FilledWith(list, WindowsParts(list), count, m, entries)
       /\ (\A i \in DOMAIN list : list[i].up => list[i].addresses <= list[i].prefixes) => m = count

(* Before a call has a list it has the empty one.                          *)
LEMMA EmptyFine == \A windows \in BOOLEAN : FineList(<<>>, windows)
  BY EmptySeq DEF FineList

(* The lists that a system may find are fine.                              *)
LEMMA ListsFine ==
    ASSUME NEW windows \in BOOLEAN,
           NEW list \in IF windows THEN WindowsLists ELSE PosixLists
    PROVE  FineList(list, windows)
<1>1. CASE windows
  BY <1>1, InterfacesAssumption DEF FineList, WindowsElements
<1>2. CASE ~windows
  BY <1>2, InterfacesAssumption DEF FineList, PosixElements
<1> QED
  BY <1>1, <1>2

(* FillPosix fills in what CountPosix counted.                             *)
LEMMA PosixFilled ==
    ASSUME NEW q, FineList(q.list, FALSE),
           q.entries = [k \in 1 .. PosixCount(q.list) |-> NotFilled]
    PROVE  PosixFill(q.list, PosixCount(q.list), Filled(q, PosixParts(q.list)))
<1>1. PICK list, n, parts, width :
         /\ list = q.list /\ n = Len(list) /\ parts = PosixParts(list)
         /\ width = [i \in DOMAIN list |-> IF CountsIn(list[i]) THEN 1 ELSE 0]
  OBVIOUS
<1>2. n \in Nat /\ DOMAIN list = 1 .. n
  BY <1>1, LenProperties DEF FineList
<1>3. ASSUME NEW i \in 1 .. n
      PROVE  /\ Taken(list[i]) => /\ parts[i] = <<PosixEntry(list[i])>>
                                  /\ Len(parts[i]) = 1 /\ width[i] = 1
                                  /\ parts[i][1] = PosixEntry(list[i]) /\ list[i].family = "inet"
             /\ ~Taken(list[i]) => Len(parts[i]) = 0 /\ width[i] = 0
  <2>1. CountsIn(list[i]) <=> Taken(list[i])
    BY DEF CountsIn, Taken
  <2>2. width[i] = IF Taken(list[i]) THEN 1 ELSE 0
    BY <1>1, <1>2, <2>1
  <2>3. parts[i] = IF Taken(list[i]) THEN <<PosixEntry(list[i])>> ELSE <<>>
    BY <1>1, <1>2 DEF PosixParts
  <2>4. /\ Len(<<PosixEntry(list[i])>>) = 1 /\ <<PosixEntry(list[i])>>[1] = PosixEntry(list[i])
        /\ Len(<<>>) = 0
    OBVIOUS
  <2>5. Taken(list[i]) => list[i].family = "inet"
    <3>1. list[i] \in PosixElements
      BY <1>1, <1>2, ElementOfSeq DEF FineList
    <3> QED
      BY <3>1 DEF Taken, PosixElements
  <2> QED
    BY ONLY <2>2, <2>3, <2>4, <2>5
<1>4. \A i \in 1 .. n : Len(parts[i]) \in Nat /\ width[i] \in Nat /\ Len(parts[i]) <= width[i]
                        /\ Len(parts[i]) = width[i]
  <2> SUFFICES ASSUME NEW i \in 1 .. n
               PROVE  /\ Len(parts[i]) \in Nat /\ width[i] \in Nat
                      /\ Len(parts[i]) <= width[i] /\ Len(parts[i]) = width[i]
    OBVIOUS
  <2>1. (Len(parts[i]) = 1 /\ width[i] = 1) \/ (Len(parts[i]) = 0 /\ width[i] = 0)
    BY <1>3, Zenon
  <2>2. PICK y, z : y = Len(parts[i]) /\ z = width[i]
    OBVIOUS
  <2>3. (y = 1 /\ z = 1) \/ (y = 0 /\ z = 0)
    BY ONLY <2>1, <2>2, Zenon
  <2>4. y \in Nat /\ z \in Nat /\ y <= z /\ y = z
    BY ONLY <2>3
  <2> QED
    BY ONLY <2>2, <2>4, Zenon
<1>5. Differ(list, parts)
  <2> SUFFICES ASSUME NEW i \in 1 .. n, NEW j \in 1 .. n,
                      NEW a \in 1 .. Len(parts[i]), NEW b \in 1 .. Len(parts[j]),
                      parts[i][a] = parts[j][b]
               PROVE  i = j /\ a = b
    BY <1>2 DEF Differ
  <2>1. Taken(list[i]) /\ a = 1 /\ Taken(list[j]) /\ b = 1
    BY <1>3
  <2>2. PosixEntry(list[i]) = PosixEntry(list[j])
        /\ list[i].family = "inet" /\ list[j].family = "inet"
    BY <1>3, <2>1
  <2>3. list[i].name = list[j].name /\ list[i].number = list[j].number
    BY <2>2 DEF PosixEntry, NotFilled
  <2> QED
    BY <1>1, <1>2, <2>1, <2>2, <2>3 DEF FineList
<1>6. PosixCount(list) = AllOf(list, width)
  BY <1>1 DEF PosixCount
<1>7. Outcome(q, n, parts, width)
  <2>1. /\ n \in Nat /\ Len(q.list) = n /\ DOMAIN q.list = 1 .. n
        /\ \A i \in 1 .. n : Len(parts[i]) \in Nat
        /\ Differ(q.list, parts)
        /\ \A i \in 1 .. n : width[i] \in Nat /\ Len(parts[i]) <= width[i]
        /\ q.entries = [k \in 1 .. AllOf(q.list, width) |-> NotFilled]
    BY <1>1, <1>2, <1>4, <1>5, <1>6
  <2> QED
    BY ONLY <2>1, FilledIs, Zenon
<1>8. /\ AllOf(q.list, width) \in Nat
      /\ FilledWith(q.list, parts, AllOf(q.list, width), AllOf(q.list, width), Filled(q, parts))
      /\ Distinct(Filled(q, parts), AllOf(q.list, width))
  BY <1>4, <1>7, Zenon DEF Outcome
<1> QED
  BY ONLY <1>1, <1>6, <1>8, Zenon DEF PosixFill

(* FillWindows fills in what CountWindows counted, as far as there are     *)
(* prefixes.                                                               *)
LEMMA WindowsFilled ==
    ASSUME NEW q, FineList(q.list, TRUE),
           q.entries = [k \in 1 .. WindowsCount(q.list) |-> NotFilled]
    PROVE  WindowsFill(q.list, WindowsCount(q.list), Filled(q, WindowsParts(q.list)))
<1>1. PICK list, n, parts, width :
         /\ list = q.list /\ n = Len(list) /\ parts = WindowsParts(list)
         /\ width = [i \in DOMAIN list |-> IF Shows(list[i]) THEN list[i].addresses ELSE 0]
  OBVIOUS
<1>2. n \in Nat /\ DOMAIN list = 1 .. n
  BY <1>1, LenProperties DEF FineList
<1>3. ASSUME NEW i \in 1 .. n
      PROVE  /\ Len(parts[i]) = Walked(list[i])
             /\ parts[i] = [m \in 1 .. Walked(list[i]) |-> WindowsEntry(list[i], m)]
             /\ width[i] = IF Shows(list[i]) THEN list[i].addresses ELSE 0
             /\ Walked(list[i]) \in Nat /\ width[i] \in Nat /\ Walked(list[i]) <= width[i]
             /\ (list[i].up => list[i].addresses <= list[i].prefixes)
                => Walked(list[i]) = width[i]
  <2>1. list[i].addresses \in Nat /\ list[i].prefixes \in Nat
    <3>1. list[i] \in WindowsElements
      BY <1>1, <1>2, ElementOfSeq DEF FineList
    <3> QED
      BY <3>1 DEF WindowsElements
  <2>2. width[i] = IF Shows(list[i]) THEN list[i].addresses ELSE 0
    BY <1>1, <1>2
  <2>3. parts[i] = [m \in 1 .. Walked(list[i]) |-> WindowsEntry(list[i], m)]
    BY <1>1, <1>2 DEF WindowsParts
  <2>4. Walked(list[i]) \in Nat
    BY <2>1 DEF Walked
  <2>5. Len(parts[i]) = Walked(list[i])
    <3>1. PICK f, z : f = parts[i] /\ z = Walked(list[i])
      OBVIOUS
    <3>2. f \in [1 .. z -> {WindowsEntry(list[i], m) : m \in 1 .. z}] /\ z \in Nat
      BY ONLY <3>1, <2>3, <2>4
    <3>3. Len(f) = z
      BY ONLY <3>2, FunctionIsSeq
    <3> QED
      BY <3>1, <3>3
  <2>6. /\ width[i] \in Nat /\ Walked(list[i]) <= width[i]
        /\ (list[i].up => list[i].addresses <= list[i].prefixes) => Walked(list[i]) = width[i]
    BY <2>1, <2>2 DEF Walked, Shows
  <2> QED
    BY ONLY <2>2, <2>3, <2>4, <2>5, <2>6
<1>4. \A i \in 1 .. n : Len(parts[i]) \in Nat /\ width[i] \in Nat /\ Len(parts[i]) <= width[i]
  BY <1>3
<1>5. Differ(list, parts)
  <2> SUFFICES ASSUME NEW i \in 1 .. n, NEW j \in 1 .. n,
                      NEW a \in 1 .. Len(parts[i]), NEW b \in 1 .. Len(parts[j]),
                      parts[i][a] = parts[j][b]
               PROVE  i = j /\ a = b
    BY <1>2 DEF Differ
  <2>1. a \in 1 .. Walked(list[i]) /\ b \in 1 .. Walked(list[j])
    BY <1>3
  <2>2. WindowsEntry(list[i], a) = WindowsEntry(list[j], b)
    <3>1. parts[i] = [m \in 1 .. Walked(list[i]) |-> WindowsEntry(list[i], m)]
      BY <1>3
    <3>2. parts[j] = [m \in 1 .. Walked(list[j]) |-> WindowsEntry(list[j], m)]
      BY <1>3
    <3>3. parts[i][a] = WindowsEntry(list[i], a)
      BY ONLY <3>1, <2>1
    <3>4. parts[j][b] = WindowsEntry(list[j], b)
      BY ONLY <3>2, <2>1
    <3> QED
      BY <3>3, <3>4
  <2>3. list[i].name = list[j].name /\ a = b
    BY <2>2 DEF WindowsEntry
  <2> QED
    BY <1>1, <1>2, <2>3 DEF FineList
<1>6. WindowsCount(list) = AllOf(list, width)
  BY <1>1 DEF WindowsCount
<1>7. Outcome(q, n, parts, width)
  <2>1. /\ n \in Nat /\ Len(q.list) = n /\ DOMAIN q.list = 1 .. n
        /\ \A i \in 1 .. n : Len(parts[i]) \in Nat
        /\ Differ(q.list, parts)
        /\ \A i \in 1 .. n : width[i] \in Nat /\ Len(parts[i]) <= width[i]
        /\ q.entries = [k \in 1 .. AllOf(q.list, width) |-> NotFilled]
    BY <1>1, <1>2, <1>4, <1>5, <1>6
  <2> QED
    BY ONLY <2>1, FilledIs, Zenon
<1>8. (\A i \in DOMAIN list : list[i].up => list[i].addresses <= list[i].prefixes)
      => \A i \in 1 .. n : Len(parts[i]) = width[i]
  BY <1>2, <1>3
<1>9. \E m \in Nat :
         /\ AllOf(q.list, width) \in Nat /\ m <= AllOf(q.list, width)
         /\ Distinct(Filled(q, parts), m)
         /\ FilledWith(q.list, parts, AllOf(q.list, width), m, Filled(q, parts))
         /\ (\A i \in DOMAIN list : list[i].up => list[i].addresses <= list[i].prefixes)
            => m = AllOf(q.list, width)
  BY ONLY <1>7, <1>8, Zenon DEF Outcome
<1> QED
  BY ONLY <1>1, <1>6, <1>9, Zenon DEF WindowsFill

(* A call, and what is known of it.                                        *)
Query(s, o, l, c, e, m, z) ==
    [step |-> s, room |-> o, list |-> l, count |-> c, entries |-> e, memory |-> m, result |-> z]

IsQuery(q) == q = Query(q.step, q.room, q.list, q.count, q.entries, q.memory, q.result)

(* A new block, the finished one of a POSIX system, and what a call knows  *)
(* at each of its steps.                                                   *)
Unset(count, entries) == entries = [k \in 1 .. count |-> NotFilled]

PosixDone(list, count, entries) ==
    \E before : PosixFill(list, count, before) /\ entries = WithPhysical(before, list)

IdleSound(q, windows) ==
    /\ q.list = <<>> /\ q.count = 0 /\ q.entries = <<>>
    /\ q.memory = {} \/ (windows /\ q.memory = {"list"})
    /\ q.room > 0 => q.memory = {"list"}

FillSound(q, windows) ==
    /\ q.memory = {"list", "result"}
    /\ q.count = IF windows THEN WindowsCount(q.list) ELSE PosixCount(q.list)
    /\ Unset(q.count, q.entries)

PhysicalSound(q, windows) ==
    /\ ~windows /\ q.memory = {"list", "result"}
    /\ PosixFill(q.list, q.count, q.entries)

ReportSound(q, windows) ==
    /\ q.memory = {"result"}
    /\ IF windows THEN WindowsFill(q.list, q.count, q.entries)
                  ELSE PosixDone(q.list, q.count, q.entries)

QuerySound(q, windows) ==
    /\ IsQuery(q) /\ q.room \in Nat /\ FineList(q.list, windows)
    /\ \/ q.step = "idle" /\ IdleSound(q, windows)
       \/ q.step = "count" /\ q.memory = {"list"}
       \/ q.step = "fill" /\ FillSound(q, windows)
       \/ q.step = "physical" /\ PhysicalSound(q, windows)
       \/ q.step = "over" /\ q.result = 0 /\ ReportSound(q, windows)
       \/ q.step = "over" /\ q.result = -1 /\ q.memory \subseteq IF windows THEN {} ELSE {"list"}

(* The inductive invariant.                                                *)
InterfacesInv ==
    /\ onWindows \in BOOLEAN
    /\ interfaces \in IF onWindows THEN WindowsLists ELSE PosixLists
    /\ QuerySound(query, onWindows)

(* The fields of a call.                                                   *)
LEMMA QueryIs ==
    ASSUME NEW q, NEW s, NEW o, NEW l, NEW c, NEW e, NEW m, NEW z, q = Query(s, o, l, c, e, m, z)
    PROVE  /\ q.step = s /\ q.room = o /\ q.list = l /\ q.count = c /\ q.entries = e
           /\ q.memory = m /\ q.result = z /\ IsQuery(q)
<1>1. /\ q.step = s /\ q.room = o /\ q.list = l /\ q.count = c /\ q.entries = e
      /\ q.memory = m /\ q.result = z
  BY DEF Query
<1>2. IsQuery(q)
  BY ONLY <1>1, q = Query(s, o, l, c, e, m, z) DEF IsQuery
<1> QED
  BY <1>1, <1>2

(* What a call knows at a step.                                            *)
LEMMA SoundAt ==
    ASSUME NEW q, NEW windows, QuerySound(q, windows)
    PROVE  /\ IsQuery(q) /\ q.room \in Nat /\ FineList(q.list, windows)
           /\ q.step = "idle" => IdleSound(q, windows)
           /\ q.step = "count" => q.memory = {"list"}
           /\ q.step = "fill" => FillSound(q, windows)
           /\ q.step = "physical" => PhysicalSound(q, windows)
           /\ q.step = "over" =>
                 \/ q.result = 0 /\ ReportSound(q, windows)
                 \/ q.result = -1 /\ q.memory \subseteq IF windows THEN {} ELSE {"list"}
  BY DEF QuerySound

(* Without interfaces the empty block is the right one.                    *)
LEMMA NothingFound == WindowsFill(<<>>, 0, <<>>)
<1>1. FilledWith(<<>>, WindowsParts(<<>>), 0, 0, <<>>)
  BY DEF FilledWith
<1>2. Distinct(<<>>, 0)
  BY DEF Distinct
<1> QED
  BY <1>1, <1>2 DEF WindowsFill

(* The first state keeps the invariant.                                    *)
LEMMA InterfacesStart == InterfacesInit => InterfacesInv
<1> SUFFICES ASSUME InterfacesInit PROVE InterfacesInv
  OBVIOUS
<1>1. /\ onWindows \in BOOLEAN /\ query = NoQuery
      /\ interfaces \in IF onWindows THEN WindowsLists ELSE PosixLists
  BY DEF InterfacesInit
<1>2. query = Query("idle", 0, <<>>, 0, <<>>, {}, -1)
  BY <1>1 DEF NoQuery, Query
<1>3. /\ query.step = "idle" /\ query.room = 0 /\ query.list = <<>> /\ query.count = 0
      /\ query.entries = <<>> /\ query.memory = {} /\ IsQuery(query)
  BY ONLY <1>2, QueryIs
<1>4. IdleSound(query, onWindows)
  BY ONLY <1>3 DEF IdleSound
<1>5. QuerySound(query, onWindows)
  BY <1>1, <1>3, <1>4, EmptyFine DEF QuerySound
<1> QED
  BY ONLY <1>1, <1>5 DEF InterfacesInv

(* A call that fails has given its memory back, but for the list of POSIX. *)
LEMMA FailsSoundly ==
    ASSUME NEW windows, NEW q, IsQuery(q), q.room \in Nat, FineList(q.list, windows),
           q.memory \subseteq IF windows THEN {} ELSE {"list"}
    PROVE  QuerySound([q EXCEPT !.step = "over", !.result = -1], windows)
<1>0. PICK r : r = [q EXCEPT !.step = "over", !.result = -1]
  OBVIOUS
<1>1. PICK s, o, l, c, e, m, z : q = Query(s, o, l, c, e, m, z)
  BY DEF IsQuery
<1>2. r = Query("over", o, l, c, e, m, -1)
  BY ONLY <1>0, <1>1 DEF Query
<1>3. /\ r.step = "over" /\ r.room = o /\ r.list = l /\ r.memory = m /\ r.result = -1
      /\ IsQuery(r)
  BY ONLY <1>2, QueryIs
<1>4. q.room = o /\ q.list = l /\ q.memory = m
  BY ONLY <1>1, QueryIs
<1>5. QuerySound(r, windows)
  BY <1>3, <1>4 DEF QuerySound
<1> QED
  BY <1>0, <1>5

(* The first loop and the new block, on both systems.                      *)
LEMMA CountsSoundly ==
    ASSUME NEW windows, NEW q, QuerySound(q, windows), q.step = "count",
           NEW n, n = IF windows THEN WindowsCount(q.list) ELSE PosixCount(q.list)
    PROVE  QuerySound(NewBlock(q, n), windows)
<1>1. IsQuery(q) /\ q.room \in Nat /\ FineList(q.list, windows) /\ q.memory = {"list"}
  BY ONLY QuerySound(q, windows), q.step = "count", SoundAt
<1>2. PICK s, o, l, c, e, m, z : q = Query(s, o, l, c, e, m, z)
  BY <1>1 DEF IsQuery
<1>3. q.room = o /\ q.list = l /\ q.memory = m
  BY ONLY <1>2, QueryIs
<1>4. PICK f : f = [k \in 1 .. n |-> NotFilled]
  OBVIOUS
<1>0. PICK r : r = NewBlock(q, n)
  OBVIOUS
<1>5. r = Query("fill", o, l, n, f, m \cup {"result"}, z)
  BY ONLY <1>0, <1>2, <1>4 DEF Query, NewBlock
<1>6. /\ r.step = "fill" /\ r.room = o /\ r.list = l /\ r.count = n /\ r.entries = f
      /\ r.memory = m \cup {"result"} /\ IsQuery(r)
  BY ONLY <1>5, QueryIs
<1>7. FillSound(r, windows)
  <2>1. Unset(n, f)
    BY ONLY <1>4 DEF Unset
  <2>2. r.memory = {"list", "result"}
    BY ONLY <1>1, <1>3, <1>6
  <2>3. r.count = IF windows THEN WindowsCount(r.list) ELSE PosixCount(r.list)
    BY <1>3, <1>6
  <2> QED
    BY ONLY <2>1, <2>2, <2>3, <1>6 DEF FillSound
<1>8. QuerySound(r, windows)
  BY <1>1, <1>3, <1>6, <1>7 DEF QuerySound
<1> QED
  BY <1>0, <1>8

(* Every step keeps the invariant: each loop by the lemma about it, the    *)
(* last ones with the memory they free.                                    *)
LEMMA InterfacesStep == InterfacesInv /\ [InterfacesNext]_interfacesVars => InterfacesInv'
<1> SUFFICES ASSUME InterfacesInv, [InterfacesNext]_interfacesVars PROVE InterfacesInv'
  OBVIOUS
<1>1. /\ onWindows \in BOOLEAN
      /\ interfaces \in IF onWindows THEN WindowsLists ELSE PosixLists
      /\ QuerySound(query, onWindows)
  BY DEF InterfacesInv
<1>2. CASE UNCHANGED interfacesVars
  BY <1>2 DEF interfacesVars, InterfacesInv
<1>3. CASE Change
  BY <1>1, <1>3 DEF Change, InterfacesInv
<1>4. ASSUME NEW r, Continue(r), QuerySound(r, onWindows) PROVE InterfacesInv'
  BY <1>1, <1>4 DEF Continue, InterfacesInv
<1>5. FineList(interfaces, onWindows)
  BY <1>1, ListsFine
<1>6. PICK s, o, l, c, e, m, z : query = Query(s, o, l, c, e, m, z)
  BY <1>1, SoundAt DEF IsQuery
<1>7. /\ query.step = s /\ query.room = o /\ query.list = l /\ query.count = c
      /\ query.entries = e /\ query.memory = m /\ query.result = z /\ IsQuery(query)
  BY ONLY <1>6, QueryIs
<1>8. o \in Nat /\ FineList(l, onWindows)
  BY <1>1, <1>7, SoundAt
<1>9. ASSUME onWindows, GiveUp([query EXCEPT !.memory = {}]) PROVE InterfacesInv'
  <2>0. PICK q : q = [query EXCEPT !.memory = {}]
    OBVIOUS
  <2>1. q = Query(s, o, l, c, e, {}, z)
    BY ONLY <2>0, <1>6 DEF Query
  <2>2. IsQuery(q) /\ q.room = o /\ q.list = l /\ q.memory = {}
    BY ONLY <2>1, QueryIs
  <2>3. QuerySound([q EXCEPT !.step = "over", !.result = -1], onWindows)
    <3>1. /\ IsQuery(q) /\ q.room \in Nat /\ FineList(q.list, onWindows)
          /\ q.memory \subseteq IF onWindows THEN {} ELSE {"list"}
      BY <2>2, <1>8
    <3> QED
      BY ONLY <3>1, FailsSoundly
  <2>4. Continue([q EXCEPT !.step = "over", !.result = -1])
    BY <2>0, <1>9 DEF GiveUp
  <2> QED
    BY <1>4, <2>3, <2>4
<1>10. CASE Getifaddrs
  <2>1. query.step = "idle" /\ ~onWindows
    BY <1>10 DEF Getifaddrs
  <2>2. query.memory = {}
    <3>1. IdleSound(query, onWindows)
      BY ONLY <1>1, <2>1, SoundAt
    <3> QED
      BY ONLY <2>1, <3>1 DEF IdleSound
  <2>3. CASE Continue([query EXCEPT !.step = "count", !.list = interfaces, !.memory = {"list"}])
    <3>0. PICK r : r = [query EXCEPT !.step = "count", !.list = interfaces, !.memory = {"list"}]
      OBVIOUS
    <3>1. r = Query("count", o, interfaces, c, e, {"list"}, z)
      BY ONLY <3>0, <1>6 DEF Query
    <3>2. Continue(r)
      BY <3>0, <2>3
    <3>3. r.step = "count" /\ r.room = o /\ r.list = interfaces /\ r.memory = {"list"} /\ IsQuery(r)
      BY ONLY <3>1, QueryIs
    <3>4. QuerySound(r, onWindows)
      BY ONLY <1>5, <1>8, <3>3 DEF QuerySound
    <3> QED
      BY <1>4, <3>2, <3>4
  <2>4. CASE GiveUp(query)
    <3>1. /\ IsQuery(query) /\ query.room \in Nat /\ FineList(query.list, onWindows)
          /\ query.memory \subseteq IF onWindows THEN {} ELSE {"list"}
      BY <1>7, <1>8, <2>2
    <3>2. QuerySound([query EXCEPT !.step = "over", !.result = -1], onWindows)
      BY ONLY <3>1, FailsSoundly
    <3> QED
      BY <1>4, <2>4, <3>2 DEF GiveUp
  <2> QED
    BY <1>10, <2>3, <2>4 DEF Getifaddrs
<1>11. CASE CountPosix
  <2>1. query.step = "count" /\ ~onWindows
    BY <1>11 DEF CountPosix
  <2>2. query.memory = {"list"}
    BY ONLY <1>1, <2>1, SoundAt
  <2>3. CASE Continue(NewBlock(query, PosixCount(query.list)))
    <3>1. PICK n : n = PosixCount(query.list)
      OBVIOUS
    <3>2. n = IF onWindows THEN WindowsCount(query.list) ELSE PosixCount(query.list)
      BY <2>1, <3>1
    <3>3. QuerySound(NewBlock(query, n), onWindows)
      BY ONLY <1>1, <2>1, <3>2, CountsSoundly
    <3> QED
      BY <1>4, <2>3, <3>1, <3>3
  <2>4. CASE GiveUp([query EXCEPT !.count = PosixCount(query.list)])
    <3>0. PICK q : q = [query EXCEPT !.count = PosixCount(query.list)]
      OBVIOUS
    <3>1. PICK n : n = PosixCount(query.list)
      OBVIOUS
    <3>2. q = Query(s, o, l, n, e, m, z)
      BY ONLY <3>0, <1>6, <3>1 DEF Query
    <3>3. IsQuery(q) /\ q.room = o /\ q.list = l /\ q.memory = m
      BY ONLY <3>2, QueryIs
    <3>4. /\ IsQuery(q) /\ q.room \in Nat /\ FineList(q.list, onWindows)
          /\ q.memory \subseteq IF onWindows THEN {} ELSE {"list"}
      BY <3>3, <1>7, <1>8, <2>1, <2>2
    <3>5. QuerySound([q EXCEPT !.step = "over", !.result = -1], onWindows)
      BY ONLY <3>4, FailsSoundly
    <3>6. Continue([q EXCEPT !.step = "over", !.result = -1])
      BY <3>0, <2>4 DEF GiveUp
    <3> QED
      BY <1>4, <3>5, <3>6
  <2> QED
    BY <1>11, <2>3, <2>4 DEF CountPosix
<1>12. CASE FillPosix
  <2>0. PICK r : r = [query EXCEPT !.step = "physical",
                      !.entries = Filled(query, PosixParts(query.list))]
    OBVIOUS
  <2>1. query.step = "fill" /\ ~onWindows /\ Continue(r)
    BY <2>0, <1>12 DEF FillPosix
  <2>2. FillSound(query, onWindows)
    BY ONLY <1>1, <2>1, SoundAt
  <2>3. FineList(query.list, FALSE) /\ query.count = PosixCount(query.list)
        /\ query.entries = [k \in 1 .. PosixCount(query.list) |-> NotFilled]
    <3>1. (onWindows <=> FALSE) /\ onWindows = FALSE
      BY <1>1, <2>1
    <3> QED
      BY <1>7, <1>8, <2>1, <2>2, <3>1 DEF FillSound, Unset
  <2>4. PICK f : f = Filled(query, PosixParts(query.list))
    OBVIOUS
  <2>5. PosixFill(query.list, query.count, f)
    BY ONLY <2>3, <2>4, PosixFilled
  <2>6. r = Query("physical", o, l, c, f, m, z)
    BY ONLY <2>0, <1>6, <2>4 DEF Query
  <2>7. /\ r.step = "physical" /\ r.room = o /\ r.list = l /\ r.count = c /\ r.entries = f
        /\ r.memory = m /\ IsQuery(r)
    BY ONLY <2>6, QueryIs
  <2>8. PhysicalSound(r, onWindows)
    BY <1>7, <2>1, <2>2, <2>5, <2>7 DEF PhysicalSound, FillSound
  <2>9. QuerySound(r, onWindows)
    BY ONLY <1>8, <2>7, <2>8 DEF QuerySound
  <2> QED
    BY <1>4, <2>1, <2>9
<1>13. CASE Physical
  <2>0. PICK r : r = [query EXCEPT !.step = "over", !.result = 0, !.memory = @ \ {"list"},
                      !.entries = WithPhysical(@, query.list)]
    OBVIOUS
  <2>1. query.step = "physical" /\ Continue(r)
    BY <2>0, <1>13 DEF Physical
  <2>2. PhysicalSound(query, onWindows)
    BY ONLY <1>1, <2>1, SoundAt
  <2>3. PICK f : f = WithPhysical(e, l)
    OBVIOUS
  <2>4. r = Query("over", o, l, c, f, m \ {"list"}, 0)
    BY ONLY <2>0, <1>6, <2>3 DEF Query
  <2>5. /\ r.step = "over" /\ r.room = o /\ r.list = l /\ r.count = c /\ r.entries = f
        /\ r.memory = m \ {"list"} /\ r.result = 0 /\ IsQuery(r)
    BY ONLY <2>4, QueryIs
  <2>6. ~onWindows /\ m = {"list", "result"} /\ PosixFill(l, c, e)
    BY ONLY <1>7, <2>2 DEF PhysicalSound
  <2>7. PosixDone(l, c, f)
    BY ONLY <2>3, <2>6 DEF PosixDone
  <2>8. ReportSound(r, onWindows)
    BY ONLY <2>5, <2>6, <2>7 DEF ReportSound
  <2>9. QuerySound(r, onWindows)
    BY ONLY <1>8, <2>5, <2>8 DEF QuerySound
  <2> QED
    BY <1>4, <2>1, <2>9
<1>14. CASE GetAdapters
  <2>1. query.step = "idle" /\ onWindows
    BY <1>14 DEF GetAdapters
  <2>2. Len(interfaces) \in Nat /\ (interfaces # <<>> => Len(interfaces) > 0)
    BY <1>5, <2>1, LenProperties, EmptySeq DEF FineList
  <2>3. IdleSound(query, onWindows)
    BY ONLY <1>1, <2>1, SoundAt
  <2>4. l = <<>> /\ c = 0 /\ e = <<>> /\ (o > 0 => m = {"list"})
    BY ONLY <1>7, <2>3 DEF IdleSound
  <2>5. CASE interfaces # <<>> /\ query.room >= Len(interfaces)
             /\ Continue([query EXCEPT !.step = "count", !.list = interfaces])
    <3>0. PICK r : r = [query EXCEPT !.step = "count", !.list = interfaces]
      OBVIOUS
    <3>1. r = Query("count", o, interfaces, c, e, m, z)
      BY ONLY <3>0, <1>6 DEF Query
    <3>2. Continue(r)
      BY <3>0, <2>5
    <3>3. m = {"list"}
      BY <1>7, <1>8, <2>2, <2>4, <2>5
    <3>4. r.step = "count" /\ r.room = o /\ r.list = interfaces /\ r.memory = m /\ IsQuery(r)
      BY ONLY <3>1, QueryIs
    <3>5. QuerySound(r, onWindows)
      BY ONLY <1>5, <1>8, <3>3, <3>4 DEF QuerySound
    <3> QED
      BY <1>4, <3>2, <3>5
  <2>6. CASE query.room < Len(interfaces)
             /\ Continue([query EXCEPT !.room = Len(interfaces), !.memory = {"list"}])
    <3>0. PICK r : r = [query EXCEPT !.room = Len(interfaces), !.memory = {"list"}]
      OBVIOUS
    <3>1. PICK n \in Nat : n = Len(interfaces)
      BY <2>2
    <3>2. r = Query(s, n, l, c, e, {"list"}, z)
      BY ONLY <3>0, <1>6, <3>1 DEF Query
    <3>3. Continue(r)
      BY <3>0, <2>6
    <3>4. /\ r.step = s /\ r.room = n /\ r.list = l /\ r.count = c /\ r.entries = e
          /\ r.memory = {"list"} /\ IsQuery(r)
      BY ONLY <3>2, QueryIs
    <3>5. IdleSound(r, onWindows)
      BY ONLY <2>1, <2>4, <3>4 DEF IdleSound
    <3>6. s = "idle"
      BY ONLY <1>7, <2>1
    <3>7. QuerySound(r, onWindows)
      BY ONLY <1>8, <3>1, <3>4, <3>5, <3>6 DEF QuerySound
    <3> QED
      BY <1>4, <3>3, <3>7
  <2>7. CASE interfaces = <<>>
             /\ Continue([query EXCEPT !.step = "over", !.result = 0, !.memory = {"result"}])
    <3>0. PICK r : r = [query EXCEPT !.step = "over", !.result = 0, !.memory = {"result"}]
      OBVIOUS
    <3>1. r = Query("over", o, l, c, e, {"result"}, 0)
      BY ONLY <3>0, <1>6 DEF Query
    <3>2. Continue(r)
      BY <3>0, <2>7
    <3>3. /\ r.step = "over" /\ r.room = o /\ r.list = l /\ r.count = c /\ r.entries = e
          /\ r.memory = {"result"} /\ r.result = 0 /\ IsQuery(r)
      BY ONLY <3>1, QueryIs
    <3>4. WindowsFill(l, c, e)
      BY ONLY <2>4, NothingFound
    <3>5. ReportSound(r, onWindows)
      BY ONLY <2>1, <3>3, <3>4 DEF ReportSound
    <3>6. QuerySound(r, onWindows)
      BY ONLY <1>8, <3>3, <3>5 DEF QuerySound
    <3> QED
      BY <1>4, <3>2, <3>6
  <2>8. CASE GiveUp([query EXCEPT !.memory = {}])
    BY <1>9, <2>1, <2>8
  <2> QED
    BY <1>14, <2>5, <2>6, <2>7, <2>8 DEF GetAdapters
<1>15. CASE CountWindows
  <2>1. query.step = "count" /\ onWindows
    BY <1>15 DEF CountWindows
  <2>2. CASE Continue(NewBlock(query, WindowsCount(query.list)))
    <3>1. PICK n : n = WindowsCount(query.list)
      OBVIOUS
    <3>2. n = IF onWindows THEN WindowsCount(query.list) ELSE PosixCount(query.list)
      BY <2>1, <3>1
    <3>3. QuerySound(NewBlock(query, n), onWindows)
      BY ONLY <1>1, <2>1, <3>2, CountsSoundly
    <3> QED
      BY <1>4, <2>2, <3>1, <3>3
  <2> QED
    BY <1>9, <1>15, <2>1, <2>2 DEF CountWindows
<1>16. CASE FillWindows
  <2>0. PICK r : r = [query EXCEPT !.step = "over", !.result = 0, !.memory = {"result"},
                      !.entries = Filled(query, WindowsParts(query.list))]
    OBVIOUS
  <2>1. query.step = "fill" /\ onWindows
    BY <1>16 DEF FillWindows
  <2>2. FillSound(query, onWindows)
    BY ONLY <1>1, <2>1, SoundAt
  <2>3. FineList(query.list, TRUE) /\ query.count = WindowsCount(query.list)
        /\ query.entries = [k \in 1 .. WindowsCount(query.list) |-> NotFilled]
    <3>1. onWindows = TRUE
      BY <1>1, <2>1
    <3> QED
      BY <1>7, <1>8, <2>1, <2>2, <3>1 DEF FillSound, Unset
  <2>4. PICK f : f = Filled(query, WindowsParts(query.list))
    OBVIOUS
  <2>5. WindowsFill(query.list, query.count, f)
    BY ONLY <2>3, <2>4, WindowsFilled
  <2>6. Continue(r) \/ GiveUp([query EXCEPT !.memory = {}])
    BY <2>0, <1>16 DEF FillWindows
  <2>7. r = Query("over", o, l, c, f, {"result"}, 0)
    BY ONLY <2>0, <1>6, <2>4 DEF Query
  <2>8. /\ r.step = "over" /\ r.room = o /\ r.list = l /\ r.count = c /\ r.entries = f
        /\ r.memory = {"result"} /\ r.result = 0 /\ IsQuery(r)
    BY ONLY <2>7, QueryIs
  <2>9. ReportSound(r, onWindows)
    BY ONLY <1>7, <2>1, <2>5, <2>8 DEF ReportSound
  <2>10. QuerySound(r, onWindows)
    BY ONLY <1>8, <2>8, <2>9 DEF QuerySound
  <2> QED
    BY <1>4, <1>9, <2>1, <2>6, <2>10
<1>17. CASE FreeAddresses
  <2>0. PICK r : r = NoQuery
    OBVIOUS
  <2>1. r = Query("idle", 0, <<>>, 0, <<>>, {}, -1)
    BY ONLY <2>0 DEF NoQuery, Query
  <2>2. Continue(r)
    BY <2>0, <1>17 DEF FreeAddresses
  <2>3. /\ r.step = "idle" /\ r.room = 0 /\ r.list = <<>> /\ r.count = 0
        /\ r.entries = <<>> /\ r.memory = {} /\ IsQuery(r)
    BY ONLY <2>1, QueryIs
  <2>4. IdleSound(r, onWindows)
    BY ONLY <2>3 DEF IdleSound
  <2>5. QuerySound(r, onWindows)
    BY <1>1, <2>3, <2>4, EmptyFine DEF QuerySound
  <2> QED
    BY <1>4, <2>2, <2>5
<1> QED
  BY <1>2, <1>3, <1>10, <1>11, <1>12, <1>13, <1>14, <1>15, <1>16, <1>17 DEF InterfacesNext

(* Of m different entries the reports agree with what was expected in each *)
(* entry and in number.                                                    *)
Reports(entries, filled, count, expected) ==
    /\ Len(entries) = count
    /\ {entries[i] : i \in filled} = expected
    /\ Cardinality(filled) = Cardinality(expected)

(* Of a block whose first m entries differ and are those expected.         *)
LEMMA ReportIs ==
    ASSUME NEW count \in Nat, NEW m \in Nat, m <= count, NEW entries, NEW expected,
           entries = [k \in 1 .. count |-> entries[k]],
           \A k \in 1 .. count : k > m => entries[k] = NotFilled,
           \A k \in 1 .. m : entries[k] # NotFilled /\ entries[k] \in expected,
           \A x \in expected : \E k \in 1 .. m : entries[k] = x,
           Distinct(entries, m),
           NEW filled, filled = {i \in DOMAIN entries : entries[i] # NotFilled}
    PROVE  Reports(entries, filled, count, expected) /\ (m = count => filled = DOMAIN entries)
<1>1. DOMAIN entries = 1 .. count
  OBVIOUS
<1>2. Len(entries) = count
  <2>1. entries \in [1 .. count -> {entries[k] : k \in 1 .. count}]
    OBVIOUS
  <2> QED
    BY ONLY <2>1, count \in Nat, FunctionIsSeq
<1>3. filled = 1 .. m
  <2>1. ASSUME NEW k \in filled PROVE k \in 1 .. m
    <3>1. k \in 1 .. count /\ entries[k] # NotFilled
      BY <1>1
    <3>2. ~(k > m)
      BY <3>1
    <3> QED
      BY ONLY <3>1, <3>2, count \in Nat, m \in Nat
  <2>2. ASSUME NEW k \in 1 .. m PROVE k \in filled
    <3>1. k \in 1 .. count
      OBVIOUS
    <3> QED
      BY <1>1, <3>1
  <2> QED
    BY <2>1, <2>2
<1>4. {entries[i] : i \in filled} = expected
  <2>1. \A i \in filled : entries[i] \in expected
    BY ONLY <1>3, \A k \in 1 .. m : entries[k] # NotFilled /\ entries[k] \in expected
  <2>2. \A x \in expected : \E i \in filled : entries[i] = x
    BY ONLY <1>3, \A x \in expected : \E k \in 1 .. m : entries[k] = x
  <2> QED
    BY ONLY <2>1, <2>2
<1>5. Cardinality(filled) = Cardinality(expected)
  <2>1. PICK f : f = [k \in 1 .. m |-> entries[k]]
    OBVIOUS
  <2>2. f \in [1 .. m -> expected]
    BY <2>1
  <2>3. \A k, l \in 1 .. m : f[k] = f[l] => k = l
    BY <2>1 DEF Distinct
  <2>4. \A x \in expected : \E k \in 1 .. m : f[k] = x
    BY <2>1
  <2>5. f \in Bijection(1 .. m, expected)
    BY ONLY <2>2, <2>3, <2>4 DEF Bijection, Injection, Surjection, IsInjective
  <2>6. ExistsBijection(1 .. m, expected)
    BY ONLY <2>5 DEF ExistsBijection
  <2>7. Cardinality(expected) = m
    BY ONLY <2>6, m \in Nat, FS_CountingElements
  <2>8. Cardinality(1 .. m) = m
    <3>1. 1 \in Int /\ m \in Int /\ (1 > m => m = 0) /\ m - 1 + 1 = m
      OBVIOUS
    <3>2. Cardinality(1 .. m) = IF 1 > m THEN 0 ELSE m - 1 + 1
      BY ONLY <3>1, FS_Interval
    <3> QED
      BY ONLY <3>1, <3>2
  <2> QED
    BY <1>3, <2>7, <2>8
<1>6. m = count => filled = DOMAIN entries
  BY <1>1, <1>3
<1> QED
  BY ONLY <1>2, <1>4, <1>5, <1>6, Zenon DEF Reports

(* A report that is sound is the right one.                                *)
Right(q) ==
    LET filled == {i \in DOMAIN q.entries : q.entries[i] # NotFilled}
    IN  /\ Reports(q.entries, filled, q.count, Expected(q.list))
        /\ (onWindows => \A a \in UpIn(q.list) : a.addresses <= a.prefixes)
           => filled = DOMAIN q.entries

(* On Windows the entries that are filled in are those of the adapters     *)
(* that are up, as far as they have prefixes.                              *)
LEMMA WindowsRight ==
    ASSUME NEW q, onWindows, FineList(q.list, TRUE), WindowsFill(q.list, q.count, q.entries)
    PROVE  Right(q)
<1>1. PICK list, entries, count, parts, filled, expected :
         /\ list = q.list /\ entries = q.entries /\ count = q.count
         /\ parts = WindowsParts(list) /\ expected = Expected(list)
         /\ filled = {i \in DOMAIN entries : entries[i] # NotFilled}
  OBVIOUS
<1>2. PICK m \in Nat :
         /\ count \in Nat /\ m <= count /\ Distinct(entries, m)
         /\ FilledWith(list, parts, count, m, entries)
         /\ (\A i \in DOMAIN list : list[i].up => list[i].addresses <= list[i].prefixes)
            => m = count
  BY <1>1 DEF WindowsFill
<1>3. ASSUME NEW i \in DOMAIN list
      PROVE  /\ list[i].addresses \in Nat /\ list[i].prefixes \in Nat
             /\ Len(parts[i]) = Walked(list[i]) /\ Walked(list[i]) \in Nat
             /\ \A a \in 1 .. Walked(list[i]) : parts[i][a] = WindowsEntry(list[i], a)
  <2>1. list[i].addresses \in Nat /\ list[i].prefixes \in Nat
    <3>1. list \in Seq(WindowsElements)
      BY <1>1 DEF FineList
    <3>2. list[i] \in WindowsElements
      BY ONLY <3>1, ElementOfSeq, LenProperties, i \in DOMAIN list
    <3> QED
      BY <3>2 DEF WindowsElements
  <2>2. Walked(list[i]) \in Nat
    BY <2>1 DEF Walked
  <2>3. PICK f, z : f = parts[i] /\ z = Walked(list[i])
    OBVIOUS
  <2>4. f = [a \in 1 .. z |-> WindowsEntry(list[i], a)]
    BY <1>1, <2>3 DEF WindowsParts
  <2>5. f \in [1 .. z -> {WindowsEntry(list[i], a) : a \in 1 .. z}] /\ z \in Nat
    BY ONLY <2>2, <2>3, <2>4
  <2>6. Len(f) = z
    BY ONLY <2>5, FunctionIsSeq
  <2>7. \A a \in 1 .. z : f[a] = WindowsEntry(list[i], a)
    BY ONLY <2>4
  <2> QED
    BY ONLY <2>1, <2>2, <2>3, <2>6, <2>7
(* What an adapter adds is what is expected of it.                         *)
<1>4. \A x : x \in expected <=> \E i \in DOMAIN list : \E a \in 1 .. Walked(list[i]) :
                                  x = WindowsEntry(list[i], a)
  <2>1. ASSUME NEW i \in DOMAIN list
        PROVE  \A a : a \in 1 .. Walked(list[i]) <=>
                  list[i].up /\ a \in {n \in 1 .. list[i].addresses : n <= list[i].prefixes}
    BY <1>3 DEF Walked, Shows
  <2>2. \A e, a : WindowsEntry(e, a) = Address(e.name, a, e.physical)
    BY DEF WindowsEntry, Address
  <2>3. \A e : e \in UpIn(list) <=> \E i \in DOMAIN list : e = list[i] /\ list[i].up
    BY DEF UpIn
  <2>4. expected = UNION {{Address(e.name, k, e.physical)
                          : k \in {n \in 1 .. e.addresses : n <= e.prefixes}} : e \in UpIn(list)}
    BY <1>1 DEF Expected
  <2>5. \A x : x \in expected <=> \E e \in UpIn(list) :
                  \E k \in {n \in 1 .. e.addresses : n <= e.prefixes} :
                      x = Address(e.name, k, e.physical)
    BY ONLY <2>4
  <2>6. ASSUME NEW x, x \in expected
        PROVE  \E i \in DOMAIN list : \E a \in 1 .. Walked(list[i]) : x = WindowsEntry(list[i], a)
    <3>1. PICK e \in UpIn(list) : \E k \in {n \in 1 .. e.addresses : n <= e.prefixes} :
                                      x = Address(e.name, k, e.physical)
      BY <2>5, <2>6
    <3>2. PICK k \in {n \in 1 .. e.addresses : n <= e.prefixes} :
                   x = Address(e.name, k, e.physical)
      BY <3>1
    <3>3. PICK i \in DOMAIN list : e = list[i] /\ list[i].up
      BY <2>3
    <3>4. k \in 1 .. Walked(list[i])
      BY ONLY <2>1, <3>2, <3>3
    <3>5. x = WindowsEntry(list[i], k)
      BY ONLY <2>2, <3>2, <3>3
    <3> QED
      BY <3>4, <3>5
  <2>7. ASSUME NEW i \in DOMAIN list, NEW a \in 1 .. Walked(list[i]) 
        PROVE  WindowsEntry(list[i], a) \in expected
    <3>1. list[i].up /\ a \in {n \in 1 .. list[i].addresses : n <= list[i].prefixes}
      BY <2>1
    <3>2. list[i] \in UpIn(list)
      BY <2>3, <3>1
    <3>3. WindowsEntry(list[i], a) = Address(list[i].name, a, list[i].physical)
      BY <2>2
    <3> QED
      BY ONLY <2>5, <3>1, <3>2, <3>3
  <2> QED
    BY <2>6, <2>7
<1>5. \A k \in 1 .. m : entries[k] # NotFilled /\ entries[k] \in expected
  <2> SUFFICES ASSUME NEW k \in 1 .. m PROVE entries[k] # NotFilled /\ entries[k] \in expected
    OBVIOUS
  <2>1. PICK i \in DOMAIN list : \E a \in 1 .. Len(parts[i]) : entries[k] = parts[i][a]
    BY <1>2 DEF FilledWith
  <2>2. PICK a \in 1 .. Walked(list[i]) : entries[k] = WindowsEntry(list[i], a)
    BY <1>3, <2>1
  <2>3. entries[k].number = a /\ a # 0
    BY <1>3, <2>2 DEF WindowsEntry
  <2>4. NotFilled.number = 0
    BY DEF NotFilled
  <2> QED
    BY <1>4, <2>2, <2>3, <2>4
<1>6. \A x \in expected : \E k \in 1 .. m : entries[k] = x
  <2> SUFFICES ASSUME NEW x \in expected PROVE \E k \in 1 .. m : entries[k] = x
    OBVIOUS
  <2>1. PICK i \in DOMAIN list : \E a \in 1 .. Walked(list[i]) : x = WindowsEntry(list[i], a)
    BY <1>4
  <2>2. PICK a \in 1 .. Len(parts[i]) : x = parts[i][a]
    BY <1>3, <2>1
  <2> QED
    BY <1>2, <2>2 DEF FilledWith
<1>7. Reports(entries, filled, count, expected) /\ (m = count => filled = DOMAIN entries)
  <2>1. /\ count \in Nat /\ m \in Nat /\ m <= count
        /\ entries = [k \in 1 .. count |-> entries[k]]
        /\ \A k \in 1 .. count : k > m => entries[k] = NotFilled
        /\ \A k \in 1 .. m : entries[k] # NotFilled /\ entries[k] \in expected
        /\ \A x \in expected : \E k \in 1 .. m : entries[k] = x
        /\ Distinct(entries, m)
        /\ filled = {i \in DOMAIN entries : entries[i] # NotFilled}
    BY ONLY <1>1, <1>2, <1>5, <1>6, Zenon DEF FilledWith
  <2> QED
    BY ONLY <2>1, ReportIs, Zenon
<1>8. (\A a \in UpIn(list) : a.addresses <= a.prefixes) => m = count
  BY <1>2 DEF UpIn
<1> QED
  BY ONLY <1>1, <1>7, <1>8, onWindows, Zenon DEF Right

(* On POSIX systems two entries before the physical addresses are written  *)
(* differ in name or number, which stay as they are.                       *)
LEMMA PosixRight ==
    ASSUME NEW q, ~onWindows, FineList(q.list, FALSE), PosixDone(q.list, q.count, q.entries)
    PROVE  Right(q)
<1>1. PICK list, entries, count, parts, filled, expected :
         /\ list = q.list /\ entries = q.entries /\ count = q.count
         /\ parts = PosixParts(list) /\ expected = Expected(list)
         /\ filled = {i \in DOMAIN entries : entries[i] # NotFilled}
  OBVIOUS
<1>2. PICK before : PosixFill(list, count, before) /\ entries = WithPhysical(before, list)
  BY <1>1 DEF PosixDone
<1>3. /\ count \in Nat /\ Distinct(before, count)
      /\ before = [k \in 1 .. count |-> before[k]]
      /\ \A k \in 1 .. count : \E i \in DOMAIN list : \E a \in 1 .. Len(parts[i]) :
            before[k] = parts[i][a]
      /\ \A i \in DOMAIN list : \A a \in 1 .. Len(parts[i]) :
            \E k \in 1 .. count : before[k] = parts[i][a]
  <2>1. /\ count \in Nat /\ Distinct(before, count)
        /\ FilledWith(list, PosixParts(list), count, count, before)
    BY ONLY <1>2, Zenon DEF PosixFill
  <2>2. FilledWith(list, parts, count, count, before)
    BY ONLY <2>1, <1>1, Zenon
  <2>3. /\ before = [k \in 1 .. count |-> before[k]]
        /\ \A k \in 1 .. count : \E i \in DOMAIN list : \E a \in 1 .. Len(parts[i]) :
              before[k] = parts[i][a]
        /\ \A i \in DOMAIN list : \A a \in 1 .. Len(parts[i]) :
              \E k \in 1 .. count : before[k] = parts[i][a]
    BY ONLY <2>2, Zenon DEF FilledWith
  <2> QED
    BY ONLY <2>1, <2>3, Zenon
<1>4. ASSUME NEW i \in DOMAIN list
      PROVE  /\ Taken(list[i]) <=> list[i].up /\ list[i].family = "inet"
             /\ Taken(list[i]) => list[i].number # 0
             /\ Taken(list[i]) => Len(parts[i]) = 1 /\ parts[i][1] = PosixEntry(list[i])
             /\ ~Taken(list[i]) => Len(parts[i]) = 0
  <2>1. list[i] \in PosixElements
    <3>1. list \in Seq(PosixElements)
      BY <1>1 DEF FineList
    <3>2. list[i] \in PosixElements
      BY ONLY <3>1, ElementOfSeq, LenProperties, i \in DOMAIN list
    <3> QED
      BY <3>2 DEF PosixElements
  <2>2. Taken(list[i]) <=> list[i].up /\ list[i].family = "inet"
    BY <2>1 DEF Taken, PosixElements
  <2>3. list[i].family = "inet" => list[i].number # 0
    BY <1>1 DEF FineList
  <2>4. parts[i] = IF Taken(list[i]) THEN <<PosixEntry(list[i])>> ELSE <<>>
    BY <1>1 DEF PosixParts
  <2>5. /\ Len(<<PosixEntry(list[i])>>) = 1 /\ <<PosixEntry(list[i])>>[1] = PosixEntry(list[i])
        /\ Len(<<>>) = 0
    OBVIOUS
  <2> QED
    BY ONLY <2>2, <2>3, <2>4, <2>5
<1> DEFINE Reported(i) == Address(list[i].name, list[i].number, HasPacket(list, list[i].name))
(* An entry belongs to an element that is taken.                           *)
<1>5. \A k \in 1 .. count : \E i \in DOMAIN list :
          Taken(list[i]) /\ before[k] = PosixEntry(list[i]) /\ entries[k] = Reported(i)
  <2> SUFFICES ASSUME NEW k \in 1 .. count
               PROVE  \E i \in DOMAIN list : /\ Taken(list[i]) /\ before[k] = PosixEntry(list[i])
                                            /\ entries[k] = Reported(i)
    OBVIOUS
  <2>1. PICK i \in DOMAIN list : \E a \in 1 .. Len(parts[i]) : before[k] = parts[i][a]
    BY <1>3
  <2>2. Taken(list[i]) /\ before[k] = PosixEntry(list[i])
    BY <1>4, <2>1
  <2>3. PICK e : e = before[k]
    OBVIOUS
  <2>4. e = [name |-> list[i].name, number |-> list[i].number, physical |-> "unset"]
    <3>1. PICK x : x = PosixEntry(list[i])
      OBVIOUS
    <3>2. x = [name |-> list[i].name, number |-> list[i].number, physical |-> "unset"]
      BY ONLY <3>1 DEF PosixEntry, NotFilled
    <3> QED
      BY ONLY <2>2, <2>3, <3>1, <3>2
  <2>5. DOMAIN before = 1 .. count
    BY ONLY <1>3
  <2>6. entries[k] = IF HasPacket(list, e.name) THEN [e EXCEPT !.physical = e.name] ELSE e
    BY ONLY <1>2, <2>3, <2>5, k \in 1 .. count DEF WithPhysical
  <2>7. PICK x : x = [e EXCEPT !.physical = e.name]
    OBVIOUS
  <2>8. x = [name |-> list[i].name, number |-> list[i].number, physical |-> list[i].name]
    BY ONLY <2>4, <2>7
  <2>9. e.name = list[i].name
    BY ONLY <2>4
  <2>10. entries[k] = Reported(i)
    <3>1. CASE HasPacket(list, list[i].name)
      BY ONLY <3>1, <2>6, <2>7, <2>8, <2>9 DEF Address
    <3>2. CASE ~HasPacket(list, list[i].name)
      BY ONLY <3>2, <2>4, <2>6, <2>9 DEF Address
    <3> QED
      BY <3>1, <3>2
  <2> QED
    BY <2>2, <2>10
<1>6. \A i \in DOMAIN list : Taken(list[i]) => \E k \in 1 .. count : before[k] = PosixEntry(list[i])
  BY <1>3, <1>4
<1>7. \A i, j \in DOMAIN list :
          PosixEntry(list[i]) = PosixEntry(list[j]) <=>
              list[i].name = list[j].name /\ list[i].number = list[j].number
  BY DEF PosixEntry, NotFilled
<1>8. \A i \in DOMAIN list : Reported(i).name = list[i].name /\ Reported(i).number = list[i].number
  BY DEF Address
<1>9. \A x : x \in expected <=> \E i \in DOMAIN list : Taken(list[i]) /\ x = Reported(i)
  <2>1. \A n : (\E p \in UpIn(list) : p.family = "packet" /\ p.name = n) <=> HasPacket(list, n)
    BY DEF UpIn, HasPacket
  <2>2. \A e : e \in UpIn(list) <=> \E i \in DOMAIN list : e = list[i] /\ list[i].up
    BY DEF UpIn
  <2>3. expected = {Address(e.name, e.number,
                            \E p \in UpIn(list) : p.family = "packet" /\ p.name = e.name)
                    : e \in {u \in UpIn(list) : u.family = "inet"}}
    BY <1>1 DEF Expected
  <2>4. \A e : Address(e.name, e.number,
                       \E p \in UpIn(list) : p.family = "packet" /\ p.name = e.name)
               = Address(e.name, e.number, HasPacket(list, e.name))
    BY <2>1 DEF Address
  <2>5. \A x : x \in expected <=>
            \E e \in UpIn(list) : /\ e.family = "inet"
                                  /\ x = Address(e.name, e.number, HasPacket(list, e.name))
    BY ONLY <2>3, <2>4
  <2> QED
    BY ONLY <1>4, <2>2, <2>5
<1> HIDE DEF Reported
<1>10. entries = [k \in 1 .. count |-> entries[k]]
  <2>1. DOMAIN before = 1 .. count
    BY ONLY <1>3
  <2> QED
    BY ONLY <1>2, <2>1 DEF WithPhysical
<1>11. \A k \in 1 .. count : entries[k] # NotFilled /\ entries[k] \in expected
  <2> SUFFICES ASSUME NEW k \in 1 .. count
               PROVE  entries[k] # NotFilled /\ entries[k] \in expected
    OBVIOUS
  <2>1. PICK i \in DOMAIN list : Taken(list[i]) /\ entries[k] = Reported(i)
    BY <1>5
  <2>2. entries[k].number # 0
    BY <1>4, <1>8, <2>1
  <2>3. NotFilled.number = 0
    BY DEF NotFilled
  <2> QED
    BY <1>9, <2>1, <2>2, <2>3
<1>12. \A x \in expected : \E k \in 1 .. count : entries[k] = x
  <2> SUFFICES ASSUME NEW x \in expected PROVE \E k \in 1 .. count : entries[k] = x
    OBVIOUS
  <2>1. PICK i \in DOMAIN list : Taken(list[i]) /\ x = Reported(i)
    BY <1>9
  <2>2. PICK k \in 1 .. count : before[k] = PosixEntry(list[i])
    BY <1>6, <2>1
  <2>3. PICK j \in DOMAIN list : before[k] = PosixEntry(list[j]) /\ entries[k] = Reported(j)
    BY <1>5
  <2>4. list[i].name = list[j].name /\ list[i].number = list[j].number
    BY <1>7, <2>2, <2>3
  <2>5. Reported(j) = Reported(i)
    BY <2>4 DEF Reported
  <2> QED
    BY <2>1, <2>3, <2>5
<1>13. Distinct(entries, count)
  <2> SUFFICES ASSUME NEW k \in 1 .. count, NEW h \in 1 .. count, entries[k] = entries[h]
               PROVE  k = h
    BY DEF Distinct
  <2>1. PICK i \in DOMAIN list : before[k] = PosixEntry(list[i]) /\ entries[k] = Reported(i)
    BY <1>5
  <2>2. PICK j \in DOMAIN list : before[h] = PosixEntry(list[j]) /\ entries[h] = Reported(j)
    BY <1>5
  <2>3. list[i].name = list[j].name /\ list[i].number = list[j].number
    BY <1>8, <2>1, <2>2
  <2>4. before[k] = before[h]
    BY <1>7, <2>1, <2>2, <2>3
  <2> QED
    BY <1>3, <2>4 DEF Distinct
<1>14. Reports(entries, filled, count, expected) /\ filled = DOMAIN entries
  <2>1. \A k \in 1 .. count : k > count => entries[k] = NotFilled
    BY <1>3
  <2>2. count <= count
    BY <1>3
  <2>3. /\ count \in Nat /\ count <= count
        /\ entries = [k \in 1 .. count |-> entries[k]]
        /\ \A k \in 1 .. count : k > count => entries[k] = NotFilled
        /\ \A k \in 1 .. count : entries[k] # NotFilled /\ entries[k] \in expected
        /\ \A x \in expected : \E k \in 1 .. count : entries[k] = x
        /\ Distinct(entries, count)
        /\ filled = {i \in DOMAIN entries : entries[i] # NotFilled}
    BY ONLY <1>1, <1>3, <1>10, <1>11, <1>12, <1>13, <2>1, <2>2, Zenon
  <2>4. /\ Reports(entries, filled, count, expected)
        /\ (count = count => filled = DOMAIN entries)
    BY ONLY <2>3, ReportIs, Zenon
  <2> QED
    BY ONLY <2>4, Zenon
<1> QED
  BY ONLY <1>1, <1>14, Zenon DEF Right

(* A call that succeeds reports every address of the interfaces that are   *)
(* up once, and gives its memory back, for all lists that a system may     *)
(* find and however they change while it is asking.                        *)
THEOREM AddressesCorrect == InterfacesSpec => []AddressesReported
<1>1. InterfacesInv => AddressesReported
  <2> SUFFICES ASSUME InterfacesInv, query.step = "over" PROVE AddressesReported
    BY DEF AddressesReported
  <2>1. onWindows \in BOOLEAN /\ QuerySound(query, onWindows)
    BY DEF InterfacesInv
  <2>2. /\ FineList(query.list, onWindows)
        /\ \/ query.result = 0 /\ ReportSound(query, onWindows)
           \/ query.result = -1 /\ query.memory \subseteq IF onWindows THEN {} ELSE {"list"}
    BY ONLY <2>1, query.step = "over", SoundAt
  <2>3. CASE query.result = 0 /\ ReportSound(query, onWindows)
    <3>1. Right(query)
      <4>1. CASE onWindows
        <5>1. FineList(query.list, TRUE) /\ WindowsFill(query.list, query.count, query.entries)
          BY <2>1, <2>2, <2>3, <4>1 DEF ReportSound
        <5> QED
          BY ONLY <4>1, <5>1, WindowsRight
      <4>2. CASE ~onWindows
        <5>1. FineList(query.list, FALSE) /\ PosixDone(query.list, query.count, query.entries)
          BY <2>1, <2>2, <2>3, <4>2 DEF ReportSound
        <5> QED
          BY ONLY <4>2, <5>1, PosixRight
      <4> QED
        BY <4>1, <4>2
    <3>2. query.memory = {"result"}
      BY <2>3 DEF ReportSound
    <3> QED
      BY ONLY <2>3, <3>1, <3>2, Zenon
      DEF Right, Reports, AddressesReported, FilledIn, EnoughPrefixes
  <2>4. CASE query.result = -1 /\ query.memory \subseteq IF onWindows THEN {} ELSE {"list"}
    <3>1. query.result # 0
      BY <2>4
    <3> QED
      BY ONLY <2>4, <3>1, Zenon DEF AddressesReported
  <2> QED
    BY <2>2, <2>3, <2>4
<1> QED
  BY <1>1, InterfacesStart, InterfacesStep, PTL DEF InterfacesSpec

-----------------------------------------------------------------------------
(* The condition variable for Windows *)

(* A set of threads is finite: it can be counted, and leaving wait takes   *)
(* one off the count of those inside.                                      *)
LEMMA ThreadCount ==
    ASSUME NEW S \in SUBSET Threads
    PROVE  /\ IsFiniteSet(S)
           /\ Cardinality(S) \in Nat
           /\ Cardinality(S) = 0 <=> S = {}
           /\ \A t \in Threads :
                /\ Cardinality(S \ {t}) = IF t \in S THEN Cardinality(S) - 1
                                          ELSE Cardinality(S)
                /\ Cardinality(S \cup {t}) = IF t \in S THEN Cardinality(S)
                                             ELSE Cardinality(S) + 1
<1>1. IsFiniteSet(S)
  BY CondAssumption, FS_Subset
<1> QED
  BY <1>1, FS_CardinalityType, FS_EmptySet, FS_AddElement, FS_RemoveElement

(* A thread enters the loop of wait in Register and leaves it in Leave;    *)
(* no other step changes who is inside.                                    *)
LEMMA WaitingStep ==
    ASSUME TypeOK, NEW t \in Threads
    PROVE  /\ \A b \in BOOLEAN : Register(t, b) =>
                t \notin Waiting /\ Waiting' = Waiting \cup {t}
           /\ pc[t] = "back" /\ pc' = [pc EXCEPT ![t] = "released"] =>
                t \in Waiting /\ Waiting' = Waiting \ {t}
           /\ Release(t) \/ Return(t) \/ WaitOn(t) \/ Relock(t) \/ Finish(t)
                \/ Lock(t) \/ Unlock(t) => Waiting' = Waiting
<1> USE DEF TypeOK, Waiting, Points
<1>1. ASSUME NEW b \in BOOLEAN, Register(t, b)
      PROVE  t \notin Waiting /\ Waiting' = Waiting \cup {t}
  BY <1>1 DEF Register
<1>2. ASSUME pc[t] = "back", pc' = [pc EXCEPT ![t] = "released"]
      PROVE  t \in Waiting /\ Waiting' = Waiting \ {t}
  BY <1>2
<1>3. ASSUME Release(t) \/ Return(t) \/ WaitOn(t) \/ Relock(t) \/ Finish(t)
                \/ Lock(t) \/ Unlock(t)
      PROVE  Waiting' = Waiting
  BY <1>3 DEF Release, Return, WaitOn, Relock, Finish, Lock, Unlock
<1> QED
  BY <1>1, <1>2, <1>3

(* zbaselib_cond_wait counts the calling thread in n_waiting once, and     *)
(* off once, on whichever way it leaves.                                   *)
LEMMA CountStep == CountsExact /\ [Next]_vars => CountsExact'
<1> SUFFICES ASSUME CountsExact, [Next]_vars PROVE CountsExact'
  OBVIOUS
<1> USE CondAssumption DEF CountsExact, TypeOK, Points, condVars, ghosts
<1>w. Waiting \in SUBSET Threads /\ Waiting' \in SUBSET Threads
  BY DEF Waiting
<1>1. ASSUME NEW t \in Threads, Lock(t) PROVE CountsExact'
  BY <1>1, WaitingStep DEF Lock
<1>2. ASSUME NEW t \in Threads, Unlock(t) PROVE CountsExact'
  BY <1>2, WaitingStep DEF Unlock
<1>3. ASSUME NEW t \in Threads, NEW b \in BOOLEAN, Signal(t, b) PROVE CountsExact'
  <2>1. Waiting' = Waiting
    BY <1>3 DEF Signal, Waiting
  <2>2. TypeOK'
    BY <1>3, <1>w, <2>1 DEF Signal, Tokens
  <2> QED
    BY <1>3, <2>1, <2>2 DEF Signal
<1>4. ASSUME NEW t \in Threads, NEW b \in BOOLEAN, Register(t, b) PROVE CountsExact'
  <2>1. TypeOK'
    BY <1>4 DEF Register
  <2>2. t \notin Waiting /\ Waiting' = Waiting \cup {t}
    BY <1>4, WaitingStep
  <2>3. Cardinality(Waiting') = Cardinality(Waiting) + 1
    BY <1>w, <2>2, ThreadCount
  <2> QED
    BY <1>4, <2>1, <2>3 DEF Register
<1>5. ASSUME NEW t \in Threads, Release(t) PROVE CountsExact'
  BY <1>5, WaitingStep DEF Release
<1>6. ASSUME NEW t \in Threads, Return(t) PROVE CountsExact'
  BY <1>6, WaitingStep DEF Return
<1>7. ASSUME NEW t \in Threads, TakeToken(t) \/ TimeOut(t) PROVE CountsExact'
  <2>1. /\ t \in Waiting /\ Waiting' = Waiting \ {t}
        /\ Leave(t)
    BY <1>7, WaitingStep DEF TakeToken, TimeOut, Leave
  <2>2. n_waiting' = Cardinality(Waiting') /\ n_waiting' \in Nat
    BY <2>1, <1>w, ThreadCount DEF Leave, StillWaiting
  <2>3. n_to_wake' \in Nat
    BY <1>7 DEF TakeToken, TimeOut, Released
  <2>4. TypeOK'
    BY <2>1, <2>2, <2>3 DEF Leave
  <2> QED
    BY <2>2, <2>4
<1>8. ASSUME NEW t \in Threads, WaitOn(t) PROVE CountsExact'
  BY <1>8, WaitingStep DEF WaitOn, EventAfterCheck
<1>9. ASSUME NEW t \in Threads, Relock(t) PROVE CountsExact'
  BY <1>9, WaitingStep DEF Relock
<1>10. ASSUME NEW t \in Threads, Finish(t) PROVE CountsExact'
  BY <1>10, WaitingStep DEF Finish, EventAfterWait
<1>11. CASE UNCHANGED vars
  BY <1>11 DEF vars, Waiting
<1> QED
  BY <1>1, <1>2, <1>3, <1>4, <1>5, <1>6, <1>7, <1>8, <1>9, <1>10, <1>11
  DEF Next, WaitStep

(* No thread that could take a token leaves the event reset, and a         *)
(* broadcast's tokens are taken by none but those it found waiting, by     *)
(* zbaselib_cond_signal, zbaselib_cond_broadcast and zbaselib_cond_wait.   *)
LEMMA TokenStep ==
    CountsExact /\ TokensKept /\ [Next]_vars => TokensKept'
<1> SUFFICES ASSUME CountsExact, TokensKept, [Next]_vars PROVE TokensKept'
  OBVIOUS
<1> USE CondAssumption
    DEF CountsExact, TypeOK, Points, condVars, ghosts, TokensKept,
        EventCoversTokens, BroadcastTokensKept, Eligible
<1>w. Waiting \in SUBSET Threads
  BY DEF Waiting
<1>1. ASSUME NEW t \in Threads,
             Lock(t) \/ Unlock(t) \/ Release(t) \/ Return(t) \/ Relock(t)
      PROVE  TokensKept'
  <2>1. Waiting' = Waiting
    BY <1>1, WaitingStep
  <2> QED
    BY <1>1, <2>1 DEF Lock, Unlock, Release, Return, Relock
<1>2. ASSUME NEW t \in Threads, Signal(t, TRUE) PROVE TokensKept'
  <2>1. Waiting' = Waiting /\ called' = Waiting
    BY <1>2 DEF Signal, Waiting
  <2>2. Eligible' = Waiting
    BY <1>2, <1>w, <2>1 DEF Signal
  <2> QED
    BY <1>2, <2>1, <2>2 DEF Signal, Tokens
<1>3. ASSUME NEW t \in Threads, Signal(t, FALSE) PROVE TokensKept'
  BY <1>3 DEF Signal, Tokens
<1>4. ASSUME NEW t \in Threads, NEW b \in BOOLEAN, Register(t, b)
      PROVE  TokensKept'
  <2>1. t \notin Waiting /\ Waiting' = Waiting \cup {t}
    BY <1>4, WaitingStep
  <2>2. Eligible' = Eligible
    BY <1>4, <1>w, <2>1 DEF Register
  <2> QED
    BY <1>4, <2>2 DEF Register
<1>5. ASSUME NEW t \in Threads, TakeToken(t) PROVE TokensKept'
  <2>1. /\ t \in Waiting /\ Waiting' = Waiting \ {t}
        /\ Leave(t) /\ n_to_wake' = n_to_wake - 1
        /\ n_to_wake # 0 /\ t \in Eligible
    BY <1>5, WaitingStep DEF TakeToken, Leave, Released
  <2>2. Eligible' = Eligible \ {t}
    BY <1>w, <2>1 DEF Leave
  <2>3. EventCoversTokens'
    BY <2>1, <2>2 DEF Leave
  <2>4. ASSUME ~disturbed', called' # {}
        PROVE  Eligible' = called' /\ Cardinality(called') <= n_to_wake'
    <3>1. ~disturbed /\ called # {} /\ called' = called \ {t}
      BY <2>1, <2>4 DEF Leave
    <3>2. t \in called
      BY <2>1, <3>1
    <3>3. Cardinality(called') = Cardinality(called) - 1
      BY <3>1, <3>2, ThreadCount
    <3>4. Cardinality(called) \in Nat /\ Cardinality(called) <= n_to_wake
      BY <3>1, ThreadCount
    <3> QED
      BY <2>1, <2>2, <3>1, <3>3, <3>4
  <2> QED
    BY <2>3, <2>4
<1>6. ASSUME NEW t \in Threads, TimeOut(t) PROVE TokensKept'
  <2>1. /\ t \in Waiting /\ Waiting' = Waiting \ {t}
        /\ Leave(t) /\ n_to_wake' = n_to_wake
    BY <1>6, WaitingStep DEF TimeOut, Leave
  <2>2. Eligible' = Eligible \ {t}
    BY <1>w, <2>1 DEF Leave
  <2>3. /\ Cardinality(called) \in Nat
        /\ \/ Cardinality(called \ {t}) = Cardinality(called)
           \/ Cardinality(called \ {t}) = Cardinality(called) - 1
    BY called \in SUBSET Threads, ThreadCount
  <2> QED
    BY <2>1, <2>2, <2>3 DEF Leave
<1>7. ASSUME NEW t \in Threads, WaitOn(t) PROVE TokensKept'
  <2>1. Waiting' = Waiting
    BY <1>7, WaitingStep
  <2> QED
    BY <1>7, <2>1 DEF WaitOn, EventAfterCheck
<1>8. ASSUME NEW t \in Threads, Finish(t) PROVE TokensKept'
  <2>1. Waiting' = Waiting
    BY <1>8, WaitingStep
  <2>2. n_waiting = 0 => Waiting = {}
    BY <1>w, ThreadCount
  <2> QED
    BY <1>8, <2>1, <2>2 DEF Finish, EventAfterWait
<1>9. CASE UNCHANGED vars
  BY <1>9 DEF vars, Waiting
<1> QED
  BY ZenonT(40), <1>1, <1>2, <1>3, <1>4, <1>5, <1>6, <1>7, <1>8, <1>9
  DEF Next, WaitStep

(* n_waiting counts the threads inside zbaselib_cond_wait, on every way    *)
(* in and out of it.                                                       *)
THEOREM CountCorrect == Spec => []CountsExact
<1>1. Init => CountsExact
  <2> SUFFICES ASSUME Init PROVE CountsExact
    OBVIOUS
  <2>1. Waiting = {}
    BY DEF Init, Waiting
  <2>2. TypeOK
    <3>1. 0 \in 0 .. MaxSignals /\ 0 \in 0 .. MaxWaits /\ 0 \in 0 .. 0
      BY CondAssumption
    <3>2. /\ pc \in [Threads -> Points] /\ start \in [Threads -> 0 .. generation]
          /\ timed \in [Threads -> BOOLEAN] /\ expired \in [Threads -> BOOLEAN]
      BY <3>1 DEF Init, Points
    <3> QED
      BY <3>1, <3>2 DEF Init, TypeOK
  <2> QED
    BY <2>1, <2>2, FS_EmptySet DEF Init, CountsExact
<1> QED
  BY <1>1, CountStep, PTL DEF Spec

(* Tokens are not lost: neither place where zbaselib_cond_wait resets the  *)
(* event does so while a thread it is for could still take a token, and    *)
(* the tokens of a broadcast are kept for the threads it found waiting.    *)
THEOREM TokensCorrect == Spec => []TokensKept
<1>1. Init => TokensKept
  BY DEF Init, TokensKept, EventCoversTokens, BroadcastTokensKept
<1> QED
  BY <1>1, TokenStep, CountCorrect, PTL DEF Spec
=============================================================================
