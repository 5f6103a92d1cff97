----------------------------- MODULE Parts_proofs -----------------------------
(***************************************************************************)
(* Theorems about parts of the system that keep to themselves, each in a   *)
(* section of its own: Host (PluginHost), Proxy (SafeProxy), Frames        *)
(* (IpcFrames), Eco (EcoThrottle) and Copies (Replicas).  Services runs    *)
(* them on variables they share.                                           *)
(***************************************************************************)
EXTENDS Integers, FiniteSets, Sequences, FiniteSetTheorems, SequenceTheorems, TLAPS

-----------------------------------------------------------------------------
(* PluginHost, for any plugins and any number of requests. The argument is *)
(* the order of nyxj_app_destroy: the pool is drained, the event loop's    *)
(* own handlers are over and the routes are gone before the first library  *)
(* is shut down.                                                           *)
CONSTANTS Plugins, Jobs
VARIABLES lib, slots, routes, job, owner, life, failed

Host == INSTANCE PluginHost

Active == {"queued", "pool", "loop"}

HostTypes ==
    /\ lib \in [Plugins -> {"none", "init", "open", "shut", "closed"}]
    /\ slots \in Seq(Plugins) /\ routes \subseteq Plugins /\ failed \subseteq Plugins
    /\ job \in [Jobs -> {"none", "queued", "pool", "loop", "over"}]
    /\ \A j \in Jobs : job[j] # "none" => owner[j] \in Plugins
    /\ DOMAIN owner = Jobs
    /\ life \in {"setup", "running", "drained", "unloading"}

(* A library whose init runs is the last thing before the server runs; a   *)
(* route leads into a library that is open or being loaded, or is one that *)
(* a failed load has left behind.                                          *)
HostLoading ==
    /\ \A p \in Plugins : lib[p] = "init" => life = "setup"
    /\ \A p \in routes : lib[p] \in {"init", "open"} \/ p \in failed
    /\ \A p \in Plugins : lib[p] = "shut" => life = "unloading"

(* The slots are the libraries that are open, each once, and the last one  *)
(* may be shut down already.                                               *)
HostSlots ==
    /\ \A i \in 1 .. Len(slots) :
         lib[slots[i]] = "open" \/ (lib[slots[i]] = "shut" /\ i = Len(slots))
    /\ \A i, h \in 1 .. Len(slots) : slots[i] = slots[h] => i = h
    /\ \A p \in Plugins : lib[p] \in {"open", "shut"} => \E i \in 1 .. Len(slots) : slots[i] = p

(* What is over at each point of nyxj_app_destroy.                         *)
HostCalls ==
    /\ life = "setup" => \A j \in Jobs : job[j] = "none"
    /\ life \in {"drained", "unloading"} => \A j \in Jobs : job[j] \notin {"queued", "pool"}
    /\ life = "unloading" => routes = {} /\ \A j \in Jobs : job[j] # "loop"
    /\ \A j \in Jobs : job[j] \in Active => lib[owner[j]] = "open" \/ owner[j] \in failed

HostInv == HostTypes /\ HostLoading /\ HostSlots /\ HostCalls
-----------------------------------------------------------------------------
(* Loading.                                                                *)
LEMMA OpenStep ==
    ASSUME HostInv, NEW p \in Plugins, Host!Open(p)
    PROVE  HostInv'
<1>1. /\ life = "setup" /\ lib[p] = "none" /\ UNCHANGED <<slots, routes, job, owner, life>>
      /\ \/ lib' = [lib EXCEPT ![p] = "init"] /\ failed' = failed
         \/ lib' = [lib EXCEPT ![p] = "closed"] /\ failed' = failed \cup {p}
  BY DEF Host!Open, Host!Becomes
<1>2. \A i \in 1 .. Len(slots) : slots[i] # p /\ slots[i] \in Plugins
  BY <1>1 DEF HostInv, HostTypes, HostSlots
<1>3. HostTypes'
  BY <1>1 DEF HostInv, HostTypes
<1>4. HostLoading'
  BY <1>1 DEF HostInv, HostTypes, HostLoading
<1>5. HostSlots'
  BY <1>1, <1>2 DEF HostInv, HostTypes, HostSlots
<1>6. HostCalls'
  BY <1>1 DEF HostInv, HostCalls, Active
<1> QED
  BY <1>3, <1>4, <1>5, <1>6 DEF HostInv

LEMMA RegisterStep ==
    ASSUME HostInv, NEW p \in Plugins, Host!Register(p)
    PROVE  HostInv'
<1>1. /\ lib[p] = "init" /\ routes' = routes \cup {p}
      /\ UNCHANGED <<lib, slots, job, owner, failed, life>>
  BY DEF Host!Register
<1>2. life = "setup"
  BY <1>1 DEF HostInv, HostLoading
<1>3. HostTypes' /\ HostLoading' /\ HostSlots' /\ HostCalls'
  BY <1>1, <1>2 DEF HostInv, HostTypes, HostLoading, HostSlots, HostCalls
<1> QED
  BY <1>3 DEF HostInv

LEMMA LoadedStep ==
    ASSUME HostInv, NEW p \in Plugins, Host!Loaded(p)
    PROVE  HostInv'
<1>1. /\ lib[p] = "init" /\ lib' = [lib EXCEPT ![p] = "open"] /\ slots' = Append(slots, p)
      /\ UNCHANGED <<routes, job, owner, failed, life>>
  BY DEF Host!Loaded, Host!Becomes
<1>2. life = "setup"
  BY <1>1 DEF HostInv, HostLoading
<1>3. PICK n \in Nat : n = Len(slots) /\ slots \in Seq(Plugins)
  BY DEF HostInv, HostTypes
<1>4. \A i \in 1 .. n : slots[i] # p /\ slots[i] \in Plugins
  BY <1>1, <1>3 DEF HostInv, HostTypes, HostSlots
<1>5. /\ slots' \in Seq(Plugins) /\ Len(slots') = n + 1 /\ slots'[n + 1] = p
      /\ \A i \in 1 .. n : slots'[i] = slots[i]
  BY <1>1, <1>3
<1>6. HostTypes'
  BY <1>1, <1>5 DEF HostInv, HostTypes
<1>7. HostLoading'
  BY <1>1 DEF HostInv, HostTypes, HostLoading
<1>8. HostSlots'
  <2>1. ASSUME NEW i \in 1 .. n + 1 PROVE lib'[slots'[i]] = "open"
    <3>1. CASE i = n + 1
      BY <1>1, <1>5, <3>1 DEF HostInv, HostTypes
    <3>2. CASE i # n + 1
      <4>1. i \in 1 .. n /\ slots'[i] = slots[i] /\ slots[i] # p /\ slots[i] \in Plugins
        BY <1>3, <1>4, <1>5, <3>2
      <4>2. lib[slots[i]] = "open" \/ lib[slots[i]] = "shut"
        BY <1>3, <4>1 DEF HostInv, HostSlots
      <4>3. lib[slots[i]] # "shut"
        BY <1>2, <4>1 DEF HostInv, HostLoading
      <4> QED
        BY <1>1, <4>1, <4>2, <4>3 DEF HostInv, HostTypes
    <3> QED
      BY <3>1, <3>2
  <2>2. \A i, h \in 1 .. n + 1 : slots'[i] = slots'[h] => i = h
    BY <1>3, <1>4, <1>5 DEF HostInv, HostSlots
  <2>3. ASSUME NEW q \in Plugins, lib'[q] \in {"open", "shut"}
        PROVE  \E i \in 1 .. n + 1 : slots'[i] = q
    <3>1. CASE q = p
      BY <1>5, <3>1
    <3>2. CASE q # p
      <4>1. lib[q] \in {"open", "shut"}
        BY <1>1, <2>3, <3>2 DEF HostInv, HostTypes
      <4>2. PICK i \in 1 .. n : slots[i] = q
        BY <1>3, <4>1 DEF HostInv, HostSlots
      <4> QED
        BY <1>5, <4>2
    <3> QED
      BY <3>1, <3>2
  <2> QED
    BY <1>5, <2>1, <2>2, <2>3 DEF HostSlots
<1>9. HostCalls'
  BY <1>1, <1>2 DEF HostInv, HostCalls, Active
<1> QED
  BY <1>6, <1>7, <1>8, <1>9 DEF HostInv

LEMMA LoadFailsStep ==
    ASSUME HostInv, NEW p \in Plugins, Host!LoadFails(p)
    PROVE  HostInv'
<1>1. /\ lib[p] = "init" /\ lib' = [lib EXCEPT ![p] = "closed"] /\ failed' = failed \cup {p}
      /\ UNCHANGED <<slots, routes, job, owner, life>>
  BY DEF Host!LoadFails, Host!Becomes
<1>2. life = "setup"
  BY <1>1 DEF HostInv, HostLoading
<1>3. \A i \in 1 .. Len(slots) : slots[i] # p /\ slots[i] \in Plugins
  BY <1>1 DEF HostInv, HostTypes, HostSlots
<1>4. HostTypes'
  BY <1>1 DEF HostInv, HostTypes
<1>5. HostLoading'
  BY <1>1 DEF HostInv, HostTypes, HostLoading
<1>6. HostSlots'
  BY <1>1, <1>3 DEF HostInv, HostTypes, HostSlots
<1>7. HostCalls'
  BY <1>1, <1>2 DEF HostInv, HostCalls, Active
<1> QED
  BY <1>4, <1>5, <1>6, <1>7 DEF HostInv

-----------------------------------------------------------------------------
(* Running.                                                                *)
LEMMA RunStep ==
    ASSUME HostInv, Host!Run
    PROVE  HostInv'
<1>1. /\ life = "setup" /\ (\A p \in Plugins : lib[p] # "init") /\ life' = "running"
      /\ UNCHANGED <<lib, slots, routes, job, owner, failed>>
  BY DEF Host!Run
<1>2. HostTypes' /\ HostLoading' /\ HostSlots' /\ HostCalls'
  BY <1>1 DEF HostInv, HostTypes, HostLoading, HostSlots, HostCalls, Active
<1> QED
  BY <1>2 DEF HostInv

LEMMA HostDispatches ==
    ASSUME HostInv, NEW j \in Jobs, NEW p \in Plugins, Host!Dispatch(j, p)
    PROVE  HostInv'
<1>1. /\ job[j] = "none" /\ p \in routes /\ owner' = [owner EXCEPT ![j] = p]
      /\ UNCHANGED <<lib, slots, routes, failed, life>>
      /\ \/ life = "running" /\ job' = [job EXCEPT ![j] = "queued"]
         \/ life \in {"running", "drained"} /\ job' = [job EXCEPT ![j] = "loop"]
  BY DEF Host!Dispatch
<1>2. lib[p] = "open" \/ p \in failed
  BY <1>1 DEF HostInv, HostLoading
<1>3. HostTypes' /\ HostLoading' /\ HostSlots'
  BY <1>1 DEF HostInv, HostTypes, HostLoading, HostSlots
<1>4. HostCalls'
  BY <1>1, <1>2 DEF HostInv, HostTypes, HostCalls, Active
<1> QED
  BY <1>3, <1>4 DEF HostInv

LEMMA JobStep ==
    ASSUME HostInv, NEW j \in Jobs, Host!Start(j) \/ Host!End(j)
    PROVE  HostInv'
<1>1. /\ UNCHANGED <<lib, slots, routes, owner, failed, life>>
      /\ \/ job[j] = "queued" /\ job' = [job EXCEPT ![j] = "pool"]
         \/ job[j] \in {"loop", "pool"} /\ job' = [job EXCEPT ![j] = "over"]
  BY DEF Host!Start, Host!End
<1>2. HostTypes' /\ HostLoading' /\ HostSlots'
  BY <1>1 DEF HostInv, HostTypes, HostLoading, HostSlots
<1>3. HostCalls'
  BY <1>1 DEF HostInv, HostTypes, HostCalls, Active
<1> QED
  BY <1>2, <1>3 DEF HostInv

-----------------------------------------------------------------------------
(* nyxj_app_destroy.                                                       *)
LEMMA DestroyPoolStep ==
    ASSUME HostInv, Host!DestroyPool
    PROVE  HostInv'
<1>1. /\ life \in {"running", "setup"} /\ life' = "drained"
      /\ (\A j \in Jobs : job[j] \notin {"queued", "pool"}) /\ \A p \in Plugins : lib[p] # "init"
      /\ UNCHANGED <<lib, slots, routes, job, owner, failed>>
  BY DEF Host!DestroyPool, Host!Step, Host!Drained
<1>2. HostTypes' /\ HostLoading' /\ HostSlots'
  BY <1>1 DEF HostInv, HostTypes, HostLoading, HostSlots
<1>3. HostCalls'
  BY <1>1 DEF HostInv, HostTypes, HostCalls, Active
<1> QED
  BY <1>2, <1>3 DEF HostInv

LEMMA FreeRoutesStep ==
    ASSUME HostInv, Host!FreeRoutes
    PROVE  HostInv'
<1>1. /\ life = "drained" /\ life' = "unloading" /\ routes' = {} /\ \A j \in Jobs : job[j] # "loop"
      /\ UNCHANGED <<lib, slots, job, owner, failed>>
  BY DEF Host!FreeRoutes, Host!Step, Host!Free
<1>2. HostTypes' /\ HostLoading' /\ HostSlots'
  BY <1>1 DEF HostInv, HostTypes, HostLoading, HostSlots
<1>3. HostCalls'
  BY <1>1 DEF HostInv, HostTypes, HostCalls, Active
<1> QED
  BY <1>2, <1>3 DEF HostInv

LEMMA ShutdownStep ==
    ASSUME HostInv, Host!Shutdown
    PROVE  HostInv'
<1>1. PICK n \in Nat : n = Len(slots) /\ slots \in Seq(Plugins)
  BY DEF HostInv, HostTypes
<1>2. PICK p : p = Host!Last(slots)
  OBVIOUS
<1>3. /\ life = "unloading" /\ slots # <<>> /\ lib[p] = "open" /\ lib' = [lib EXCEPT ![p] = "shut"]
      /\ UNCHANGED <<slots, routes, job, owner, failed, life>>
  BY <1>2 DEF Host!Shutdown, Host!Becomes
<1>4. n > 0 /\ p = slots[n] /\ p \in Plugins
  BY <1>1, <1>2, <1>3 DEF Host!Last
<1>5. HostTypes' /\ HostLoading'
  BY <1>3, <1>4 DEF HostInv, HostTypes, HostLoading, HostCalls
<1>6. HostSlots'
  <2>1. ASSUME NEW i \in 1 .. n
        PROVE  lib'[slots[i]] = "open" \/ (lib'[slots[i]] = "shut" /\ i = n)
    <3>1. CASE i = n
      BY <1>3, <1>4, <3>1 DEF HostInv, HostTypes
    <3>2. CASE i # n
      <4>1. slots[i] # p /\ slots[i] \in Plugins
        BY <1>1, <1>4, <3>2 DEF HostInv, HostSlots
      <4>2. lib[slots[i]] = "open"
        BY <1>1, <3>2 DEF HostInv, HostSlots
      <4> QED
        BY <1>3, <4>1, <4>2 DEF HostInv, HostTypes
    <3> QED
      BY <3>1, <3>2
  <2>2. \A q \in Plugins : lib'[q] \in {"open", "shut"} => lib[q] \in {"open", "shut"}
    BY <1>3 DEF HostInv, HostTypes
  <2> QED
    BY <1>1, <1>3, <2>1, <2>2 DEF HostInv, HostSlots
<1>7. HostCalls'
  BY <1>3 DEF HostInv, HostTypes, HostCalls, Active
<1> QED
  BY <1>5, <1>6, <1>7 DEF HostInv

LEMMA CloseStep ==
    ASSUME HostInv, Host!Close
    PROVE  HostInv'
<1>1. PICK n \in Nat : n = Len(slots) /\ slots \in Seq(Plugins)
  BY DEF HostInv, HostTypes
<1>2. PICK p : p = Host!Last(slots)
  OBVIOUS
<1>3. /\ life = "unloading" /\ slots # <<>> /\ lib[p] = "shut" /\ lib' = [lib EXCEPT ![p] = "closed"]
      /\ slots' = SubSeq(slots, 1, n - 1) /\ UNCHANGED <<routes, job, owner, failed, life>>
  BY <1>1, <1>2 DEF Host!Close, Host!Becomes, Host!Front
<1>4. n > 0 /\ p = slots[n] /\ p \in Plugins
  BY <1>1, <1>2, <1>3 DEF Host!Last
<1>5. /\ slots' \in Seq(Plugins) /\ Len(slots') = n - 1
      /\ \A i \in 1 .. n - 1 : slots'[i] = slots[i]
  BY <1>1, <1>3, <1>4
<1>6. HostTypes' /\ HostLoading'
  BY <1>3, <1>4, <1>5 DEF HostInv, HostTypes, HostLoading, HostCalls
<1>7. HostSlots'
  <2>1. ASSUME NEW i \in 1 .. n - 1
        PROVE  lib'[slots'[i]] = "open"
    <3>1. slots'[i] = slots[i] /\ slots[i] # p /\ slots[i] \in Plugins /\ i \in 1 .. n /\ i # n
      BY <1>1, <1>4, <1>5 DEF HostInv, HostSlots
    <3>2. lib[slots[i]] = "open"
      BY <1>1, <3>1 DEF HostInv, HostSlots
    <3> QED
      BY <1>3, <3>1, <3>2 DEF HostInv, HostTypes
  <2>2. \A i, h \in 1 .. n - 1 : slots'[i] = slots'[h] => i = h
    BY <1>1, <1>5, SMTT(30) DEF HostInv, HostSlots
  <2>3. ASSUME NEW q \in Plugins, lib'[q] \in {"open", "shut"}
        PROVE  \E i \in 1 .. n - 1 : slots'[i] = q
    <3>1. q # p /\ lib[q] \in {"open", "shut"}
      BY <1>3, <1>4, <2>3 DEF HostInv, HostTypes
    <3>2. PICK i \in 1 .. n : slots[i] = q
      BY <1>1, <3>1 DEF HostInv, HostSlots
    <3>3. i \in 1 .. n - 1
      BY <1>4, <3>1, <3>2
    <3> QED
      BY <1>5, <3>2, <3>3
  <2> QED
    BY <1>5, <2>1, <2>2, <2>3 DEF HostSlots
<1>8. HostCalls'
  BY <1>3 DEF HostInv, HostTypes, HostCalls, Active
<1> QED
  BY <1>6, <1>7, <1>8 DEF HostInv

LEMMA HostInitially == Host!Init => HostInv
<1> SUFFICES ASSUME Host!Init PROVE HostInv
  OBVIOUS
<1>1. slots \in Seq(Plugins) /\ Len(slots) = 0
  BY DEF Host!Init
<1>2. HostTypes
  BY <1>1 DEF Host!Init, HostTypes
<1>3. HostLoading /\ HostSlots /\ HostCalls
  BY <1>1 DEF Host!Init, HostLoading, HostSlots, HostCalls, Active
<1> QED
  BY <1>2, <1>3 DEF HostInv

(* Slots, libraries, routes and requests agree at every stage of plugin.c  *)
(* and of nyxj_app_destroy.                                                *)
THEOREM HostInvariant == Host!Spec => []HostInv
<1>1. ASSUME HostInv, Host!Next PROVE HostInv'
  BY <1>1, OpenStep, RegisterStep, LoadedStep, LoadFailsStep, RunStep, HostDispatches, JobStep,
     DestroyPoolStep, FreeRoutesStep, ShutdownStep, CloseStep DEF Host!Next
<1>2. ASSUME HostInv, UNCHANGED Host!vars PROVE HostInv'
  BY <1>2 DEF Host!vars, HostInv, HostTypes, HostLoading, HostSlots, HostCalls
<1> QED
  BY <1>1, <1>2, HostInitially, PTL DEF Host!Spec

(* No handler of a plugin that was loaded runs, or waits to run, once the  *)
(* plugin is shut down or its library closed; a route of it that can be    *)
(* found leads into an open library; and nyxj_app_destroy leaves none open.*)
THEOREM NoCallAfterClose == Host!Spec => []Host!NoCallIntoAClosedLibrary
<1>1. ASSUME HostInv PROVE Host!NoCallIntoAClosedLibrary
  <2>1. \A j \in Jobs : job[j] \in {"queued", "pool", "loop"}
                          => lib[owner[j]] = "open" \/ owner[j] \in failed
    BY <1>1 DEF HostInv, HostCalls, Active
  <2>2. life # "setup" => \A p \in routes \ failed : lib[p] = "open"
    BY <1>1 DEF HostInv, HostTypes, HostLoading
  <2>3. ASSUME life = "unloading", slots = <<>>, NEW p \in Plugins PROVE lib[p] \in {"none", "closed"}
    <3>1. ~\E i \in 1 .. Len(slots) : slots[i] = p
      BY <2>3
    <3>2. lib[p] \notin {"open", "shut"} /\ lib[p] # "init"
      BY <1>1, <2>3, <3>1 DEF HostInv, HostSlots, HostLoading
    <3> QED
      BY <1>1, <3>2 DEF HostInv, HostTypes
  <2> QED
    BY <2>1, <2>2, <2>3 DEF Host!NoCallIntoAClosedLibrary
<1> QED
  BY <1>1, HostInvariant, PTL

-----------------------------------------------------------------------------
(* SafeProxy, for any requests, any policies and whatever the gate says of *)
(* a body. The requests do not touch each other, so the invariant is one   *)
(* of a single request, and the proof follows its call.                    *)
CONSTANTS Requests, Policies, Verdict(_, _), MaxEnables
VARIABLES proxy, pc, user, conn, recv, late, done, err, body, response, seen

Proxy == INSTANCE SafeProxy

LEMMA SameCardinality ==
    ASSUME NEW S
    PROVE  Proxy!Cardinality(S) = Cardinality(S)
BY DEF Proxy!Cardinality, Cardinality

ProxyTypes ==
    /\ Proxy!Current \in Nat \ {0} /\ DOMAIN proxy = 1 .. Proxy!Current
    /\ pc \in [Requests -> {"fresh", "queued", "url", "polling", "closing", "replied"}]
    /\ user \in [Requests -> Nat]
    /\ conn \in [Requests -> {"none", "connecting", "open", "failed", "closed"}]
    /\ recv \in [Requests -> {"nothing", "part", "whole"}]
    /\ late \in [Requests -> BOOLEAN] /\ done \in [Requests -> BOOLEAN]
    /\ err \in [Requests -> {"ok", "network", "memory", "timeout"}]
    /\ body \in [Requests -> {"none", "part", "whole"}]
    /\ response \in [Requests -> {"none", "400", "413", "422", "502", "504", "part", "whole"}]

(* Before the call nothing of it has happened.                             *)
NotYet(r) == pc[r] \in {"fresh", "queued", "url"} =>
    /\ conn[r] = "none" /\ recv[r] = "nothing" /\ ~late[r]
    /\ ~done[r] /\ err[r] = "ok" /\ body[r] = "none" /\ r \notin seen

(* The gate: past it is only what the policy lets through.                 *)
Gate(r) ==
    /\ pc[r] # "fresh" => user[r] \in 1 .. Proxy!Current
    /\ pc[r] \in {"url", "polling", "closing"} => ~Proxy!Refused(r)
    /\ r \in seen => ~Proxy!Refused(r)

(* What has come of the response, and what the handler made of it.         *)
Received(r) ==
    /\ conn[r] = "open" => r \in seen
    /\ recv[r] # "nothing" => r \in seen
    /\ recv[r] = "whole" => /\ done[r]
                            /\ \/ body[r] = "whole" /\ err[r] = "ok"
                               \/ body[r] = "none" /\ err[r] = "memory"
    /\ recv[r] # "whole" => body[r] # "whole"
    /\ body[r] = "part" => recv[r] = "part" /\ conn[r] = "closed"
    /\ body[r] # "none" => r \in seen

(* The loop ends when done is set; until then no outcome stands.           *)
Ending(r) ==
    /\ ~done[r] => err[r] = "ok" /\ body[r] = "none"
    /\ pc[r] = "polling" /\ conn[r] \in {"connecting", "open"} /\ recv[r] # "whole" => ~done[r]
    /\ pc[r] \in {"polling", "closing"} /\ conn[r] \in {"none", "failed", "closed"} => done[r]
    /\ pc[r] = "closing" => done[r]
    /\ err[r] = "timeout" => late[r] /\ recv[r] # "whole"

(* What the client of the proxy gets.                                      *)
Answer(r) == pc[r] = "replied" =>
    /\ Proxy!Refused(r) <=> response[r] \in {"400", "413", "422"}
    /\ response[r] \in {"part", "whole"} => r \in seen /\ response[r] = body[r]
    /\ response[r] = "part" => recv[r] = "part" /\ conn[r] = "closed"
    /\ response[r] = "504" /\ conn[r] # "none" => late[r] /\ body[r] # "whole"
    /\ response[r] = "502" /\ recv[r] = "whole" => err[r] = "memory"

Sound(r) == NotYet(r) /\ Gate(r) /\ Received(r) /\ Ending(r) /\ Answer(r)

ProxyInv == ProxyTypes /\ \A r \in Requests : Sound(r)
-----------------------------------------------------------------------------
(* What a step does not touch stays sound.                                 *)
Same(x) ==
    /\ pc'[x] = pc[x] /\ user'[x] = user[x] /\ conn'[x] = conn[x] /\ recv'[x] = recv[x]
    /\ late'[x] = late[x] /\ done'[x] = done[x] /\ err'[x] = err[x] /\ body'[x] = body[x]
    /\ response'[x] = response[x] /\ (x \in seen' <=> x \in seen)

LEMMA Untouched ==
    ASSUME ProxyInv, NEW x \in Requests, Same(x), UNCHANGED proxy
    PROVE  Sound(x)'
<1>1. Sound(x)
  BY DEF ProxyInv
<1>2. Proxy!Current' = Proxy!Current /\ Proxy!Refused(x)' = Proxy!Refused(x)
  BY DEF Same, Proxy!Current, Proxy!Refused
<1> QED
  BY <1>1, <1>2 DEF Same, Sound, NotYet, Gate, Received, Ending, Answer

(* The requests keep to themselves: it is enough that the one of the step  *)
(* stays sound.                                                            *)
Only(r) == UNCHANGED proxy /\ \A x \in Requests : x # r => Same(x)

LEMMA OnlyOne ==
    ASSUME ProxyInv, NEW r \in Requests, Only(r), ProxyTypes', Sound(r)'
    PROVE  ProxyInv'
BY Untouched DEF ProxyInv, Only

LEMMA DispatchStep ==
    ASSUME ProxyInv, NEW r \in Requests, Proxy!Dispatch(r)
    PROVE  ProxyInv'
<1> USE DEF Proxy!Dispatch, Proxy!Set, Proxy!Goto, Proxy!call
<1>1. Only(r)
  BY DEF ProxyInv, ProxyTypes, Only, Same
<1>2. ProxyTypes'
  BY DEF ProxyInv, ProxyTypes, Proxy!Current
<1>3. Sound(r)
  BY DEF ProxyInv
<1>4. Sound(r)'
  BY <1>3 DEF ProxyInv, ProxyTypes, Proxy!Current, Sound, NotYet, Gate, Received, Ending, Answer
<1> QED
  BY <1>1, <1>2, <1>4, OnlyOne

LEMMA CheckStep ==
    ASSUME ProxyInv, NEW r \in Requests, Proxy!Check(r)
    PROVE  ProxyInv'
<1>1. PICK v : v = Verdict(proxy[user[r]], r)
  OBVIOUS
<1>2. /\ pc[r] = "queued" /\ UNCHANGED <<proxy, user, conn, recv, late, done, err, body, seen>>
      /\ \/ v = "clean" /\ pc' = [pc EXCEPT ![r] = "url"] /\ UNCHANGED response
         \/ v # "clean" /\ pc' = [pc EXCEPT ![r] = "replied"]
                        /\ response' = [response EXCEPT ![r] = Proxy!status_for(v)]
  BY <1>1 DEF Proxy!Check, Proxy!Set, Proxy!Goto, Proxy!Reply, Proxy!call
<1>3. Proxy!status_for(v) \in {"400", "413", "422"}
  BY DEF Proxy!status_for
<1>4. Only(r)
  BY <1>2 DEF ProxyInv, ProxyTypes, Only, Same
<1>5. ProxyTypes'
  <2>1. PICK status \in {"400", "413", "422"} : status = Proxy!status_for(v)
    BY <1>3
  <2>2. CASE v = "clean" /\ pc' = [pc EXCEPT ![r] = "url"] /\ UNCHANGED response
    BY <1>2, <2>2 DEF ProxyInv, ProxyTypes, Proxy!Current
  <2>3. CASE pc' = [pc EXCEPT ![r] = "replied"] /\ response' = [response EXCEPT ![r] = status]
    BY <1>2, <2>3 DEF ProxyInv, ProxyTypes, Proxy!Current
  <2> QED
    BY <1>2, <2>1, <2>2, <2>3
<1>6. Sound(r) /\ (Proxy!Refused(r) <=> v # "clean") /\ (Proxy!Refused(r)' <=> v # "clean")
  BY <1>1, <1>2 DEF ProxyInv, Proxy!Refused
<1>7. Sound(r)'
  BY <1>2, <1>3, <1>6 DEF ProxyInv, ProxyTypes, Proxy!Current, Sound, NotYet, Gate, Received, Ending, Answer
<1> QED
  BY <1>4, <1>5, <1>7, OnlyOne

LEMMA NoUrlStep ==
    ASSUME ProxyInv, NEW r \in Requests, Proxy!NoUrl(r)
    PROVE  ProxyInv'
<1>1. PICK status \in {"502", "504"} :
        /\ pc[r] = "url" /\ UNCHANGED <<proxy, user, conn, recv, late, done, err, body, seen>>
        /\ pc' = [pc EXCEPT ![r] = "replied"] /\ response' = [response EXCEPT ![r] = status]
  BY DEF Proxy!NoUrl, Proxy!Set, Proxy!Goto, Proxy!Reply, Proxy!call
<1>2. Only(r)
  BY <1>1 DEF ProxyInv, ProxyTypes, Only, Same
<1>3. ProxyTypes'
  BY <1>1 DEF ProxyInv, ProxyTypes, Proxy!Current
<1>4. Sound(r) /\ (Proxy!Refused(r)' <=> Proxy!Refused(r))
  BY <1>1 DEF ProxyInv, Proxy!Refused
<1>5. Sound(r)'
  BY <1>1, <1>4 DEF ProxyInv, ProxyTypes, Proxy!Current, Sound, NotYet, Gate, Received, Ending, Answer
<1> QED
  BY <1>2, <1>3, <1>5, OnlyOne

LEMMA CallStep ==
    ASSUME ProxyInv, NEW r \in Requests, Proxy!Call(r)
    PROVE  ProxyInv'
<1>1. /\ pc[r] = "url" /\ UNCHANGED <<proxy, user, recv, late, body, response, seen>>
      /\ pc' = [pc EXCEPT ![r] = "polling"]
      /\ \/ conn' = [conn EXCEPT ![r] = "connecting"] /\ UNCHANGED <<done, err>>
         \/ done' = [done EXCEPT ![r] = TRUE] /\ err' = [err EXCEPT ![r] = "network"] /\ UNCHANGED conn
  BY DEF Proxy!Call, Proxy!Set, Proxy!Goto
<1>2. Only(r)
  BY <1>1 DEF ProxyInv, ProxyTypes, Only, Same
<1>3. ProxyTypes'
  BY <1>1 DEF ProxyInv, ProxyTypes, Proxy!Current
<1>4. Sound(r) /\ (Proxy!Refused(r)' <=> Proxy!Refused(r))
  BY <1>1 DEF ProxyInv, Proxy!Refused
<1>5. Sound(r)'
  BY <1>1, <1>4 DEF ProxyInv, ProxyTypes, Proxy!Current, Sound, NotYet, Gate, Received, Ending, Answer
<1> QED
  BY <1>2, <1>3, <1>5, OnlyOne

LEMMA ConnectedStep ==
    ASSUME ProxyInv, NEW r \in Requests, Proxy!Connected(r)
    PROVE  ProxyInv'
<1>1. /\ pc[r] = "polling" /\ conn[r] = "connecting"
      /\ UNCHANGED <<proxy, pc, user, recv, late, done, err, body, response>>
      /\ conn' = [conn EXCEPT ![r] = "open"] /\ seen' = seen \cup {r}
  BY DEF Proxy!Connected, Proxy!Polls, Proxy!Set
<1>2. Only(r)
  BY <1>1 DEF ProxyInv, ProxyTypes, Only, Same
<1>3. ProxyTypes'
  BY <1>1 DEF ProxyInv, ProxyTypes, Proxy!Current
<1>4. Sound(r) /\ (Proxy!Refused(r)' <=> Proxy!Refused(r))
  BY <1>1 DEF ProxyInv, Proxy!Refused
<1>5. Sound(r)'
  BY <1>1, <1>4 DEF ProxyInv, ProxyTypes, Proxy!Current, Sound, NotYet, Gate, Received, Ending, Answer
<1> QED
  BY <1>2, <1>3, <1>5, OnlyOne

LEMMA ArrivesStep ==
    ASSUME ProxyInv, NEW r \in Requests, Proxy!Arrives(r)
    PROVE  ProxyInv'
<1>1. /\ pc[r] = "polling" /\ conn[r] = "open" /\ recv[r] = "nothing" /\ ~done[r]
      /\ UNCHANGED <<proxy, pc, user, conn, late, done, err, body, response, seen>>
      /\ recv' = [recv EXCEPT ![r] = "part"]
  BY DEF Proxy!Arrives, Proxy!Polls, Proxy!Set
<1>2. Only(r)
  BY <1>1 DEF ProxyInv, ProxyTypes, Only, Same
<1>3. ProxyTypes'
  BY <1>1 DEF ProxyInv, ProxyTypes, Proxy!Current
<1>4. Sound(r) /\ (Proxy!Refused(r)' <=> Proxy!Refused(r))
  BY <1>1 DEF ProxyInv, Proxy!Refused
<1>5. Sound(r)'
  BY <1>1, <1>4 DEF ProxyInv, ProxyTypes, Proxy!Current, Sound, NotYet, Gate, Received, Ending, Answer
<1> QED
  BY <1>2, <1>3, <1>5, OnlyOne

LEMMA CompletesStep ==
    ASSUME ProxyInv, NEW r \in Requests, Proxy!Completes(r)
    PROVE  ProxyInv'
<1>1. /\ pc[r] = "polling" /\ conn[r] \in {"connecting", "open"} /\ recv[r] = "part"
      /\ UNCHANGED <<proxy, pc, user, conn, late, response, seen>>
      /\ recv' = [recv EXCEPT ![r] = "whole"] /\ done' = [done EXCEPT ![r] = TRUE]
      /\ \/ body' = [body EXCEPT ![r] = "whole"] /\ UNCHANGED err
         \/ err' = [err EXCEPT ![r] = "memory"] /\ UNCHANGED body
  BY DEF Proxy!Completes, Proxy!Polls, Proxy!Message, Proxy!Set
<1>2. Only(r)
  BY <1>1 DEF ProxyInv, ProxyTypes, Only, Same
<1>3. ProxyTypes'
  BY <1>1 DEF ProxyInv, ProxyTypes, Proxy!Current
<1>4. Sound(r) /\ (Proxy!Refused(r)' <=> Proxy!Refused(r))
  BY <1>1 DEF ProxyInv, Proxy!Refused
<1>5. ~done[r] /\ err[r] = "ok" /\ body[r] = "none" /\ r \in seen
  BY <1>1, <1>4 DEF Sound, Ending, Received
<1>6. NotYet(r)' /\ Gate(r)' /\ Answer(r)'
  BY <1>1, <1>4 DEF ProxyInv, ProxyTypes, Proxy!Current, Sound, NotYet, Gate, Answer
<1>7. Received(r)'
  BY <1>1, <1>4, <1>5 DEF ProxyInv, ProxyTypes, Sound, Received
<1>8. Ending(r)'
  BY <1>1, <1>4, <1>5 DEF ProxyInv, ProxyTypes, Sound, Ending
<1> QED
  BY <1>2, <1>3, <1>6, <1>7, <1>8, OnlyOne DEF Sound

LEMMA ErrorStep ==
    ASSUME ProxyInv, NEW r \in Requests, Proxy!Error(r)
    PROVE  ProxyInv'
<1>1. /\ pc[r] = "polling" /\ conn[r] \in {"connecting", "open"}
      /\ UNCHANGED <<proxy, pc, user, recv, late, body, response, seen>>
      /\ conn' = [conn EXCEPT ![r] = "failed"] /\ done' = [done EXCEPT ![r] = TRUE]
      /\ \/ done[r] /\ UNCHANGED err
         \/ ~done[r] /\ err' = [err EXCEPT ![r] = "network"]
  BY DEF Proxy!Error, Proxy!Polls, Proxy!Set
<1>2. Only(r)
  BY <1>1 DEF ProxyInv, ProxyTypes, Only, Same
<1>3. ProxyTypes'
  BY <1>1 DEF ProxyInv, ProxyTypes, Proxy!Current
<1>4. Sound(r) /\ (Proxy!Refused(r)' <=> Proxy!Refused(r))
  BY <1>1 DEF ProxyInv, Proxy!Refused
<1>5. Sound(r)'
  BY <1>1, <1>4 DEF ProxyInv, ProxyTypes, Proxy!Current, Sound, NotYet, Gate, Received, Ending, Answer
<1> QED
  BY <1>2, <1>3, <1>5, OnlyOne

(* The end of the connection, while the loop polls and when mg_mgr_free    *)
(* lets it go.                                                             *)
LEMMA CloseCases ==
    ASSUME ProxyInv, NEW r \in Requests, Proxy!OnClose(r)
    PROVE  /\ done' = [done EXCEPT ![r] = TRUE]
           /\ \/ /\ recv[r] = "part"
                 /\ \/ body' = [body EXCEPT ![r] = "part"] /\ UNCHANGED err
                    \/ err' = [err EXCEPT ![r] = "memory"] /\ UNCHANGED body
              \/ recv[r] # "part" /\ UNCHANGED body /\ done[r] /\ UNCHANGED err
              \/ recv[r] # "part" /\ UNCHANGED body /\ ~done[r] /\ err' = [err EXCEPT ![r] = "network"]
BY DEF Proxy!OnClose, Proxy!Message, Proxy!Set

LEMMA ClosesStep ==
    ASSUME ProxyInv, NEW r \in Requests, Proxy!Closes(r)
    PROVE  ProxyInv'
<1>1. /\ pc[r] = "polling" /\ conn[r] \in {"connecting", "open", "failed"}
      /\ UNCHANGED <<proxy, pc, user, recv, late, response, seen>>
      /\ conn' = [conn EXCEPT ![r] = "closed"] /\ Proxy!OnClose(r)
  BY DEF Proxy!Closes, Proxy!Polls, Proxy!Set
<1>2. /\ done' = [done EXCEPT ![r] = TRUE]
      /\ \/ /\ recv[r] = "part"
            /\ \/ body' = [body EXCEPT ![r] = "part"] /\ UNCHANGED err
               \/ err' = [err EXCEPT ![r] = "memory"] /\ UNCHANGED body
         \/ recv[r] # "part" /\ UNCHANGED body /\ done[r] /\ UNCHANGED err
         \/ recv[r] # "part" /\ UNCHANGED body /\ ~done[r] /\ err' = [err EXCEPT ![r] = "network"]
  BY <1>1, CloseCases
<1>3. Only(r)
  BY <1>1, <1>2 DEF ProxyInv, ProxyTypes, Only, Same
<1>4. ProxyTypes'
  BY <1>1, <1>2 DEF ProxyInv, ProxyTypes, Proxy!Current
<1>5. Sound(r) /\ (Proxy!Refused(r)' <=> Proxy!Refused(r))
  BY <1>1 DEF ProxyInv, Proxy!Refused
<1>6. NotYet(r)' /\ Gate(r)' /\ Answer(r)'
  BY <1>1, <1>5 DEF ProxyInv, ProxyTypes, Proxy!Current, Sound, NotYet, Gate, Answer
<1>7. Received(r)'
  BY <1>1, <1>2, <1>5 DEF ProxyInv, ProxyTypes, Sound, Received, Ending
<1>8. Ending(r)'
  BY <1>1, <1>2, <1>5 DEF ProxyInv, ProxyTypes, Sound, Ending
<1> QED
  BY <1>3, <1>4, <1>6, <1>7, <1>8, OnlyOne DEF Sound

LEMMA DeadlineStep ==
    ASSUME ProxyInv, NEW r \in Requests, Proxy!Deadline(r)
    PROVE  ProxyInv'
<1>1. /\ pc[r] = "polling" /\ late' = [late EXCEPT ![r] = TRUE]
      /\ UNCHANGED <<proxy, pc, user, conn, recv, done, err, body, response, seen>>
  BY DEF Proxy!Deadline, Proxy!Set
<1>2. Only(r)
  BY <1>1 DEF ProxyInv, ProxyTypes, Only, Same
<1>3. ProxyTypes'
  BY <1>1 DEF ProxyInv, ProxyTypes, Proxy!Current
<1>4. Sound(r) /\ (Proxy!Refused(r)' <=> Proxy!Refused(r))
  BY <1>1 DEF ProxyInv, Proxy!Refused
<1>5. Sound(r)'
  BY <1>1, <1>4 DEF ProxyInv, ProxyTypes, Proxy!Current, Sound, NotYet, Gate, Received, Ending, Answer
<1> QED
  BY <1>2, <1>3, <1>5, OnlyOne

LEMMA LeaveStep ==
    ASSUME ProxyInv, NEW r \in Requests, Proxy!Leave(r)
    PROVE  ProxyInv'
<1>1. /\ pc[r] = "polling" /\ (done[r] \/ late[r])
      /\ UNCHANGED <<proxy, user, conn, recv, late, body, response, seen>>
      /\ done' = [done EXCEPT ![r] = TRUE] /\ pc' = [pc EXCEPT ![r] = "closing"]
      /\ \/ done[r] /\ UNCHANGED err
         \/ ~done[r] /\ err' = [err EXCEPT ![r] = "timeout"]
  BY DEF Proxy!Leave, Proxy!Over, Proxy!Set, Proxy!Goto
<1>2. Only(r)
  BY <1>1 DEF ProxyInv, ProxyTypes, Only, Same
<1>3. ProxyTypes'
  BY <1>1 DEF ProxyInv, ProxyTypes, Proxy!Current
<1>4. Sound(r) /\ (Proxy!Refused(r)' <=> Proxy!Refused(r))
  BY <1>1 DEF ProxyInv, Proxy!Refused
<1>5. Sound(r)'
  BY <1>1, <1>4 DEF ProxyInv, ProxyTypes, Proxy!Current, Sound, NotYet, Gate, Received, Ending, Answer
<1> QED
  BY <1>2, <1>3, <1>5, OnlyOne

(* The outcome is read after mg_mgr_free, which may deliver a message: a   *)
(* part of one to a call that had run out of time.                         *)
LEMMA AnswerStep ==
    ASSUME ProxyInv, NEW r \in Requests, Proxy!Return(r)
    PROVE  ProxyInv'
<1>1. /\ pc[r] = "closing"
      /\ UNCHANGED <<proxy, user, recv, late, seen>>
      /\ conn' = [conn EXCEPT ![r] = "closed"] /\ pc' = [pc EXCEPT ![r] = "replied"]
      /\ response' = [response EXCEPT ![r] =
             IF err'[r] # "ok" THEN (IF err'[r] = "timeout" THEN "504" ELSE "502") ELSE body'[r]]
      /\ \/ UNCHANGED <<done, err, body>>
         \/ Proxy!OnClose(r)
  BY DEF Proxy!Return, Proxy!Reply, Proxy!Outcome, Proxy!Set, Proxy!Goto
<1>2. Sound(r) /\ (Proxy!Refused(r)' <=> Proxy!Refused(r)) /\ ~Proxy!Refused(r) /\ done[r]
  BY <1>1 DEF ProxyInv, Proxy!Refused, Sound, Gate, Ending
<1>3. /\ done' = done
      /\ \/ /\ recv[r] = "part"
            /\ \/ body' = [body EXCEPT ![r] = "part"] /\ UNCHANGED err
               \/ err' = [err EXCEPT ![r] = "memory"] /\ UNCHANGED body
         \/ UNCHANGED <<body, err>>
  <2>1. CASE Proxy!OnClose(r)
    <3>1. [done EXCEPT ![r] = TRUE] = done
      BY <1>2 DEF ProxyInv, ProxyTypes
    <3> QED
      BY <1>2, <2>1, <3>1, CloseCases
  <2>2. CASE UNCHANGED <<done, err, body>>
    BY <2>2
  <2> QED
    BY <1>1, <2>1, <2>2
<1>4. Only(r)
  BY <1>1, <1>3 DEF ProxyInv, ProxyTypes, Only, Same
<1>5. /\ err' \in [Requests -> {"ok", "network", "memory", "timeout"}]
      /\ body' \in [Requests -> {"none", "part", "whole"}]
  BY <1>3 DEF ProxyInv, ProxyTypes
<1>6. PICK answer : /\ answer = IF err'[r] # "ok"
                                THEN (IF err'[r] = "timeout" THEN "504" ELSE "502") ELSE body'[r]
                    /\ answer \in {"504", "502", "none", "part", "whole"}
  BY <1>5
<1>7. ProxyTypes'
  BY <1>1, <1>3, <1>5, <1>6 DEF ProxyInv, ProxyTypes, Proxy!Current
<1>8. NotYet(r)' /\ Gate(r)'
  BY <1>1, <1>2 DEF ProxyInv, ProxyTypes, Proxy!Current, Sound, NotYet, Gate
<1>9. Received(r)'
  BY <1>1, <1>2, <1>3 DEF ProxyInv, ProxyTypes, Sound, Received
<1>10. Ending(r)'
  BY <1>1, <1>2, <1>3 DEF ProxyInv, ProxyTypes, Sound, Ending
<1>11. Answer(r)'
  <2>1. response'[r] = answer /\ conn'[r] = "closed"
    BY <1>1, <1>6 DEF ProxyInv, ProxyTypes
  <2>2. Received(r)' /\ Ending(r)'
    BY <1>9, <1>10
  <2> QED
    BY <1>2, <1>5, <1>6, <2>1, <2>2 DEF Answer, Received, Ending
<1> QED
  BY <1>4, <1>7, <1>8, <1>9, <1>10, <1>11, OnlyOne DEF Sound

(* The proxy is enabled again: a request keeps the state it was dispatched *)
(* with.                                                                   *)
LEMMA EnableStep ==
    ASSUME ProxyInv, NEW p \in Policies, Proxy!Enable(p)
    PROVE  ProxyInv'
<1>1. PICK n \in Nat \ {0} : n = Proxy!Current /\ DOMAIN proxy = 1 .. n
  BY DEF ProxyInv, ProxyTypes
<1>2. /\ proxy' = [i \in 1 .. n + 1 |-> IF i > n THEN p ELSE proxy[i]]
      /\ UNCHANGED <<pc, user, conn, recv, late, done, err, body, response, seen>>
  BY <1>1 DEF Proxy!Enable, Proxy!call
<1>3. DOMAIN proxy' = 1 .. n + 1 /\ \A i \in 1 .. n : proxy'[i] = proxy[i]
  BY <1>2
<1>4. Cardinality(1 .. n + 1) = n + 1
  <2>1. Cardinality(1 .. n + 1) = IF 1 > n + 1 THEN 0 ELSE n + 1 - 1 + 1
    BY FS_Interval
  <2> QED
    BY <2>1
<1>5. Proxy!Current' = n + 1
  BY <1>3, <1>4, SameCardinality DEF Proxy!Current
<1>6. ProxyTypes'
  BY <1>2, <1>3, <1>5 DEF ProxyInv, ProxyTypes
<1>7. ASSUME NEW x \in Requests PROVE Sound(x)'
  <2>1. Sound(x)
    BY DEF ProxyInv
  <2>2. CASE pc[x] = "fresh"
    <3>1. x \notin seen
      BY <2>1, <2>2 DEF Sound, NotYet
    <3> QED
      BY <1>2, <2>1, <2>2, <3>1 DEF Sound, NotYet, Gate, Received, Ending, Answer
  <2>3. CASE pc[x] # "fresh"
    <3>1. user[x] \in 1 .. n
      BY <1>1, <2>1, <2>3 DEF Sound, Gate
    <3>2. Proxy!Refused(x)' <=> Proxy!Refused(x)
      BY <1>2, <1>3, <3>1 DEF Proxy!Refused
    <3>3. user[x] \in 1 .. Proxy!Current'
      BY <1>5, <3>1
    <3> QED
      BY <1>2, <2>1, <3>2, <3>3 DEF Sound, NotYet, Gate, Received, Ending, Answer
  <2> QED
    BY <2>2, <2>3
<1> QED
  BY <1>6, <1>7 DEF ProxyInv

LEMMA ProxyInitially == Proxy!Init => ProxyInv
<1> SUFFICES ASSUME Proxy!Init PROVE ProxyInv
  OBVIOUS
<1>1. DOMAIN proxy = 1 .. 1
  BY DEF Proxy!Init
<1>2. Proxy!Current = 1
  <2>1. Cardinality({1}) = 1
    BY FS_Singleton
  <2>2. DOMAIN proxy = {1}
    BY <1>1
  <2> QED
    BY <2>1, <2>2, SameCardinality DEF Proxy!Current
<1>3. ProxyTypes
  BY <1>1, <1>2 DEF Proxy!Init, Proxy!Idle, ProxyTypes
<1>4. \A r \in Requests : Sound(r)
  BY DEF Proxy!Init, Proxy!Idle, Sound, NotYet, Gate, Received, Ending, Answer
<1> QED
  BY <1>3, <1>4 DEF ProxyInv

(* Every request is sound wherever it is in proxy_handler and in           *)
(* nyxj_http_request, however the host changes the policy between two.     *)
THEOREM ProxyInvariant == Proxy!Spec => []ProxyInv
<1>1. ASSUME ProxyInv, Proxy!Next PROVE ProxyInv'
  BY <1>1, EnableStep, DispatchStep, CheckStep, NoUrlStep, CallStep, LeaveStep, AnswerStep, DeadlineStep,
     ConnectedStep, ArrivesStep, CompletesStep, ErrorStep, ClosesStep DEF Proxy!Next, Proxy!Work
<1>2. ASSUME ProxyInv, UNCHANGED Proxy!vars PROVE ProxyInv'
  <2>1. UNCHANGED <<proxy, pc, user, conn, recv, late, done, err, body, response, seen>>
    BY <1>2 DEF Proxy!vars, Proxy!call
  <2>2. ProxyTypes'
    BY <1>2, <2>1 DEF ProxyInv, ProxyTypes, Proxy!Current
  <2>3. \A x \in Requests : Sound(x)'
    BY <1>2, <2>1, Untouched DEF Same
  <2> QED
    BY <2>2, <2>3 DEF ProxyInv
<1> QED
  BY <1>1, <1>2, ProxyInitially, PTL DEF Proxy!Spec

(* What the gate refuses under the policy in force at the dispatch never   *)
(* reaches the upstream and gets 400, 413 or 422; an answer that was whole *)
(* before the time was over is given to the client, whatever the end of    *)
(* the connection reports; and 504 means that the time was over.           *)
THEOREM TheGateHolds == Proxy!Spec => []Proxy!GateHolds
<1>1. ProxyInv => Proxy!GateHolds
  BY DEF ProxyInv, Sound, Gate, Answer, Proxy!GateHolds
<1> QED
  BY <1>1, ProxyInvariant, PTL

-----------------------------------------------------------------------------
(* IpcFrames, for any messages, sizes and limit of a frame. What is sent   *)
(* and not yet returned splits into the frames of the accepted messages,   *)
(* in their order, and the beginning of one more; a timeout or a truncated *)
(* body never leaves the receiver within a frame.                          *)
CONSTANTS Messages, Size, MaxFrame
VARIABLES unsent, out, sending, wire, rpc, hdr, need, buf, accepted, got

Frames == INSTANCE IpcFrames

Fitting == {m \in Messages : Size[m] <= MaxFrame}
Units   == [msg : Messages, at : Nat]

(* From s on, u holds the beginning of one frame whose rest is o, or, when *)
(* the sender has ended, lost; or s is the end of u and nothing is begun.  *)
Begun(u, s, o, m) ==
    /\ Len(u) - s <= Size[m]
    /\ o # <<>> => Len(u) - s + Len(o) = Size[m] + 1
    /\ \A k \in 0 .. Len(u) - s - 1 : u[s + k + 1] = Frames!Unit(m, k)
    /\ \A j \in 1 .. Len(o) : o[j] = Frames!Unit(m, Len(u) - s + j - 1)

(* u is the frames of acc, the i-th from st[i] + 1 on, and then that.      *)
Splits(u, acc, o, st) ==
    /\ st \in [1 .. Len(acc) + 1 -> 0 .. Len(u)] /\ st[1] = 0
    /\ \A i, j \in 1 .. Len(acc) + 1 : i <= j => st[i] <= st[j]
    /\ \A i \in 1 .. Len(acc) :
          /\ st[i + 1] = st[i] + Size[acc[i]] + 1
          /\ \A k \in 0 .. Size[acc[i]] : u[st[i] + k + 1] = Frames!Unit(acc[i], k)
    /\ \/ o = <<>> /\ Len(u) = st[Len(acc) + 1]
       \/ \E m \in Fitting : Begun(u, st[Len(acc) + 1], o, m)

(* What is sent and not returned: the header and the part of the body that *)
(* the receiver holds, and what is in the socket.                          *)
Stream == IF rpc = "body" THEN <<hdr>> \o buf \o wire ELSE wire

Whole(u, acc, st) == sending = "open" /\ out = <<>> => Len(u) = st[Len(acc) + 1]

FrameTypes == /\ unsent \subseteq Messages /\ out \in Seq(Units) /\ wire \in Seq(Units)
              /\ buf \in Seq(Units) /\ accepted \in Seq(Fitting) /\ sending \in {"open", "closed"}
              /\ rpc = "body" => hdr \in Units /\ need \in Nat /\ Len(buf) <= need

(* Once it is closed the receiver takes nothing, and nothing is accepted.  *)
FramesInv == /\ FrameTypes
             /\ rpc = "body" => hdr.at = 0 /\ hdr.msg \in Messages /\ need = Size[hdr.msg]
             /\ rpc # "closed" => \E st : /\ Splits(Stream, accepted, out, st)
                                          /\ Whole(Stream, accepted, st)

-----------------------------------------------------------------------------
LEMMA UnitFacts ==
    ASSUME Frames!FramesAssumption, NEW m \in Messages, NEW k \in Nat
    PROVE  /\ Size[m] \in Nat /\ MaxFrame \in Nat
           /\ Frames!Unit(m, k) \in Units
           /\ Frames!Unit(m, k).msg = m /\ Frames!Unit(m, k).at = k
BY DEF Frames!FramesAssumption, Frames!Unit, Units

LEMMA FrameOf ==
    ASSUME Frames!FramesAssumption,
           NEW u \in Seq(Units), NEW acc \in Seq(Fitting), NEW o, NEW st,
           Splits(u, acc, o, st), NEW i \in 1 .. Len(acc)
    PROVE  /\ acc[i] \in Fitting /\ Size[acc[i]] \in Nat
           /\ st[i] \in 0 .. Len(u) /\ st[i + 1] \in 0 .. Len(u)
           /\ st[i + 1] = st[i] + Size[acc[i]] + 1
           /\ \A k \in 0 .. Size[acc[i]] : /\ st[i] + k + 1 \in 1 .. Len(u)
                                           /\ u[st[i] + k + 1] = Frames!Unit(acc[i], k)
<1>1. Len(u) \in Nat /\ Len(acc) \in Nat
  OBVIOUS
<1>2. i \in 1 .. Len(acc) + 1 /\ i + 1 \in 1 .. Len(acc) + 1
  BY <1>1
<1>3. st \in [1 .. Len(acc) + 1 -> 0 .. Len(u)]
  BY DEF Splits
<1>4. st[i] \in 0 .. Len(u) /\ st[i + 1] \in 0 .. Len(u)
  BY <1>2, <1>3
<1>5. acc[i] \in Fitting
  OBVIOUS
<1>6. Size[acc[i]] \in Nat
  BY <1>5, UnitFacts DEF Fitting
<1>7. /\ st[i + 1] = st[i] + Size[acc[i]] + 1
      /\ \A k \in 0 .. Size[acc[i]] : u[st[i] + k + 1] = Frames!Unit(acc[i], k)
  BY DEF Splits
<1>8. ASSUME NEW k \in 0 .. Size[acc[i]] PROVE st[i] + k + 1 \in 1 .. Len(u)
  <2> DEFINE a == st[i]
             b == st[i + 1]
             z == Size[acc[i]]
  <2>1. a \in Nat /\ b \in 0 .. Len(u) /\ z \in Nat /\ b = a + z + 1 /\ k \in 0 .. z
    BY <1>4, <1>6, <1>7
  <2> HIDE DEF a, b, z
  <2>2. a + k + 1 \in 1 .. Len(u)
    BY <1>1, <2>1
  <2> QED
    BY <2>2 DEF a
<1> QED
  BY <1>4, <1>5, <1>6, <1>7, <1>8

(* The next unit of the frame under way, not the last.                     *)
LEMMA PutMiddle ==
    ASSUME Frames!FramesAssumption,
           NEW u \in Seq(Units), NEW acc \in Seq(Fitting), NEW o \in Seq(Units), NEW st,
           Splits(u, acc, o, st), o # <<>>, Tail(o) # <<>>
    PROVE  Splits(Append(u, Head(o)), acc, Tail(o), st)
<1> DEFINE v == Append(u, Head(o))
           s == st[Len(acc) + 1]
<1>1. /\ Len(v) = Len(u) + 1 /\ v[Len(u) + 1] = o[1]
      /\ \A k \in 1 .. Len(u) : v[k] = u[k]
      /\ Len(o) \in Nat \ {0} /\ Len(Tail(o)) = Len(o) - 1
      /\ \A j \in 1 .. Len(o) - 1 : Tail(o)[j] = o[j + 1]
      /\ Len(u) \in Nat /\ Len(acc) \in Nat
  OBVIOUS
<1>2. s \in 0 .. Len(u)
  BY <1>1 DEF Splits
<1>3. PICK m \in Fitting : Begun(u, s, o, m)
  BY DEF Splits
<1>4. Size[m] \in Nat
  BY UnitFacts DEF Fitting
<1> HIDE DEF s, v
<1>5. Begun(v, s, Tail(o), m)
  <2>1. Len(u) - s + Len(o) = Size[m] + 1 /\ Len(o) >= 2
    BY <1>1, <1>3 DEF Begun
  <2>2. \A k \in 0 .. Len(v) - s - 1 : v[s + k + 1] = Frames!Unit(m, k)
    <3> TAKE k \in 0 .. Len(v) - s - 1
    <3>1. CASE k < Len(u) - s
      <4>1. k \in 0 .. Len(u) - s - 1 /\ s + k + 1 \in 1 .. Len(u)
        BY <1>1, <1>2, <3>1
      <4>2. u[s + k + 1] = Frames!Unit(m, k)
        BY <1>3, <4>1 DEF Begun
      <4> QED
        BY <1>1, <4>1, <4>2
    <3>2. CASE k = Len(u) - s
      <4>1. o[1] = Frames!Unit(m, Len(u) - s + 1 - 1)
        BY <1>1, <1>3 DEF Begun
      <4>2. s + k + 1 = Len(u) + 1 /\ Len(u) - s + 1 - 1 = k
        BY <1>1, <1>2, <3>2
      <4> QED
        BY <1>1, <4>1, <4>2
    <3> QED
      BY <1>1, <1>2, <3>1, <3>2
  <2>3. \A j \in 1 .. Len(Tail(o)) : Tail(o)[j] = Frames!Unit(m, Len(v) - s + j - 1)
    <3> TAKE j \in 1 .. Len(Tail(o))
    <3>1. o[j + 1] = Frames!Unit(m, Len(u) - s + (j + 1) - 1)
      BY <1>1, <1>3 DEF Begun
    <3>2. Len(u) - s + (j + 1) - 1 = Len(v) - s + j - 1
      BY <1>1, <1>2
    <3> QED
      BY <1>1, <3>1, <3>2
  <2> QED
    BY <1>1, <1>2, <1>4, <2>1, <2>2, <2>3 DEF Begun
<1>6. ASSUME NEW i \in 1 .. Len(acc)
      PROVE  /\ st[i + 1] = st[i] + Size[acc[i]] + 1
             /\ \A k \in 0 .. Size[acc[i]] : v[st[i] + k + 1] = Frames!Unit(acc[i], k)
  <2>1. st[i + 1] = st[i] + Size[acc[i]] + 1
    BY FrameOf
  <2>2. ASSUME NEW k \in 0 .. Size[acc[i]]
        PROVE  v[st[i] + k + 1] = Frames!Unit(acc[i], k)
    <3>1. st[i] + k + 1 \in 1 .. Len(u) /\ u[st[i] + k + 1] = Frames!Unit(acc[i], k)
      BY FrameOf
    <3> QED
      BY <1>1, <3>1
  <2> QED
    BY <2>1, <2>2
<1>7. st \in [1 .. Len(acc) + 1 -> 0 .. Len(v)] /\ st[1] = 0
      /\ \A i, j \in 1 .. Len(acc) + 1 : i <= j => st[i] <= st[j]
  BY <1>1 DEF Splits
<1> QED
  BY <1>5, <1>6, <1>7 DEF Splits, s, v

(* The last one: the frame is accepted.                                    *)
LEMMA PutLast ==
    ASSUME Frames!FramesAssumption,
           NEW u \in Seq(Units), NEW acc \in Seq(Fitting), NEW o \in Seq(Units), NEW st,
           Splits(u, acc, o, st), o # <<>>, Len(o) = 1
    PROVE  /\ Head(o).msg \in Fitting
           /\ \E t : LET v  == Append(u, Head(o))
                         ac == Append(acc, Head(o).msg)
                     IN  Splits(v, ac, <<>>, t) /\ Len(v) = t[Len(ac) + 1]
<1> DEFINE v == Append(u, Head(o))
           s == st[Len(acc) + 1]
           h == Head(o).msg
           ac == Append(acc, h)
           t == [i \in 1 .. Len(acc) + 2 |-> IF i <= Len(acc) + 1 THEN st[i] ELSE Len(u) + 1]
<1>0. /\ v[Len(u) + 1] = o[1] /\ v \in Seq(Units)
      /\ \A k \in 1 .. Len(u) : v[k] = u[k]
  OBVIOUS
<1>1. /\ Len(v) = Len(u) + 1 /\ Len(u) \in Nat /\ Len(acc) \in Nat
      /\ Head(o) = o[1] /\ Len(o) \in Nat
  OBVIOUS
<1>3. s \in 0 .. Len(u)
  BY <1>1 DEF Splits
<1>4. PICK m \in Fitting : Begun(u, s, o, m)
  BY DEF Splits
<1>5. Size[m] \in Nat
  BY <1>4, UnitFacts DEF Fitting
<1>6. Len(u) - s = Size[m] /\ o[1] = Frames!Unit(m, Len(u) - s) /\ h = m
  <2>1. Len(u) - s + Len(o) = Size[m] + 1
    BY <1>4 DEF Begun
  <2> DEFINE y == Len(u)
             z == Size[m]
  <2>a. y \in Nat /\ z \in Nat /\ s \in 0 .. y /\ y - s + 1 = z + 1
    BY <1>1, <1>3, <1>5, <2>1
  <2> HIDE DEF y, z, s
  <2>b. y - s = z /\ y - s + 1 - 1 = y - s
    BY <2>a
  <2>2. 1 \in 1 .. Len(o) /\ Len(u) - s = Size[m] /\ Len(u) - s + 1 - 1 = Len(u) - s
    BY <2>b DEF y, z
  <2>3. o[1] = Frames!Unit(m, Len(u) - s + 1 - 1)
    BY <1>4, <2>2 DEF Begun
  <2>4. o[1] = Frames!Unit(m, Size[m])
    BY <2>2, <2>3
  <2> QED
    BY <1>1, <1>4, <1>5, <2>2, <2>4, UnitFacts DEF Fitting
<1>7. h \in Fitting /\ Len(ac) = Len(acc) + 1 /\ ac[Len(acc) + 1] = m
      /\ \A i \in 1 .. Len(acc) : ac[i] = acc[i]
  BY <1>1, <1>4, <1>6
<1>8. /\ \A i \in 1 .. Len(acc) + 1 : t[i] = st[i] /\ st[i] \in 0 .. Len(u)
      /\ t[Len(acc) + 2] = Len(u) + 1
      /\ DOMAIN t = 1 .. Len(acc) + 2 /\ t = [i \in 1 .. Len(acc) + 2 |-> t[i]]
      /\ st[1] = 0 /\ \A i, j \in 1 .. Len(acc) + 1 : i <= j => st[i] <= st[j]
  <2>1. ASSUME NEW i \in 1 .. Len(acc) + 1 PROVE t[i] = st[i] /\ st[i] \in 0 .. Len(u)
    <3>1. i \in 1 .. Len(acc) + 2 /\ i <= Len(acc) + 1
      BY <1>1
    <3>2. st[i] \in 0 .. Len(u)
      BY DEF Splits
    <3> QED
      BY <3>1, <3>2
  <2>2. Len(acc) + 2 \in 1 .. Len(acc) + 2 /\ ~(Len(acc) + 2 <= Len(acc) + 1)
    BY <1>1
  <2>3. t[Len(acc) + 2] = Len(u) + 1
    BY <2>2
  <2>4. st[1] = 0 /\ \A i, j \in 1 .. Len(acc) + 1 : i <= j => st[i] <= st[j]
    BY DEF Splits
  <2> QED
    BY <2>1, <2>3, <2>4
<1> HIDE DEF s, v, t, h, ac
<1>9. t \in [1 .. Len(ac) + 1 -> 0 .. Len(v)] /\ t[1] = 0
  <2>1. \A i \in 1 .. Len(acc) + 2 : t[i] \in 0 .. Len(v)
    <3> TAKE i \in 1 .. Len(acc) + 2
    <3>1. CASE i \in 1 .. Len(acc) + 1
      <4>1. t[i] \in 0 .. Len(u)
        BY <1>8, <3>1
      <4> QED
        BY <1>1, <4>1
    <3>2. CASE i = Len(acc) + 2
      BY <1>1, <1>8, <3>2
    <3> QED
      BY <1>1, <3>1, <3>2
  <2>2. Len(ac) + 1 = Len(acc) + 2 /\ 1 \in 1 .. Len(acc) + 1
    BY <1>1, <1>7
  <2> QED
    BY <1>8, <2>1, <2>2
<1>10. ASSUME NEW i \in 1 .. Len(ac) + 1, NEW j \in 1 .. Len(ac) + 1, i <= j
       PROVE  t[i] <= t[j]
  <2>1. CASE j \in 1 .. Len(acc) + 1
    <3>1. i \in 1 .. Len(acc) + 1
      BY <1>1, <1>10, <2>1
    <3> QED
      BY <1>8, <1>10, <2>1, <3>1
  <2>2. CASE j = Len(acc) + 2
    <3>1. CASE i \in 1 .. Len(acc) + 1
      <4>1. t[i] \in 0 .. Len(u) /\ t[j] = Len(u) + 1
        BY <1>8, <2>2, <3>1
      <4> QED
        BY <1>1, <4>1
    <3>2. CASE i = j
      BY <1>1, <1>8, <2>2, <3>2
    <3> QED
      BY <1>1, <1>7, <1>10, <2>2, <3>1, <3>2
  <2> QED
    BY <1>1, <1>7, <2>1, <2>2
<1>11. ASSUME NEW i \in 1 .. Len(ac)
       PROVE  /\ t[i + 1] = t[i] + Size[ac[i]] + 1
              /\ \A k \in 0 .. Size[ac[i]] : v[t[i] + k + 1] = Frames!Unit(ac[i], k)
  <2>1. CASE i \in 1 .. Len(acc)
    <3>1. i \in 1 .. Len(acc) + 1 /\ i + 1 \in 1 .. Len(acc) + 1
      BY <1>1, <2>1
    <3>2. t[i] = st[i] /\ t[i + 1] = st[i + 1] /\ ac[i] = acc[i]
      BY <1>7, <1>8, <2>1, <3>1
    <3>3. st[i + 1] = st[i] + Size[acc[i]] + 1
      BY <2>1, FrameOf
    <3>4. ASSUME NEW k \in 0 .. Size[acc[i]]
          PROVE  v[st[i] + k + 1] = Frames!Unit(acc[i], k)
      <4>1. st[i] + k + 1 \in 1 .. Len(u) /\ u[st[i] + k + 1] = Frames!Unit(acc[i], k)
        BY <2>1, FrameOf
      <4> QED
        BY <1>0, <4>1
    <3> QED
      BY <3>2, <3>3, <3>4
  <2>2. CASE i = Len(acc) + 1
    <3>1. t[i] = s /\ t[i + 1] = Len(u) + 1 /\ ac[i] = m
      <4>1. i \in 1 .. Len(acc) + 1 /\ i + 1 = Len(acc) + 2
        BY <1>1, <2>2
      <4> QED
        BY <1>7, <1>8, <2>2, <4>1 DEF s
    <3>2. ASSUME NEW k \in 0 .. Size[m]
          PROVE  v[s + k + 1] = Frames!Unit(m, k)
      <4>1. CASE k < Size[m]
        <5>1. k \in 0 .. Len(u) - s - 1 /\ s + k + 1 \in 1 .. Len(u)
          BY <1>1, <1>3, <1>5, <1>6, <4>1
        <5>2. u[s + k + 1] = Frames!Unit(m, k)
          BY <1>4, <5>1 DEF Begun
        <5> QED
          BY <1>0, <5>1, <5>2
      <4>2. CASE k = Size[m]
        <5>1. s + k + 1 = Len(u) + 1
          BY <1>1, <1>3, <1>5, <1>6, <4>2
        <5> QED
          BY <1>0, <1>6, <4>2, <5>1
      <4> QED
        BY <1>5, <4>1, <4>2
    <3>3. Len(u) + 1 = s + Size[m] + 1
      BY <1>1, <1>3, <1>5, <1>6
    <3> QED
      BY <3>1, <3>2, <3>3
  <2> QED
    BY <1>1, <1>7, <2>1, <2>2
<1>12. Len(v) = t[Len(ac) + 1]
  <2>1. Len(ac) + 1 = Len(acc) + 2
    BY <1>1, <1>7
  <2> QED
    BY <1>1, <1>8, <2>1
<1>13. Splits(v, ac, <<>>, t)
  BY <1>9, <1>10, <1>11, <1>12 DEF Splits
<1> QED
  BY <1>7, <1>12, <1>13 DEF v, ac, h

(* The first frame is taken off.                                           *)
IsRest(w, u, n) == Len(w) = Len(u) - n /\ \A k \in 1 .. Len(w) : w[k] = u[n + k]

LEMMA DropFirst ==
    ASSUME Frames!FramesAssumption,
           NEW u \in Seq(Units), NEW acc \in Seq(Fitting), NEW o \in Seq(Units), NEW st,
           Splits(u, acc, o, st), acc # <<>>,
           NEW w \in Seq(Units), IsRest(w, u, Size[acc[1]] + 1)
    PROVE  \E t : /\ Splits(w, Tail(acc), o, t)
                  /\ Len(u) = st[Len(acc) + 1] => Len(w) = t[Len(Tail(acc)) + 1]
<1> DEFINE n == Size[acc[1]] + 1
           L == Len(acc)
           t == [i \in 1 .. L |-> st[i + 1] - n]
<1>1. /\ L \in Nat \ {0} /\ Len(Tail(acc)) = L - 1 /\ Len(u) \in Nat /\ Len(w) \in Nat
      /\ 1 \in 1 .. L
  OBVIOUS
<1>a. \A i \in 1 .. L - 1 : Tail(acc)[i] = acc[i + 1]
  OBVIOUS
<1>2. n \in Nat /\ Len(u) = Len(w) + n /\ st[2] = n /\ st[1] = 0
  <2>1. Size[acc[1]] \in Nat /\ st[1 + 1] = st[1] + Size[acc[1]] + 1
    BY <1>1, FrameOf
  <2>2. st[1] = 0
    BY DEF Splits
  <2>3. Len(w) = Len(u) - n
    BY DEF IsRest
  <2>4. n \in Nat /\ n = Size[acc[1]] + 1
    BY <2>1
  <2> HIDE DEF n
  <2> QED
    BY <1>1, <2>1, <2>2, <2>3, <2>4
<1>3. \A i \in 1 .. L : t[i] = st[i + 1] - n
  OBVIOUS
<1>4. DOMAIN t = 1 .. L /\ t = [i \in 1 .. L |-> t[i]]
  OBVIOUS
<1>0. \A k \in 1 .. Len(w) : w[k] = u[n + k]
  BY DEF IsRest
<1> HIDE DEF t, n
<1>5. \A i \in 1 .. L : t[i] \in 0 .. Len(w) /\ st[i + 1] = t[i] + n
  <2> TAKE i \in 1 .. L
  <2>1. st[i + 1] \in 0 .. Len(u)
    BY <1>1, FrameOf
  <2>2. st[2] <= st[i + 1]
    <3>1. 2 \in 1 .. L + 1 /\ i + 1 \in 1 .. L + 1 /\ 2 <= i + 1
      BY <1>1
    <3> QED
      BY <3>1 DEF Splits
  <2> QED
    BY <1>1, <1>2, <1>3, <2>1, <2>2
<1>6. t \in [1 .. Len(Tail(acc)) + 1 -> 0 .. Len(w)] /\ t[1] = 0
  <2>1. Len(Tail(acc)) + 1 = L
    BY <1>1
  <2>2. t[1] = st[1 + 1] - n /\ st[1 + 1] = n
    BY <1>1, <1>2, <1>3
  <2> QED
    BY <1>2, <1>4, <1>5, <2>1, <2>2
<1>7. ASSUME NEW i \in 1 .. L, NEW j \in 1 .. L, i <= j
      PROVE  t[i] <= t[j]
  <2>1. i + 1 \in 1 .. L + 1 /\ j + 1 \in 1 .. L + 1 /\ i + 1 <= j + 1
    BY <1>1, <1>7
  <2>2. st[i + 1] <= st[j + 1]
    BY <2>1 DEF Splits
  <2> QED
    BY <1>1, <1>2, <1>5, <2>2
<1>8. ASSUME NEW i \in 1 .. L - 1
      PROVE  /\ t[i + 1] = t[i] + Size[Tail(acc)[i]] + 1
             /\ \A k \in 0 .. Size[Tail(acc)[i]] : w[t[i] + k + 1] = Frames!Unit(Tail(acc)[i], k)
  <2>1. i \in 1 .. L /\ i + 1 \in 1 .. L /\ Tail(acc)[i] = acc[i + 1]
    BY <1>1, <1>a
  <2> DEFINE z == Size[acc[i + 1]]
             a == st[i + 1]
             b == st[i + 1 + 1]
  <2>2. /\ z \in Nat /\ a \in 0 .. Len(u) /\ b \in 0 .. Len(u) /\ b = a + z + 1
        /\ \A k \in 0 .. z : /\ a + k + 1 \in 1 .. Len(u)
                              /\ u[a + k + 1] = Frames!Unit(acc[i + 1], k)
    <3>1. i + 1 \in 1 .. Len(acc)
      BY <2>1
    <3>2. ASSUME NEW j \in 1 .. Len(acc)
          PROVE  /\ Size[acc[j]] \in Nat /\ st[j] \in 0 .. Len(u) /\ st[j + 1] \in 0 .. Len(u)
                 /\ st[j + 1] = st[j] + Size[acc[j]] + 1
                 /\ \A k \in 0 .. Size[acc[j]] : /\ st[j] + k + 1 \in 1 .. Len(u)
                                                 /\ u[st[j] + k + 1] = Frames!Unit(acc[j], k)
      BY FrameOf
    <3> HIDE DEF n
    <3> QED
      BY <3>1, <3>2
  <2>3. /\ t[i] \in 0 .. Len(w) /\ t[i + 1] \in 0 .. Len(w)
        /\ a = t[i] + n /\ b = t[i + 1] + n
    BY <1>5, <2>1
  <2> HIDE DEF z, a, b
  <2> DEFINE c == t[i]
             e == t[i + 1]
             y == Len(w)
             x == Len(u)
  <2>a. /\ z \in Nat /\ n \in Nat /\ c \in 0 .. y /\ e \in 0 .. y /\ y \in Nat /\ x = y + n
        /\ b = a + z + 1 /\ a = c + n /\ b = e + n
    BY <1>1, <1>2, <2>2, <2>3
  <2> HIDE DEF c, e, x, y
  <2>b. /\ e = c + z + 1
        /\ \A k \in 0 .. z : c + k + 1 \in 1 .. y /\ n + (c + k + 1) = a + k + 1
    BY <2>a
  <2>4. t[i + 1] = t[i] + z + 1
    BY <2>b DEF c, e
  <2>5. ASSUME NEW k \in 0 .. z
        PROVE  w[t[i] + k + 1] = Frames!Unit(acc[i + 1], k)
    <3>1. t[i] + k + 1 \in 1 .. Len(w) /\ n + (t[i] + k + 1) = a + k + 1
      BY <2>b DEF c, y
    <3>2. w[t[i] + k + 1] = u[n + (t[i] + k + 1)]
      BY <1>0, <3>1
    <3> QED
      BY <2>2, <3>1, <3>2
  <2> QED
    BY <2>1, <2>4, <2>5 DEF z
<1>9. Len(Tail(acc)) + 1 = L /\ st[L + 1] = t[L] + n /\ t[L] \in 0 .. Len(w)
  BY <1>1, <1>5
<1>10. \/ o = <<>> /\ Len(w) = t[L]
       \/ \E m \in Fitting : Begun(w, t[L], o, m)
  <2>1. CASE o = <<>> /\ Len(u) = st[L + 1]
    BY <1>1, <1>2, <1>9, <2>1
  <2>2. CASE \E m \in Fitting : Begun(u, st[L + 1], o, m)
    <3>1. PICK m \in Fitting : Begun(u, st[L + 1], o, m)
      BY <2>2
    <3>2. Len(u) - st[L + 1] = Len(w) - t[L]
      BY <1>1, <1>2, <1>9
    <3>3. ASSUME NEW k \in 0 .. Len(w) - t[L] - 1
          PROVE  w[t[L] + k + 1] = Frames!Unit(m, k)
      <4> DEFINE c == t[L]
                 y == Len(w)
                 a == st[L + 1]
      <4>a. n \in Nat /\ y \in Nat /\ c \in 0 .. y /\ a = c + n /\ k \in 0 .. y - c - 1
        BY <1>1, <1>2, <1>9
      <4> HIDE DEF c, y, a
      <4>b. c + k + 1 \in 1 .. y /\ n + (c + k + 1) = a + k + 1
        BY <4>a
      <4>1. t[L] + k + 1 \in 1 .. Len(w) /\ n + (t[L] + k + 1) = st[L + 1] + k + 1
        BY <4>b DEF c, y, a
      <4>2. u[st[L + 1] + k + 1] = Frames!Unit(m, k)
        BY <3>1, <3>2 DEF Begun
      <4>3. w[t[L] + k + 1] = u[n + (t[L] + k + 1)]
        BY <1>0, <4>1
      <4> QED
        BY <4>1, <4>2, <4>3
    <3>4. Begun(w, t[L], o, m)
      BY <3>1, <3>2, <3>3 DEF Begun
    <3> QED
      BY <3>4
  <2> QED
    BY <2>1, <2>2 DEF Splits
<1>11. Splits(w, Tail(acc), o, t)
  BY <1>1, <1>6, <1>7, <1>8, <1>9, <1>10 DEF Splits
<1>12. Len(u) = st[L + 1] => Len(w) = t[L]
  BY <1>1, <1>2, <1>9
<1> QED
  BY <1>9, <1>11, <1>12

-----------------------------------------------------------------------------
LEMMA ThreeParts ==
    ASSUME NEW h \in Units, NEW b \in Seq(Units), NEW w \in Seq(Units),
           NEW u, u = <<h>> \o b \o w
    PROVE  /\ u \in Seq(Units) /\ Len(u) = 1 + Len(b) + Len(w) /\ u[1] = h
           /\ \A k \in 1 .. Len(b) : u[1 + k] = b[k]
           /\ \A k \in 1 .. Len(w) : u[1 + Len(b) + k] = w[k]
<1> DEFINE g == <<h>>
           v == g \o b
<1>1. g \in Seq(Units) /\ Len(g) = 1 /\ g[1] = h
  OBVIOUS
<1>2. Len(b) \in Nat /\ Len(w) \in Nat
  OBVIOUS
<1> HIDE DEF g
<1>3. /\ v \in Seq(Units) /\ Len(v) = 1 + Len(b)
      /\ \A i \in 1 .. 1 + Len(b) : v[i] = IF i <= 1 THEN g[i] ELSE b[i - 1]
  <2>1. /\ v \in Seq(Units) /\ Len(v) = Len(g) + Len(b)
        /\ \A i \in 1 .. Len(g) + Len(b) : v[i] = IF i <= Len(g) THEN g[i] ELSE b[i - Len(g)]
    BY <1>1, ConcatProperties
  <2> HIDE DEF v
  <2> QED
    BY <1>1, <2>1
<1>a. u = v \o w
  BY DEF g
<1> HIDE DEF v
<1>4. /\ u \in Seq(Units) /\ Len(u) = 1 + Len(b) + Len(w)
      /\ \A i \in 1 .. 1 + Len(b) + Len(w) :
            u[i] = IF i <= 1 + Len(b) THEN v[i] ELSE w[i - (1 + Len(b))]
  <2>1. /\ u \in Seq(Units) /\ Len(u) = Len(v) + Len(w)
        /\ \A i \in 1 .. Len(v) + Len(w) : u[i] = IF i <= Len(v) THEN v[i] ELSE w[i - Len(v)]
    BY <1>3, <1>a, ConcatProperties
  <2> QED
    BY <1>3, <2>1
<1>5. u[1] = h
  BY <1>1, <1>2, <1>3, <1>4
<1>6. ASSUME NEW k \in 1 .. Len(b) PROVE u[1 + k] = b[k]
  <2>1. /\ 1 + k \in 1 .. 1 + Len(b) + Len(w) /\ 1 + k <= 1 + Len(b) /\ ~(1 + k <= 1)
        /\ 1 + k \in 1 .. 1 + Len(b) /\ (1 + k) - 1 = k
    BY <1>2
  <2> QED
    BY <1>3, <1>4, <2>1
<1>7. ASSUME NEW k \in 1 .. Len(w) PROVE u[1 + Len(b) + k] = w[k]
  <2>1. /\ 1 + Len(b) + k \in 1 .. 1 + Len(b) + Len(w) /\ ~(1 + Len(b) + k <= 1 + Len(b))
        /\ (1 + Len(b) + k) - (1 + Len(b)) = k
    BY <1>2
  <2> QED
    BY <1>4, <2>1
<1> QED
  BY <1>4, <1>5, <1>6, <1>7

LEMMA StreamIsASeq ==
    ASSUME FrameTypes
    PROVE  Stream \in Seq(Units)
BY ThreeParts DEF FrameTypes, Stream

(* What is put on the wire is put at the end of the stream.                *)
LEMMA StreamGrows ==
    ASSUME FrameTypes, NEW x \in Units
    PROVE  /\ rpc = "body" => <<hdr>> \o buf \o Append(wire, x) = Append(Stream, x)
           /\ Append(wire, x) \in Seq(Units)
<1>1. wire \in Seq(Units) /\ <<x>> \in Seq(Units) /\ Append(wire, x) = wire \o <<x>>
  BY AppendIsConcat DEF FrameTypes
<1>2. ASSUME rpc = "body"
      PROVE  <<hdr>> \o buf \o Append(wire, x) = Append(Stream, x)
  <2> DEFINE p == <<hdr>> \o buf
  <2>1. p \in Seq(Units)
    BY <1>2, ConcatProperties DEF FrameTypes
  <2>2. Stream = p \o wire /\ Stream \in Seq(Units)
    BY <1>2, StreamIsASeq DEF Stream
  <2> HIDE DEF p
  <2>3. p \o (wire \o <<x>>) = (p \o wire) \o <<x>>
    BY <1>1, <2>1, ConcatAssociative
  <2>4. Append(Stream, x) = Stream \o <<x>>
    BY <2>2, AppendIsConcat
  <2>5. p \o Append(wire, x) = Append(Stream, x)
    BY <1>1, <2>2, <2>3, <2>4
  <2> QED
    BY <2>5 DEF p
<1>3. Append(wire, x) \in Seq(Units)
  BY <1>1, AppendProperties
<1> QED
  BY <1>2, <1>3

(* The receiver moves the first unit of the socket to what it holds.       *)
LEMMA StreamMoves ==
    ASSUME FrameTypes, wire # <<>>
    PROVE  /\ Head(wire) \in Units /\ Tail(wire) \in Seq(Units)
           /\ <<Head(wire)>> \o <<>> \o Tail(wire) = wire
           /\ rpc = "body" => <<hdr>> \o Append(buf, Head(wire)) \o Tail(wire) = Stream
<1> DEFINE h == Head(wire)
           t == Tail(wire)
<1>1. /\ wire \in Seq(Units) /\ h \in Units /\ t \in Seq(Units)
      /\ <<h>> \in Seq(Units) /\ <<h>> \o t = wire
  <2>1. wire \in Seq(Units)
    BY DEF FrameTypes
  <2>2. h \in Units /\ t \in Seq(Units)
    BY <2>1, HeadTailProperties
  <2>3. <<h>> \o t = wire
    <3>1. \A i \in 1 .. Len(wire) : (<<h>> \o t)[i] = wire[i]
      BY <2>1
    <3>2. Len(<<h>> \o t) = Len(wire) /\ <<h>> \o t \in Seq(Units)
      BY <2>1, <2>2
    <3> QED
      BY <2>1, <3>1, <3>2, SeqEqual
  <2> QED
    BY <2>1, <2>2, <2>3
<1> HIDE DEF h, t
<1>2. <<h>> \o <<>> = <<h>>
  BY <1>1, ConcatEmptySeq
<1>3. ASSUME rpc = "body"
      PROVE  <<hdr>> \o Append(buf, h) \o t = Stream
  <2>1. hdr \in Units /\ buf \in Seq(Units) /\ <<hdr>> \in Seq(Units)
    BY <1>3 DEF FrameTypes
  <2>2. Append(buf, h) = buf \o <<h>>
    BY <1>1, <2>1, AppendIsConcat
  <2>3. <<hdr>> \o buf \in Seq(Units)
    BY <2>1, ConcatProperties
  <2>4. <<hdr>> \o (buf \o <<h>>) = (<<hdr>> \o buf) \o <<h>>
    BY <1>1, <2>1, ConcatAssociative
  <2>5. ((<<hdr>> \o buf) \o <<h>>) \o t = (<<hdr>> \o buf) \o (<<h>> \o t)
    BY <1>1, <2>3, ConcatAssociative
  <2> QED
    BY <1>1, <1>3, <2>2, <2>4, <2>5 DEF Stream
<1> QED
  BY <1>1, <1>2, <1>3 DEF h, t

(* The first unit is a header, and that of the first frame in the stream.  *)
LEMMA FirstIsAHeader ==
    ASSUME Frames!FramesAssumption,
           NEW u \in Seq(Units), NEW acc \in Seq(Fitting), NEW o \in Seq(Units), NEW st,
           Splits(u, acc, o, st), Len(u) >= 1
    PROVE  u[1].at = 0 /\ u[1].msg \in Fitting
<1>1. Len(u) \in Nat /\ Len(acc) \in Nat /\ st[1] = 0
  BY DEF Splits
<1>2. CASE acc # <<>>
  <2>1. 1 \in 1 .. Len(acc)
    BY <1>2
  <2>2. Size[acc[1]] \in Nat /\ acc[1] \in Fitting
    BY <2>1, FrameOf
  <2>3. u[st[1] + 0 + 1] = Frames!Unit(acc[1], 0)
    <3>1. 0 \in 0 .. Size[acc[1]]
      BY <2>2
    <3> QED
      BY <2>1, <3>1, FrameOf
  <2>4. u[1] = Frames!Unit(acc[1], 0)
    BY <1>1, <2>3
  <2> QED
    BY <2>2, <2>4, UnitFacts DEF Fitting
<1>3. CASE acc = <<>>
  <2>1. st[Len(acc) + 1] = 0
    BY <1>1, <1>3
  <2>2. PICK m \in Fitting : Begun(u, 0, o, m)
    BY <1>1, <2>1 DEF Splits
  <2>3. 0 \in 0 .. Len(u) - 0 - 1
    BY <1>1
  <2>4. u[0 + 0 + 1] = Frames!Unit(m, 0)
    BY <2>2, <2>3 DEF Begun
  <2> QED
    BY <2>2, <2>4, UnitFacts DEF Fitting
<1> QED
  BY <1>2, <1>3

(* A frame that is whole is the first one accepted.                        *)
LEMMA WholeIsAccepted ==
    ASSUME Frames!FramesAssumption,
           NEW u \in Seq(Units), NEW acc \in Seq(Fitting), NEW o \in Seq(Units), NEW st,
           Splits(u, acc, o, st), Len(u) >= 1, Len(u) >= Size[u[1].msg] + 1
    PROVE  /\ acc # <<>> /\ acc[1] = u[1].msg
           /\ \A k \in 0 .. Size[acc[1]] : u[k + 1] = Frames!Unit(acc[1], k)
<1>1. Len(u) \in Nat /\ Len(acc) \in Nat /\ st[1] = 0
  BY DEF Splits
<1>2. acc # <<>>
  <2> SUFFICES ASSUME acc = <<>> PROVE FALSE
    OBVIOUS
  <2>1. st[Len(acc) + 1] = 0
    BY <1>1
  <2>2. PICK m \in Fitting : Begun(u, 0, o, m)
    BY <1>1, <2>1 DEF Splits
  <2>3. 0 \in 0 .. Len(u) - 0 - 1 /\ Len(u) - 0 <= Size[m]
    BY <1>1, <2>2 DEF Begun
  <2>4. u[0 + 0 + 1] = Frames!Unit(m, 0)
    BY <2>2, <2>3 DEF Begun
  <2>5. u[1].msg = m /\ Size[m] \in Nat
    BY <2>2, <2>4, UnitFacts DEF Fitting
  <2> QED
    BY <1>1, <2>3, <2>5
<1>3. 1 \in 1 .. Len(acc)
  BY <1>2
<1>4. Size[acc[1]] \in Nat /\ acc[1] \in Fitting
  BY <1>3, FrameOf
<1>5. \A k \in 0 .. Size[acc[1]] : u[st[1] + k + 1] = Frames!Unit(acc[1], k)
  BY <1>3, FrameOf
<1>6. \A k \in 0 .. Size[acc[1]] : u[k + 1] = Frames!Unit(acc[1], k)
  BY <1>1, <1>4, <1>5
<1>7. u[0 + 1] = Frames!Unit(acc[1], 0)
  BY <1>4, <1>6
<1> QED
  BY <1>2, <1>4, <1>6, <1>7, UnitFacts DEF Fitting

-----------------------------------------------------------------------------
(* The channel that carries the messages which are not too large.          *)
Fits == INSTANCE FrameChannel WITH Messages <- Fitting, queue <- accepted, received <- got

LEMMA QuietSteps ==
    ASSUME FramesInv, accepted' = accepted, got' = got, out' = out, sending' = sending,
           unsent' = unsent, wire' \in Seq(Units), buf' \in Seq(Units),
           rpc' = "body" => /\ hdr' \in Units /\ need' \in Nat /\ Len(buf') <= need'
                            /\ hdr'.at = 0 /\ hdr'.msg \in Messages /\ need' = Size[hdr'.msg],
           rpc' # "closed" => rpc # "closed" /\ Stream' = Stream
    PROVE  FramesInv' /\ [Fits!Next]_(Fits!channelVars)
<1>1. FrameTypes'
  BY DEF FramesInv, FrameTypes
<1>2. ASSUME rpc' # "closed"
      PROVE  \E st : Splits(Stream, accepted, out, st)' /\ Whole(Stream, accepted, st)'
  <2>1. PICK st : Splits(Stream, accepted, out, st) /\ Whole(Stream, accepted, st)
    BY <1>2 DEF FramesInv
  <2>2. Splits(Stream', accepted', out', st) /\ Whole(Stream, accepted, st)'
    BY <1>2, <2>1 DEF Whole
  <2> QED
    BY <2>2 DEF Splits, Begun
<1> QED
  BY <1>1, <1>2 DEF FramesInv, Fits!channelVars

LEMMA ReceiverSteps ==
    ASSUME Frames!FramesAssumption, FramesInv,
           \/ Frames!Recv \/ Frames!TimedOut \/ Frames!GetBody \/ Frames!Truncated
           \/ Frames!Disconnected \/ UNCHANGED Frames!vars
    PROVE  FramesInv' /\ [Fits!Next]_(Fits!channelVars)
<1>1. CASE Frames!Recv \/ Frames!TimedOut
  <2>1. /\ accepted' = accepted /\ got' = got /\ out' = out /\ sending' = sending
        /\ unsent' = unsent /\ wire' = wire /\ buf' = <<>>
        /\ rpc \in {"idle", "header"} /\ rpc' \in {"idle", "header"}
    BY <1>1 DEF Frames!Recv, Frames!TimedOut, Frames!Goto, Frames!sender, Frames!history
  <2> QED
    BY <2>1, QuietSteps, EmptySeq DEF Stream, FramesInv, FrameTypes
<1>2. CASE Frames!GetBody
  <2>1. /\ accepted' = accepted /\ got' = got /\ out' = out /\ sending' = sending
        /\ unsent' = unsent /\ wire' = Tail(wire) /\ buf' = Append(buf, Head(wire)) /\ wire # <<>>
        /\ rpc = "body" /\ rpc' = "body" /\ need' = need /\ hdr' = hdr /\ Len(buf) < need
    BY <1>2 DEF Frames!GetBody, Frames!sender, Frames!history
  <2>2. Stream' = Stream /\ Tail(wire) \in Seq(Units) /\ Head(wire) \in Units
    BY <2>1, StreamMoves DEF FramesInv, Stream
  <2>3. Append(buf, Head(wire)) \in Seq(Units) /\ Len(buf') = Len(buf) + 1 /\ Len(buf) \in Nat
    BY <2>1, <2>2, AppendProperties DEF FramesInv, FrameTypes
  <2>4. need \in Nat /\ Len(buf') <= need
    BY <2>1, <2>3 DEF FramesInv, FrameTypes
  <2> QED
    BY <2>1, <2>2, <2>3, <2>4, QuietSteps DEF FramesInv, FrameTypes
<1>3. CASE Frames!Truncated \/ Frames!Disconnected
  <2>1. /\ accepted' = accepted /\ got' = got /\ out' = out /\ sending' = sending
        /\ unsent' = unsent /\ wire' = wire /\ buf' = <<>> /\ rpc' = "closed"
    BY <1>3 DEF Frames!Truncated, Frames!Disconnected, Frames!Goto, Frames!AfterTruncation,
                Frames!sender, Frames!history
  <2> QED
    BY <2>1, QuietSteps, EmptySeq DEF FramesInv, FrameTypes
<1>4. CASE UNCHANGED Frames!vars
  <2>1. /\ accepted' = accepted /\ got' = got /\ out' = out /\ sending' = sending
        /\ unsent' = unsent /\ wire' = wire /\ buf' = buf /\ rpc' = rpc /\ hdr' = hdr
        /\ need' = need
    BY <1>4 DEF Frames!vars, Frames!sender, Frames!receiver, Frames!history
  <2> QED
    BY <2>1, QuietSteps DEF FramesInv, FrameTypes, Stream
<1> QED
  BY <1>1, <1>2, <1>3, <1>4

(* What is read as a header is one: the size is that of its own body.      *)
LEMMA HeaderStep ==
    ASSUME Frames!FramesAssumption, FramesInv, Frames!GetHeader
    PROVE  FramesInv' /\ [Fits!Next]_(Fits!channelVars)
<1>1. /\ accepted' = accepted /\ got' = got /\ out' = out /\ sending' = sending
      /\ unsent' = unsent /\ wire' = Tail(wire) /\ wire # <<>> /\ rpc = "header"
  BY DEF Frames!GetHeader, Frames!sender, Frames!history
<1>2. /\ Head(wire) \in Units /\ Tail(wire) \in Seq(Units)
      /\ <<Head(wire)>> \o <<>> \o Tail(wire) = wire
  BY <1>1, StreamMoves DEF FramesInv
<1>3. Stream = wire /\ wire \in Seq(Units) /\ Len(wire) >= 1 /\ Head(wire) = wire[1]
  BY <1>1 DEF Stream, FramesInv, FrameTypes
<1>4. Head(wire).at = 0 /\ Head(wire).msg \in Fitting
  BY <1>1, <1>3, FirstIsAHeader DEF FramesInv, FrameTypes
<1>5. Frames!SizesAt(Head(wire)) = {Size[Head(wire).msg]} /\ Size[Head(wire).msg] \in Nat
  BY <1>4, UnitFacts DEF Frames!SizesAt, Fitting
<1>6. /\ buf' = <<>> /\ rpc' \in {"closed", "body"}
      /\ rpc' = "body" => hdr' = Head(wire) /\ need' = Size[Head(wire).msg]
  BY <1>5 DEF Frames!GetHeader, Frames!Goto
<1>7. rpc' # "closed" => Stream' = Stream
  BY <1>1, <1>2, <1>3, <1>6 DEF Stream
<1>8. Len(buf') = 0 /\ buf' \in Seq(Units)
  BY <1>6, EmptySeq
<1>9. rpc' = "body" => /\ hdr' \in Units /\ need' \in Nat /\ Len(buf') <= need'
                       /\ hdr'.at = 0 /\ hdr'.msg \in Messages /\ need' = Size[hdr'.msg]
  BY <1>2, <1>4, <1>5, <1>6, <1>8 DEF Fitting
<1> QED
  BY <1>1, <1>2, <1>7, <1>8, <1>9, QuietSteps

(* A frame that is returned is the first one accepted, and its body is its *)
(* own.                                                                    *)
LEMMA ReturnStep ==
    ASSUME Frames!FramesAssumption, FramesInv, Frames!Return
    PROVE  FramesInv' /\ Fits!Receive
<1>1. /\ rpc = "body" /\ Len(buf) = need /\ rpc' = "idle" /\ buf' = <<>>
      /\ got' = Append(got, Frames!Message) /\ wire' = wire
      /\ out' = out /\ sending' = sending /\ unsent' = unsent
      /\ accepted' = IF accepted = <<>> THEN <<>> ELSE Tail(accepted)
  BY DEF Frames!Return, Frames!Goto, Frames!sender
<1>2. PICK st : Splits(Stream, accepted, out, st) /\ Whole(Stream, accepted, st)
  BY <1>1 DEF FramesInv
<1>3. /\ hdr \in Units /\ buf \in Seq(Units) /\ wire \in Seq(Units) /\ out \in Seq(Units)
      /\ accepted \in Seq(Fitting) /\ hdr.at = 0 /\ need = Size[hdr.msg] /\ need \in Nat
  BY <1>1 DEF FramesInv, FrameTypes
<1>4. /\ Stream \in Seq(Units) /\ Len(Stream) = 1 + Len(buf) + Len(wire) /\ Stream[1] = hdr
      /\ \A k \in 1 .. Len(buf) : Stream[1 + k] = buf[k]
      /\ \A k \in 1 .. Len(wire) : Stream[1 + Len(buf) + k] = wire[k]
  <2>1. Stream = <<hdr>> \o buf \o wire
    BY <1>1 DEF Stream
  <2> QED
    BY <1>3, <2>1, ThreeParts
<1>5. Len(wire) \in Nat /\ Len(buf) \in Nat
  BY <1>3
<1>6. /\ accepted # <<>> /\ accepted[1] = hdr.msg
      /\ \A k \in 0 .. Size[accepted[1]] : Stream[k + 1] = Frames!Unit(accepted[1], k)
  <2>1. Len(Stream) >= 1 /\ Len(Stream) >= Size[Stream[1].msg] + 1
    <3>1. Size[Stream[1].msg] = need /\ Len(Stream) = 1 + need + Len(wire)
      BY <1>1, <1>3, <1>4
    <3>2. need \in Nat
      BY <1>3
    <3> QED
      BY <1>5, <3>1, <3>2
  <2>2. /\ accepted # <<>> /\ accepted[1] = Stream[1].msg
        /\ \A k \in 0 .. Size[accepted[1]] : Stream[k + 1] = Frames!Unit(accepted[1], k)
    BY <1>2, <1>3, <1>4, <2>1, WholeIsAccepted
  <2> QED
    BY <1>4, <2>2
<1>7. Frames!Message = accepted[1]
  <2> DEFINE f == <<hdr>> \o buf
             m == hdr.msg
  <2>1. /\ f \in Seq(Units) /\ Len(f) = need + 1
        /\ \A i \in 1 .. need + 1 : f[i] = Stream[i]
    <3>1. <<hdr>> \in Seq(Units) /\ Len(<<hdr>>) = 1 /\ <<hdr>>[1] = hdr
      BY <1>3
    <3>2. /\ f \in Seq(Units) /\ Len(f) = Len(<<hdr>>) + Len(buf)
          /\ \A i \in 1 .. Len(<<hdr>>) + Len(buf) :
                f[i] = IF i <= Len(<<hdr>>) THEN <<hdr>>[i] ELSE buf[i - Len(<<hdr>>)]
      BY <1>3, <3>1, ConcatProperties
    <3> HIDE DEF f
    <3>3. ASSUME NEW i \in 1 .. need + 1 PROVE f[i] = Stream[i]
      <4>1. CASE i = 1
        BY <1>1, <1>3, <1>4, <3>1, <3>2, <4>1
      <4>2. CASE i # 1
        <5>1. /\ i - 1 \in 1 .. Len(buf) /\ 1 + (i - 1) = i /\ ~(i <= 1)
              /\ i \in 1 .. Len(<<hdr>>) + Len(buf)
          BY <1>1, <1>3, <3>1, <4>2
        <5>2. f[i] = buf[i - 1]
          BY <3>1, <3>2, <5>1
        <5> QED
          BY <1>4, <5>1, <5>2
      <4> QED
        BY <4>1, <4>2
    <3> QED
      BY <1>1, <1>3, <3>1, <3>2, <3>3
  <2>2. \A i \in 1 .. need + 1 : f[i] = Frames!Unit(m, i - 1)
    <3> HIDE DEF f
    <3> TAKE i \in 1 .. need + 1
    <3>1. i - 1 \in 0 .. Size[accepted[1]] /\ (i - 1) + 1 = i
      BY <1>3, <1>6
    <3> QED
      BY <1>6, <2>1, <3>1
  <2>3. f = [i \in 1 .. need + 1 |-> f[i]]
    <3> HIDE DEF f
    <3> QED
      BY <1>3, <2>1
  <2> HIDE DEF f
  <2>4. f = [i \in 1 .. need + 1 |-> Frames!Unit(m, i - 1)]
    BY <2>2, <2>3
  <2>5. f = Frames!Frame(m)
    BY <1>3, <2>4 DEF Frames!Frame
  <2> QED
    BY <1>3, <1>6, <2>5 DEF Frames!Message, f
<1>8. Fits!Receive
  BY <1>1, <1>3, <1>6, <1>7 DEF Fits!Receive
<1>9. accepted' = Tail(accepted) /\ Tail(accepted) \in Seq(Fitting)
  BY <1>1, <1>3, <1>6, HeadTailProperties
<1>10. PICK t : /\ Splits(wire, Tail(accepted), out, t)
                /\ Len(Stream) = st[Len(accepted) + 1] => Len(wire) = t[Len(Tail(accepted)) + 1]
  <2>1. IsRest(wire, Stream, Size[accepted[1]] + 1)
    <3>1. Size[accepted[1]] + 1 = 1 + Len(buf) /\ Len(wire) = Len(Stream) - (1 + Len(buf))
      <4>1. Size[accepted[1]] = need /\ Len(Stream) = 1 + need + Len(wire)
        BY <1>1, <1>3, <1>4, <1>6
      <4>2. need \in Nat /\ Len(buf) = need
        BY <1>1, <1>3
      <4> QED
        BY <1>5, <4>1, <4>2
    <3>2. \A k \in 1 .. Len(wire) : wire[k] = Stream[1 + Len(buf) + k]
      BY <1>4
    <3> QED
      BY <3>1, <3>2 DEF IsRest
  <2> QED
    <3>1. /\ Stream \in Seq(Units) /\ accepted \in Seq(Fitting) /\ out \in Seq(Units)
          /\ wire \in Seq(Units) /\ accepted # <<>>
      BY <1>3, <1>4, <1>6
    <3>2. Splits(Stream, accepted, out, st)
      BY <1>2
    <3> QED
      BY <2>1, <3>1, <3>2, DropFirst
<1>11. FrameTypes'
  BY <1>1, <1>9, EmptySeq DEF FramesInv, FrameTypes
<1>12. Stream' = wire
  BY <1>1 DEF Stream
<1>13. Splits(Stream, accepted, out, t)' /\ Whole(Stream, accepted, t)'
  <2>1. Splits(Stream', accepted', out', t)
    BY <1>1, <1>9, <1>10, <1>12
  <2>2. Whole(Stream, accepted, t)'
    BY <1>1, <1>2, <1>9, <1>10, <1>12 DEF Whole
  <2> QED
    BY <2>1, <2>2 DEF Splits, Begun
<1> QED
  BY <1>1, <1>8, <1>11, <1>13 DEF FramesInv

LEMMA SenderSteps ==
    ASSUME Frames!FramesAssumption, FramesInv,
           (\E m \in Messages : Frames!Send(m)) \/ Frames!SenderEnds
    PROVE  FramesInv' /\ [Fits!Next]_(Fits!channelVars)
<1>1. CASE Frames!SenderEnds
  <2>1. /\ wire' = wire /\ rpc' = rpc /\ hdr' = hdr /\ need' = need /\ buf' = buf
        /\ accepted' = accepted /\ got' = got /\ out' = <<>> /\ sending' = "closed" /\ unsent' = {}
    BY <1>1 DEF Frames!SenderEnds, Frames!receiver, Frames!history
  <2>2. FrameTypes'
    BY <2>1, EmptySeq DEF FramesInv, FrameTypes
  <2>3. ASSUME rpc' # "closed"
        PROVE  \E st : Splits(Stream, accepted, out, st)' /\ Whole(Stream, accepted, st)'
    <3>1. PICK st : Splits(Stream, accepted, out, st)
      BY <2>1, <2>3 DEF FramesInv
    <3>2. Stream' = Stream
      BY <2>1 DEF Stream
    <3>3. Splits(Stream, accepted, <<>>, st)
      <4>1. ASSUME NEW m \in Fitting, Begun(Stream, st[Len(accepted) + 1], out, m)
            PROVE  Begun(Stream, st[Len(accepted) + 1], <<>>, m)
        BY <4>1 DEF Begun
      <4> QED
        BY <3>1, <4>1 DEF Splits
    <3>4. Splits(Stream, accepted, out, st)'
      BY <2>1, <3>2, <3>3 DEF Splits, Begun
    <3> QED
      BY <2>1, <3>4 DEF Whole
  <2> QED
    BY <2>1, <2>2, <2>3 DEF FramesInv, Fits!channelVars
<1>2. ASSUME NEW m \in Messages, Frames!Send(m)
      PROVE  FramesInv' /\ UNCHANGED <<accepted, got>>
  <2>1. /\ wire' = wire /\ rpc' = rpc /\ hdr' = hdr /\ need' = need /\ buf' = buf
        /\ accepted' = accepted /\ got' = got /\ sending' = sending /\ unsent' \subseteq unsent
        /\ sending = "open" /\ out = <<>>
        /\ out' = IF Size[m] > MaxFrame THEN <<>> ELSE Frames!Frame(m)
    BY <1>2 DEF Frames!Send, Frames!receiver, Frames!history
  <2>2. CASE Size[m] > MaxFrame
    <3>1. out' = out
      BY <2>1, <2>2
    <3>2. FrameTypes'
      BY <2>1, <3>1 DEF FramesInv, FrameTypes
    <3>3. ASSUME rpc' # "closed"
          PROVE  \E st : Splits(Stream, accepted, out, st)' /\ Whole(Stream, accepted, st)'
      BY <2>1, <3>1, <3>3 DEF FramesInv, Splits, Begun, Whole, Stream
    <3> QED
      BY <2>1, <3>2, <3>3 DEF FramesInv
  <2>3. CASE ~(Size[m] > MaxFrame)
    <3>1. /\ m \in Fitting /\ Size[m] \in Nat /\ out' = Frames!Frame(m)
      BY <2>1, <2>3, UnitFacts DEF Fitting
    <3>2. /\ out' \in Seq(Units) /\ Len(out') = Size[m] + 1
          /\ \A j \in 1 .. Size[m] + 1 : out'[j] = Frames!Unit(m, j - 1)
      <4>1. \A j \in 1 .. Size[m] + 1 : Frames!Unit(m, j - 1) \in Units
        <5> TAKE j \in 1 .. Size[m] + 1
        <5>1. j - 1 \in Nat
          BY <3>1
        <5> QED
          BY <5>1, UnitFacts
      <4> QED
        BY <3>1, <4>1 DEF Frames!Frame
    <3>3. FrameTypes'
      BY <2>1, <3>2 DEF FramesInv, FrameTypes
    <3>4. ASSUME rpc' # "closed"
          PROVE  \E st : Splits(Stream, accepted, out, st)' /\ Whole(Stream, accepted, st)'
      <4>1. PICK st : Splits(Stream, accepted, out, st) /\ Whole(Stream, accepted, st)
        BY <2>1, <3>4 DEF FramesInv
      <4>2. Stream' = Stream /\ Stream \in Seq(Units)
        BY <2>1, StreamIsASeq DEF Stream, FramesInv
      <4> DEFINE s == st[Len(accepted) + 1]
      <4>3. Len(Stream) = s /\ Len(Stream) \in Nat
        BY <2>1, <4>1, <4>2 DEF Whole
      <4>4. Len(Stream) - s = 0 /\ Len(Stream) - s - 1 = -1
        BY <4>3
      <4> HIDE DEF s
      <4>5. Begun(Stream, s, out', m)
        <5>1. Len(Stream) - s <= Size[m] /\ Len(Stream) - s + Len(out') = Size[m] + 1
          BY <3>1, <3>2, <4>4
        <5>2. \A j \in 1 .. Len(out') : out'[j] = Frames!Unit(m, Len(Stream) - s + j - 1)
          <6> TAKE j \in 1 .. Len(out')
          <6>1. j \in 1 .. Size[m] + 1 /\ Len(Stream) - s + j - 1 = j - 1
            BY <3>1, <3>2, <4>4
          <6> QED
            BY <3>2, <6>1
        <5>3. 0 .. Len(Stream) - s - 1 = {}
          BY <4>4
        <5> QED
          BY <5>1, <5>2, <5>3 DEF Begun
      <4>6. Splits(Stream, accepted, out', st)
        BY <3>1, <4>1, <4>5 DEF Splits, s
      <4>7. Splits(Stream, accepted, out, st)'
        BY <2>1, <4>2, <4>6 DEF Splits, Begun
      <4>8. out' # <<>>
        BY <3>1, <3>2
      <4> QED
        BY <4>7, <4>8 DEF Whole
    <3> QED
      BY <2>1, <3>3, <3>4 DEF FramesInv
  <2> QED
    BY <2>2, <2>3
<1> QED
  BY <1>1, <1>2 DEF Fits!channelVars

(* A unit is put on the wire; with the last one the message is accepted.   *)
LEMMA PutStep ==
    ASSUME Frames!FramesAssumption, FramesInv, Frames!Put
    PROVE  FramesInv' /\ [Fits!Next]_(Fits!channelVars)
<1>1. /\ rpc' = rpc /\ hdr' = hdr /\ need' = need /\ buf' = buf
      /\ sending' = sending /\ unsent' = unsent /\ got' = got /\ out # <<>>
  BY DEF Frames!Put, Frames!receiver
<1>2. CASE rpc = "closed"
  <2>1. out' = <<>> /\ wire' = wire /\ accepted' = accepted
    BY <1>2 DEF Frames!Put
  <2>2. FrameTypes'
    BY <1>1, <2>1, EmptySeq DEF FramesInv, FrameTypes
  <2> QED
    BY <1>1, <1>2, <2>1, <2>2 DEF FramesInv, Fits!channelVars
<1>3. CASE rpc # "closed"
  <2> DEFINE x == Head(out)
  <2>1. /\ wire' = Append(wire, x) /\ out' = Tail(out)
        /\ accepted' = IF Tail(out) = <<>> THEN Append(accepted, x.msg) ELSE accepted
    BY <1>3 DEF Frames!Put
  <2>2. /\ out \in Seq(Units) /\ accepted \in Seq(Fitting) /\ wire \in Seq(Units)
        /\ FrameTypes /\ Stream \in Seq(Units)
    BY StreamIsASeq DEF FramesInv, FrameTypes
  <2>3. x \in Units /\ Tail(out) \in Seq(Units) /\ Len(Tail(out)) = Len(out) - 1
    BY <1>1, <2>2, HeadTailProperties
  <2>4. PICK st : Splits(Stream, accepted, out, st)
    BY <1>3 DEF FramesInv
  <2> HIDE DEF x
  <2>5. Stream' = Append(Stream, x) /\ wire' \in Seq(Units)
    <3>1. rpc = "body" => <<hdr>> \o buf \o wire' = Append(Stream, x)
      BY <2>1, <2>2, <2>3, StreamGrows
    <3>2. rpc # "body" => wire' = Append(Stream, x)
      BY <2>1 DEF Stream
    <3>3. wire' \in Seq(Units)
      BY <2>1, <2>2, <2>3, StreamGrows
    <3> QED
      BY <1>1, <3>1, <3>2, <3>3 DEF Stream
  <2>6. CASE Tail(out) # <<>>
    <3>1. accepted' = accepted /\ out' # <<>>
      BY <2>1, <2>6
    <3>2. FrameTypes'
      BY <1>1, <2>1, <2>3, <2>5, <3>1 DEF FramesInv, FrameTypes
    <3>3. Splits(Append(Stream, x), accepted, Tail(out), st)
      <4>1. /\ Stream \in Seq(Units) /\ accepted \in Seq(Fitting) /\ out \in Seq(Units)
            /\ out # <<>> /\ Tail(out) # <<>>
        BY <1>1, <2>2, <2>6
      <4> QED
        BY <2>4, <4>1, PutMiddle DEF x
    <3>4. Splits(Stream, accepted, out, st)'
      <4>1. Splits(Stream', accepted', out', st)
        BY <2>1, <2>5, <3>1, <3>3
      <4> QED
        BY <4>1 DEF Splits, Begun
    <3> QED
      BY <1>1, <1>3, <3>1, <3>2, <3>4 DEF FramesInv, Whole, Fits!channelVars
  <2>7. CASE Tail(out) = <<>>
    <3>1. Len(out) = 1
      <4>1. Len(<<>>) = 0
        OBVIOUS
      <4>2. Len(Tail(out)) = 0
        BY <2>7, <4>1
      <4>3. Len(out) \in Nat
        BY <2>2
      <4> DEFINE a == Len(out)
                 b == Len(Tail(out))
      <4>4. a \in Nat /\ b = 0 /\ b = a - 1
        BY <2>3, <4>2, <4>3
      <4> HIDE DEF a, b
      <4>5. a = 1
        BY <4>4
      <4> QED
        BY <4>5 DEF a
    <3>2. PICK t : /\ x.msg \in Fitting
                   /\ Splits(Append(Stream, x), Append(accepted, x.msg), <<>>, t)
                   /\ Len(Append(Stream, x)) = t[Len(Append(accepted, x.msg)) + 1]
      <4>1. /\ x.msg \in Fitting
            /\ \E t : LET v  == Append(Stream, x)
                          ac == Append(accepted, x.msg)
                      IN  Splits(v, ac, <<>>, t) /\ Len(v) = t[Len(ac) + 1]
        BY <1>1, <2>2, <2>4, <3>1, PutLast DEF x
      <4> QED
        BY <4>1
    <3>3. /\ accepted' = Append(accepted, x.msg) /\ accepted' \in Seq(Fitting)
      BY <2>1, <2>2, <2>7, <3>2, AppendProperties
    <3>4. FrameTypes'
      BY <1>1, <2>1, <2>3, <2>5, <3>3 DEF FramesInv, FrameTypes
    <3>5. out' = <<>> /\ Splits(Stream, accepted, out, t)' /\ Whole(Stream, accepted, t)'
      <4>1. out' = <<>>
        BY <2>1, <2>7
      <4>2. Splits(Stream, accepted, out, t)'
        BY <2>5, <3>2, <3>3, <4>1 DEF Splits, Begun
      <4>3. Len(Stream') = t[Len(accepted') + 1]
        BY <2>5, <3>2, <3>3
      <4> QED
        BY <4>1, <4>2, <4>3 DEF Whole
    <3>6. Fits!Send(x.msg) /\ x.msg \in Fitting
      BY <1>1, <3>2, <3>3 DEF Fits!Send
    <3>7. FramesInv'
      BY <1>1, <3>4, <3>5 DEF FramesInv
    <3> QED
      BY <3>6, <3>7 DEF Fits!Next
  <2> QED
    BY <2>6, <2>7
<1> QED
  BY <1>2, <1>3

LEMMA FramesInitially ==
    ASSUME Frames!Init
    PROVE  FramesInv /\ Fits!Init
<1>1. /\ unsent = Messages /\ out = <<>> /\ sending = "open" /\ wire = <<>>
      /\ rpc = "idle" /\ buf = <<>> /\ accepted = <<>> /\ got = <<>>
  BY DEF Frames!Init
<1>2. FrameTypes
  BY <1>1, EmptySeq DEF FrameTypes
<1> DEFINE st == [i \in 1 .. 1 |-> 0]
<1>3. Splits(Stream, accepted, out, st) /\ Whole(Stream, accepted, st)
  BY <1>1 DEF Splits, Whole, Stream
<1> QED
  BY <1>1, <1>2, <1>3 DEF FramesInv, Fits!Init

(* The socket of ipc.c implements a channel: whatever the sender writes    *)
(* piecemeal, the receiver reads with a header and a body of its own, and  *)
(* timeouts, a frame over the limit or the end of either side come in      *)
(* between, nyxj_ipc_recv returns the messages that were sent, whole, each *)
(* once and in order. Those over the limit are never accepted: the channel *)
(* is one of the messages that fit, and so the one of ImplementsChannel.   *)
THEOREM FramesAreAChannel ==
    ASSUME Frames!FramesAssumption
    PROVE  Frames!Spec => Fits!Spec /\ Frames!ImplementsChannel
<1>1. ASSUME FramesInv, [Frames!Next]_(Frames!vars)
      PROVE  FramesInv' /\ [Fits!Next]_(Fits!channelVars)
  <2>1. CASE Frames!Return
    BY <1>1, <2>1, ReturnStep DEF Fits!Next
  <2> QED
    BY <1>1, <2>1, SenderSteps, PutStep, ReceiverSteps, HeaderStep DEF Frames!Next
<1>2. Frames!Spec => Fits!Spec
  <2>1. Frames!Init => FramesInv /\ Fits!Init
    BY FramesInitially
  <2>2. FramesInv /\ [Frames!Next]_(Frames!vars) => FramesInv' /\ [Fits!Next]_(Fits!channelVars)
    BY <1>1
  <2> QED
    BY <2>1, <2>2, PTL DEF Frames!Spec, Fits!Spec
<1>3. Fits!Spec => Frames!ImplementsChannel
  <2>1. Fits!Init => Frames!Channel!Init
    BY DEF Fits!Init, Frames!Channel!Init
  <2>2. [Fits!Next]_(Fits!channelVars) => [Frames!Channel!Next]_(Frames!Channel!channelVars)
    BY DEF Fits!Next, Fits!Send, Fits!Receive, Fits!channelVars, Fitting, Frames!Channel!Next,
           Frames!Channel!Send, Frames!Channel!Receive, Frames!Channel!channelVars
  <2> QED
    BY <2>1, <2>2, PTL DEF Fits!Spec, Frames!ImplementsChannel, Frames!Channel!Spec
<1> QED
  BY <1>2, <1>3

-----------------------------------------------------------------------------
(* EcoThrottle, for any thresholds and any number of threads.              *)
CONSTANTS Temps, Loads, EcoTemp, EcoLoad, Threads, MaxRun
VARIABLES temp, load, level, calm, limit, run

Eco == INSTANCE EcoThrottle

(* The counter of calm samples is cleared by the very sample it counted.   *)
EcoInv == Eco!LimitFollowsLevel /\ calm = 0

LEMMA WorkersOfALevel ==
    ASSUME Eco!EcoAssumption, NEW v \in 0 .. 2
    PROVE  LET m == Eco!Clamp(Eco!Workers(v)) IN
           /\ m \in 1 .. Threads
           /\ v = 0 => m = Threads
           /\ v = 1 => 2 * m \in {Threads - 1, Threads} \/ (Threads = 1 /\ m = 1)
           /\ v = 2 => m = 1
BY DEF Eco!EcoAssumption, Eco!Clamp, Eco!Workers

LEMMA SampledIsALevel ==
    ASSUME NEW t, NEW l
    PROVE  Eco!Sampled(t, l) \in 0 .. 2
BY DEF Eco!Sampled, Eco!BusyLevel, Eco!HotLevel

LEMMA EcoStep ==
    ASSUME Eco!EcoAssumption, EcoInv, [Eco!Next]_(Eco!vars)
    PROVE  /\ EcoInv'
           /\ [level' >= level /\ Eco!ByHysteresis]_(Eco!vars)
<1>1. CASE UNCHANGED Eco!vars
  BY <1>1 DEF Eco!vars, EcoInv, Eco!LimitFollowsLevel, Eco!TypeOK
<1>2. ASSUME NEW t \in Temps, NEW l \in Loads, Eco!Tick(t, l)
      PROVE  EcoInv' /\ level' >= level /\ Eco!ByHysteresis
  <2> DEFINE s == Eco!Sampled(t, l)
  <2>1. s \in 0 .. 2 /\ level \in 0 .. 2 /\ calm = 0
    BY SampledIsALevel DEF EcoInv, Eco!LimitFollowsLevel, Eco!TypeOK
  <2>2. Eco!Target(s) = IF s < level THEN level ELSE s
    BY <2>1 DEF Eco!Target, Eco!Counted
  <2>3. /\ temp' = t /\ load' = l /\ level' = Eco!Target(s)
        /\ calm' = IF Eco!Target(s) >= level \/ Eco!Target(s) # level THEN 0 ELSE Eco!Counted(s)
        /\ limit' = IF Eco!Target(s) # level THEN Eco!Clamp(Eco!Workers(Eco!Target(s))) ELSE limit
        /\ run' = IF s >= level \/ Eco!Target(s) # level THEN 0
                  ELSE IF run < MaxRun THEN run + 1 ELSE run
    BY <1>2 DEF Eco!Tick
  <2> HIDE DEF s
  <2>4. level' \in 0 .. 2 /\ level' >= level /\ level' >= s /\ calm' = 0
    BY <2>1, <2>2, <2>3
  <2>5. run' \in 0 .. MaxRun
    BY <2>3 DEF EcoInv, Eco!LimitFollowsLevel, Eco!TypeOK, Eco!EcoAssumption
  <2>6. CASE level' = level
    <3>1. limit' = limit
      BY <2>3, <2>6
    <3>2. EcoInv'
      BY <1>2, <2>3, <2>4, <2>5, <2>6, <3>1 DEF EcoInv, Eco!LimitFollowsLevel, Eco!TypeOK
    <3>3. Eco!ByHysteresis
      BY <2>1, <2>2, <2>3, <2>6 DEF Eco!ByHysteresis, s
    <3> QED
      BY <2>4, <3>2, <3>3
  <2>7. CASE level' # level
    <3>1. limit' = Eco!Clamp(Eco!Workers(level'))
      BY <2>3, <2>7
    <3>2. EcoInv'
      BY <1>2, <2>3, <2>4, <2>5, <3>1, WorkersOfALevel DEF EcoInv, Eco!LimitFollowsLevel, Eco!TypeOK
    <3>3. Eco!ByHysteresis
      BY <2>1, <2>2, <2>3, <2>4 DEF Eco!ByHysteresis, s
    <3> QED
      BY <2>4, <3>2, <3>3
  <2> QED
    BY <2>6, <2>7
<1> QED
  BY <1>1, <1>2 DEF Eco!Next

(* heartbeat_tick: the pool runs what its level allows, half of the        *)
(* threads at 1, one at 2, all of them at 0, and never fewer than one.     *)
THEOREM LimitFollows ==
    ASSUME Eco!EcoAssumption
    PROVE  Eco!Spec => []Eco!LimitFollowsLevel
<1>1. Eco!Init => EcoInv
  BY DEF Eco!Init, EcoInv, Eco!LimitFollowsLevel, Eco!TypeOK, Eco!EcoAssumption
<1>2. EcoInv /\ [Eco!Next]_(Eco!vars) => EcoInv'
  BY EcoStep
<1>3. EcoInv => Eco!LimitFollowsLevel
  BY DEF EcoInv
<1> QED
  BY <1>1, <1>2, <1>3, PTL DEF Eco!Spec

(* The level of heartbeat_tick follows a worse sample at once and does not *)
(* go down early. Indeed it never goes down: the counter of calm samples   *)
(* is cleared by the sample it has just counted, so that three in a row    *)
(* are not reached whatever the thresholds and the samples are.            *)
THEOREM LevelNeverFalls ==
    ASSUME Eco!EcoAssumption
    PROVE  Eco!Spec => [][level' >= level]_(Eco!vars) /\ Eco!Hysteresis
<1>1. Eco!Init => EcoInv
  BY DEF Eco!Init, EcoInv, Eco!LimitFollowsLevel, Eco!TypeOK, Eco!EcoAssumption
<1>2. EcoInv /\ [Eco!Next]_(Eco!vars)
        => EcoInv' /\ [level' >= level]_(Eco!vars) /\ [Eco!ByHysteresis]_(Eco!vars)
  BY EcoStep
<1> QED
  BY <1>1, <1>2, PTL DEF Eco!Spec, Eco!Hysteresis

-----------------------------------------------------------------------------
(* Replicas, for any values, those that do not equal themselves included,  *)
(* and any number of faults of the memory.                                 *)
CONSTANTS Values, equals(_, _), None, MaxFaults
VARIABLES written, replica, faults, total

Copies == INSTANCE Replicas

(* The copies that are not what was written.                               *)
Wrong(r) == {i \in 0 .. 2 : r[i] # written}

CopiesInv ==
    /\ written \in Values /\ replica \in [0 .. 2 -> Values] /\ faults \in Nat
    /\ faults = 0 => Wrong(replica) = {}
    /\ faults = 1 => \A i, j \in Wrong(replica) : i = j

LEMMA SameIsEqual ==
    ASSUME Copies!ReplicasAssumption, NEW a \in Values, NEW b \in Values
    PROVE  Copies!Same(a, b) <=> a = b /\ equals(a, a)
BY DEF Copies!ReplicasAssumption, Copies!Same, Copies!checksum

(* The winner equals itself, and another copy is like it. There is none if *)
(* no two copies are alike that equal themselves.                          *)
LEMMA Winners ==
    ASSUME Copies!ReplicasAssumption, NEW r \in [0 .. 2 -> Values]
    PROVE  /\ Copies!Winner(r) \in {-1, 0, 1}
           /\ Copies!Winner(r) = -1 => \A i, j \in 0 .. 2 : i # j /\ r[i] = r[j] => ~equals(r[i], r[i])
           /\ Copies!Winner(r) # -1
                => /\ equals(r[Copies!Winner(r)], r[Copies!Winner(r)])
                   /\ \E j \in 0 .. 2 : j # Copies!Winner(r) /\ r[j] = r[Copies!Winner(r)]
<1>1. r[0] \in Values /\ r[1] \in Values /\ r[2] \in Values
  OBVIOUS
<1> DEFINE Alike(i, j) == r[i] = r[j] /\ equals(r[i], r[i])
<1>2. \A i, j \in 0 .. 2 : Copies!Same(r[i], r[j]) <=> Alike(i, j)
  BY SameIsEqual
<1>3. 0 .. 2 = {0, 1, 2}
  OBVIOUS
<1>4. \/ Copies!Winner(r) = 0 /\ (Alike(0, 1) \/ Alike(0, 2))
      \/ Copies!Winner(r) = 1 /\ Alike(1, 2)
      \/ Copies!Winner(r) = -1 /\ ~Alike(0, 1) /\ ~Alike(0, 2) /\ ~Alike(1, 2)
  BY <1>2, <1>3 DEF Copies!Winner
<1>5. CASE Copies!Winner(r) = -1
  <2>1. ~Alike(0, 1) /\ ~Alike(0, 2) /\ ~Alike(1, 2)
    BY <1>4, <1>5
  <2> QED
    BY <1>3, <1>5, <2>1
<1>6. CASE Copies!Winner(r) = 0 /\ (Alike(0, 1) \/ Alike(0, 2))
  BY <1>3, <1>6
<1>7. CASE Copies!Winner(r) = 1 /\ Alike(1, 2)
  BY <1>3, <1>7
<1> QED
  BY <1>4, <1>5, <1>6, <1>7

(* With at most one fault the winner is what was written; there is one if  *)
(* that equals itself, and none if it does not.                            *)
LEMMA OneFault ==
    ASSUME Copies!ReplicasAssumption, CopiesInv, faults <= 1
    PROVE  /\ Copies!Winner(replica) # -1 => replica[Copies!Winner(replica)] = written
           /\ Copies!Winner(replica) # -1 <=> equals(written, written)
<1>1. faults \in {0, 1} /\ 0 .. 2 = {0, 1, 2}
  BY DEF CopiesInv
<1>2. \A i, j \in Wrong(replica) : i = j
  BY <1>1 DEF CopiesInv
<1>3. \A i, j \in 0 .. 2 : i # j => replica[i] = written \/ replica[j] = written
  BY <1>2 DEF Wrong
<1>4. replica \in [0 .. 2 -> Values]
  BY DEF CopiesInv
<1>5. ASSUME Copies!Winner(replica) # -1
      PROVE  replica[Copies!Winner(replica)] = written /\ equals(written, written)
  <2>1. PICK j \in 0 .. 2 : j # Copies!Winner(replica) /\ replica[j] = replica[Copies!Winner(replica)]
    BY <1>4, <1>5, Winners
  <2>2. Copies!Winner(replica) \in 0 .. 2
    BY <1>1, <1>4, <1>5, Winners
  <2>3. replica[Copies!Winner(replica)] = written
    BY <1>3, <2>1, <2>2
  <2> QED
    BY <1>4, <1>5, <2>3, Winners
<1>6. ASSUME Copies!Winner(replica) = -1
      PROVE  ~equals(written, written)
  <2>1. PICK i, j \in 0 .. 2 : i # j /\ replica[i] = written /\ replica[j] = written
    BY <1>1, <1>3
  <2> QED
    BY <1>4, <1>6, <2>1, Winners
<1> QED
  BY <1>5, <1>6

(* A read replaces copies by the winner only.                              *)
LEMMA Repairs ==
    ASSUME Copies!ReplicasAssumption, NEW r \in [0 .. 2 -> Values], NEW lost,
           Copies!Winner(r) # -1, NEW i \in 0 .. 2
    PROVE  /\ Copies!Repaired(r, lost) \in [0 .. 2 -> Values]
           /\ Copies!Repaired(r, lost)[i] \in {r[i], r[Copies!Winner(r)]}
<1>1. Copies!Winner(r) \in 0 .. 2
  BY Winners
<1>2. Copies!tmr_read(r) = r[Copies!Winner(r)] /\ r[Copies!Winner(r)] \in Values
  BY <1>1 DEF Copies!tmr_read
<1>3. DOMAIN r = 0 .. 2
  OBVIOUS
<1> QED
  BY <1>2, <1>3 DEF Copies!Repaired

LEMMA CopiesStep ==
    ASSUME Copies!ReplicasAssumption, CopiesInv, [Copies!Next]_(Copies!vars)
    PROVE  CopiesInv'
<1> USE DEF CopiesInv
<1>1. ASSUME NEW lost \in SUBSET (0 .. 2), Copies!Read(lost)
      PROVE  CopiesInv'
  <2>1. /\ Copies!Winner(replica) # -1 /\ written' = written
        /\ replica' = Copies!Repaired(replica, lost)
        /\ faults' = IF \A i \in 0 .. 2 : replica'[i] = written THEN 0 ELSE faults
    BY <1>1 DEF Copies!Read
  <2>2. /\ replica' \in [0 .. 2 -> Values]
        /\ \A i \in 0 .. 2 : replica'[i] \in {replica[i], replica[Copies!Winner(replica)]}
    BY <2>1, Repairs
  <2>3. CASE \A i \in 0 .. 2 : replica'[i] = written
    BY <2>1, <2>2, <2>3 DEF Wrong
  <2>4. CASE ~\A i \in 0 .. 2 : replica'[i] = written
    <3>1. faults' = faults
      BY <2>1, <2>4
    <3>2. faults <= 1 => Wrong(replica)' \subseteq Wrong(replica)
      BY <2>1, <2>2, OneFault DEF Wrong
    <3> QED
      BY <2>1, <2>2, <2>4, <3>1, <3>2 DEF Wrong
  <2> QED
    BY <2>3, <2>4
<1>2. ASSUME NEW v \in Values, Copies!Write(v)
      PROVE  CopiesInv'
  BY <1>2 DEF Copies!Write, Copies!Stored, Wrong
<1>3. ASSUME NEW i \in 0 .. 2, NEW v \in Values, Copies!Corrupt(i, v)
      PROVE  CopiesInv'
  <2>1. /\ replica' = [replica EXCEPT ![i] = v] /\ faults' = faults + 1 /\ written' = written
    BY <1>3 DEF Copies!Corrupt
  <2>2. replica' \in [0 .. 2 -> Values] /\ \A j \in 0 .. 2 : j # i => replica'[j] = replica[j]
    BY <2>1
  <2>3. faults' \in Nat /\ faults' # 0 /\ (faults' = 1 => faults = 0)
    BY <2>1
  <2>4. ASSUME faults' = 1
        PROVE  \A j \in Wrong(replica)' : j = i
    <3>1. Wrong(replica) = {}
      BY <2>3, <2>4
    <3> QED
      BY <2>1, <2>2, <3>1 DEF Wrong
  <2> QED
    BY <2>1, <2>2, <2>3, <2>4
<1>4. CASE UNCHANGED Copies!vars
  BY <1>4 DEF Copies!vars, Wrong
<1> QED
  BY <1>1, <1>2, <1>3, <1>4 DEF Copies!Next

(* nyxj_tmr_read and nyxj_parse_verified: one fault since the copies were  *)
(* last alike shows in no read, of a value that equals itself or not, a    *)
(* wrong read takes two, and one fault in one of two parses is never taken *)
(* for the text.                                                           *)
THEOREM OneFaultIsMasked ==
    ASSUME Copies!ReplicasAssumption
    PROVE  Copies!Spec => []Copies!MasksOneFault
<1>1. Copies!Init => CopiesInv
  BY DEF Copies!Init, CopiesInv, Wrong
<1>2. CopiesInv /\ [Copies!Next]_(Copies!vars) => CopiesInv'
  BY CopiesStep
<1>3. CopiesInv => Copies!MasksOneFault
  <2> SUFFICES ASSUME CopiesInv PROVE Copies!MasksOneFault
    OBVIOUS
  <2>1. faults <= 1 => Copies!tmr_read(replica) = IF equals(written, written) THEN written ELSE None
    BY OneFault DEF Copies!tmr_read
  <2>2. ASSUME Copies!tmr_read(replica) \notin {None, written}
        PROVE  \E i, j \in 0 .. 2 : i # j /\ replica[i] # written /\ replica[j] # written
    <3>1. Copies!Winner(replica) # -1 /\ replica \in [0 .. 2 -> Values]
      BY <2>2 DEF Copies!tmr_read, CopiesInv
    <3>2. PICK j \in 0 .. 2 : j # Copies!Winner(replica) /\ replica[j] = replica[Copies!Winner(replica)]
      BY <3>1, Winners
    <3>3. Copies!Winner(replica) \in 0 .. 2
      BY <3>1, Winners
    <3>4. replica[Copies!Winner(replica)] # written
      BY <2>2, <3>1 DEF Copies!tmr_read
    <3> QED
      BY <3>2, <3>3, <3>4
  <2>3. \A i, j \in 0 .. 2 : i # j /\ written \in {replica[i], replica[j]} =>
           Copies!parse_verified(replica[i], replica[j]) \in {written, None}
    <3> TAKE i, j \in 0 .. 2
    <3> HAVE i # j /\ written \in {replica[i], replica[j]}
    <3>1. CASE Copies!Same(replica[i], replica[j])
      BY <3>1 DEF Copies!parse_verified, Copies!Same, Copies!checksum
    <3>2. CASE ~Copies!Same(replica[i], replica[j])
      BY <3>2 DEF Copies!parse_verified
    <3> QED
      BY <3>1, <3>2
  <2> QED
    BY <2>1, <2>2, <2>3 DEF Copies!MasksOneFault
<1> QED
  BY <1>1, <1>2, <1>3, PTL DEF Copies!Spec
===============================================================================
