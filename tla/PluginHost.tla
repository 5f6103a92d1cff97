------------------------------ MODULE PluginHost ------------------------------
(* Plugins: src/net/plugin.c loads shared libraries, whose init registers  *)
(* routes (nyxj_app_route_ex of src/net/app.c); the server loads them one  *)
(* after the other and goes on when one fails; nyxj_app_destroy drains the *)
(* pool, lets the connections go, frees the routes and unloads them.       *)
EXTENDS Naturals, Sequences, SequencesExt

CONSTANTS Plugins,
          Jobs          \* requests for a route of a plugin

VARIABLES
  lib,          \* [Plugins -> "none" | "init" | "open" | "shut" | "closed"]
  slots,        \* app->plugins
  routes,       \* plugins that have routes registered
  job,          \* [Jobs -> "none" | "queued" | "running" | "over"]
  owner,        \* the plugin whose handler a job calls
  failed,       \* plugins whose load failed (history)
  life          \* "setup", "running", and what nyxj_app_destroy has done last

vars == <<lib, slots, routes, job, owner, failed, life>>

Init ==
  /\ lib = [p \in Plugins |-> "none"] /\ slots = <<>> /\ routes = {}
  /\ job = [j \in Jobs |-> "none"] /\ owner = [j \in Jobs |-> "none"]
  /\ failed = {} /\ life = "setup"

Becomes(p, what) == lib' = [lib EXCEPT ![p] = what]

(* dlopen, dlsym and describe; without them, or for another version of the *)
(* API, the library is closed again.                                       *)
Open(p) ==
  /\ life = "setup" /\ lib[p] = "none" /\ \A q \in Plugins : lib[q] # "init"
  /\ \/ Becomes(p, "init") /\ UNCHANGED failed
     \/ Becomes(p, "closed") /\ failed' = failed \cup {p}
  /\ UNCHANGED <<slots, routes, job, owner, life>>

Register(p) ==
  /\ lib[p] = "init"
  /\ routes' = routes \cup {p}
  /\ UNCHANGED <<lib, slots, job, owner, failed, life>>

(* init returns 0 and there is memory for the slot.                        *)
Loaded(p) ==
  /\ lib[p] = "init"
  /\ Becomes(p, "open") /\ slots' = Append(slots, p)
  /\ UNCHANGED <<routes, job, owner, failed, life>>

(* init gives up, or there is no memory for the slot. The library is       *)
(* closed, but the routes it has registered stay.                          *)
LoadFails(p) ==
  /\ lib[p] = "init"
  /\ Becomes(p, "closed") /\ failed' = failed \cup {p}
  /\ UNCHANGED <<slots, routes, job, owner, life>>

Run ==
  /\ life = "setup" /\ \A p \in Plugins : lib[p] # "init"
  /\ life' = "running"
  /\ UNCHANGED <<lib, slots, routes, job, owner, failed>>

-----------------------------------------------------------------------------
(* A request for a route of p: the pool runs the handler of an ASYNC one,  *)
(* the event loop that of another. mg_mgr_free, which lets the connections *)
(* go, still dispatches what they sent, and finds no pool then.            *)
Dispatch(j, p) ==
  /\ job[j] = "none" /\ p \in routes
  /\ \/ life = "running" /\ job' = [job EXCEPT ![j] = "queued"]
     \/ life \in {"running", "drained"} /\ job' = [job EXCEPT ![j] = "loop"]
  /\ owner' = [owner EXCEPT ![j] = p]
  /\ UNCHANGED <<lib, slots, routes, failed, life>>

Start(j) ==
  /\ job[j] = "queued" /\ job' = [job EXCEPT ![j] = "pool"]
  /\ UNCHANGED <<lib, slots, routes, owner, failed, life>>

End(j) ==
  /\ job[j] \in {"loop", "pool"} /\ job' = [job EXCEPT ![j] = "over"]
  /\ UNCHANGED <<lib, slots, routes, owner, failed, life>>

-----------------------------------------------------------------------------
(* The thread of nyxj_app_destroy is the event loop's.                     *)
Free == \A j \in Jobs : job[j] # "loop"

(* A mistake: that the pool drops what it has not started, and does not    *)
(* wait for what it has.                                                   *)
Dropped == TRUE
Drained == \A j \in Jobs : job[j] \notin {"queued", "pool"}

Step(from, to) == life = from /\ Free /\ life' = to

DestroyPool ==
  /\ Step("running", "drained") \/ Step("setup", "drained")
  /\ Drained /\ \A p \in Plugins : lib[p] # "init"
  /\ UNCHANGED <<lib, slots, routes, job, owner, failed>>

FreeRoutes ==
  /\ Step("drained", "unloading") /\ routes' = {}
  /\ UNCHANGED <<lib, slots, job, owner, failed>>

(* nyxj_plugins_unload, the last one first.                                *)
Shutdown ==
  /\ life = "unloading" /\ slots # <<>> /\ lib[Last(slots)] = "open"
  /\ Becomes(Last(slots), "shut")
  /\ UNCHANGED <<slots, routes, job, owner, failed, life>>

Close ==
  /\ life = "unloading" /\ slots # <<>> /\ lib[Last(slots)] = "shut"
  /\ Becomes(Last(slots), "closed") /\ slots' = Front(slots)
  /\ UNCHANGED <<routes, job, owner, failed, life>>

Next ==
  \/ \E p \in Plugins : Open(p) \/ Register(p) \/ Loaded(p) \/ LoadFails(p)
  \/ Run
  \/ \E j \in Jobs : (\E p \in Plugins : Dispatch(j, p)) \/ Start(j) \/ End(j)
  \/ DestroyPool \/ FreeRoutes \/ Shutdown \/ Close

Spec == Init /\ [][Next]_vars

-----------------------------------------------------------------------------
(* No handler of a plugin that was loaded runs, or waits to be run, once   *)
(* the plugin is shut down or its library closed; a route of it that can   *)
(* be found leads into an open library; and no library is left open at the *)
(* end. (A plugin whose load failed after it had registered a route is the *)
(* exception: nobody takes its routes back.)                               *)
NoCallIntoAClosedLibrary ==
  /\ \A j \in Jobs : job[j] \in {"queued", "pool", "loop"} => lib[owner[j]] = "open" \/ owner[j] \in failed
  /\ life # "setup" => \A p \in routes \ failed : lib[p] = "open"
  /\ life = "unloading" /\ slots = <<>> => \A p \in Plugins : lib[p] \in {"none", "closed"}
=============================================================================
