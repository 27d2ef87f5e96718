-------------------------------- MODULE Hooks --------------------------------
(***************************************************************************)
(* Loadable modules and their hooks (modules.c).  A module is loaded and   *)
(* unloaded by an administrator; its code runs in bircmodule_init, and in  *)
(* its hooks, which call_hooks calls one after the other while they add    *)
(* and delete hooks or end a client, for whom the sign-off hooks are       *)
(* called in turn.                                                         *)
(*                                                                         *)
(* What a module's code does is arbitrary, except that it adds no hook     *)
(* while it is shut down.  It may delete the hook that is being called:    *)
(* call_hooks then reads lp->next of a link that was freed.  Such a call   *)
(* is astray (its lp is NoHook), and what it does next is left open.       *)
(***************************************************************************)
EXTENDS LinkedLists

CONSTANTS
  Mods,        \* modules on disk
  HookIds,     \* hook structures; one that was freed may be used again
  NoHook,      \* a null pointer
  MaxDepth     \* bound: calls of call_hooks inside one another

\* Of the eleven types one stands for those whose hooks may flush the client.
HookTypes == {"access", "signoff", "load", "unload"}
HookRecs  == [owner : Mods, type : HookTypes]

ASSUME HooksAssumption ==
  NoHook \notin HookIds \cup Mods \cup HookRecs /\ MaxDepth \in Nat \ {0}

VARIABLES
  module_list, \* loaded modules, newest first
  hook,        \* hook[h]: [owner, type], or NoHook
  all_hooks,   \* all hooks, newest first
  hooklist,    \* hooklist[t]: the hooks of type t, newest first
  calls,       \* call_hooks in progress, innermost last: its type, the module whose
               \* function runs, the hook it is at (NoHook: astray), those it began
               \* with (due) and has called, as far as they exist
  doing        \* the module that is being loaded or unloaded

hookVars == <<module_list, hook, all_hooks, hooklist, calls, doing>>

NoModule == [step |-> "none", mod |-> NoHook]
Lost     == [step |-> "lost", mod |-> NoHook]  \* it jumped into freed memory
\* The module whose code runs: its init, or the hook that is being called.
Running(m) == IF calls # <<>> THEN Last(calls).mod = m
              ELSE doing = [step |-> "init", mod |-> m]

----------------------------------------------------------------------------
\* call_hooks for type t: its loop begins, unless there is nothing to call.
Begin(cs, lists, t) ==
  IF lists[t] = <<>> THEN cs
  ELSE Append(cs, [type |-> t, mod |-> hook[Head(lists[t])].owner, lp |-> Head(lists[t]),
                   due |-> Range(lists[t]), called |-> {Head(lists[t])}])

\* An event of the server, or a hook that ends a client.
call_hooks(t) ==
  /\ doing = NoModule \/ calls # <<>>
  /\ IF calls = <<>> THEN t = "access" \/ t = "signoff" ELSE t = "signoff" /\ Len(calls) < MaxDepth
  /\ hooklist[t] # <<>>
  /\ calls' = Begin(calls, hooklist, t)
  /\ UNCHANGED <<module_list, hook, all_hooks, hooklist, doing>>

\* The hook function returns: lp->next, or the end of the call; FLUSH_BUFFER ends
\* it for the types that look at the result.
hook_returns(flush) ==
  LET f == Last(calls)
      l == hooklist[f.type]
      i == CHOOSE i \in DOMAIN l : l[i] = f.lp
  IN /\ calls # <<>> /\ f.lp # NoHook /\ (flush => f.type = "access")
     /\ calls' = IF flush \/ i = Len(l) THEN Front(calls)
                 ELSE Append(Front(calls), [f EXCEPT !.mod = hook[l[i + 1]].owner, !.lp = l[i + 1],
                                                     !.called = @ \cup {l[i + 1]}])
     /\ UNCHANGED <<module_list, hook, all_hooks, hooklist, doing>>

\* The link the call was at was freed and perhaps used again: lp->next may be null,
\* lead to a hook of any list, or to no hook at all, and then the server is lost.
stray_returns ==
  /\ calls # <<>> /\ Last(calls).lp = NoHook
  /\ \/ calls' = Front(calls) /\ doing' = doing
     \/ \E h \in HookIds :
          /\ hook[h] # NoHook
          /\ calls' = Append(Front(calls), [Last(calls) EXCEPT !.mod = hook[h].owner])
          /\ doing' = doing
     \/ calls' = <<>> /\ doing' = Lost
  /\ UNCHANGED <<module_list, hook, all_hooks, hooklist>>

----------------------------------------------------------------------------
bircmodule_add_hook(m, h, t) ==
  /\ Running(m) /\ m \in Range(module_list) /\ hook[h] = NoHook
  /\ hook' = [hook EXCEPT ![h] = [owner |-> m, type |-> t]]
  /\ all_hooks' = <<h>> \o all_hooks
  /\ hooklist' = [hooklist EXCEPT ![t] = <<h>> \o @]
  /\ UNCHANGED <<module_list, calls, doing>>

\* What becomes of a call f when the hook h is freed.
unlinked(f, h) == [f EXCEPT !.lp = IF @ = h THEN NoHook ELSE @,
                            !.due = @ \ {h}, !.called = @ \ {h}]

bircmodule_del_hook(m, h) ==
  /\ Running(m) /\ hook[h] # NoHook /\ hook[h].owner = m
  /\ hooklist' = [hooklist EXCEPT ![hook[h].type] = RemoveFirst(@, h)]
  /\ all_hooks' = RemoveFirst(all_hooks, h)
  /\ hook' = [hook EXCEPT ![h] = NoHook]
  /\ calls' = [i \in DOMAIN calls |-> unlinked(calls[i], h)]
  /\ UNCHANGED <<module_list, doing>>

\* Mutant: only the newest hook is dropped.
Dropped_one(m) == {h \in HookIds : hook[h] # NoHook /\ hook[h].owner = m /\ h = Head(all_hooks)}
Dropped(m) == {h \in HookIds : hook[h] # NoHook /\ hook[h].owner = m}

drop_all_hooks(m) ==
  /\ hooklist' = [t \in HookTypes |-> Keep(hooklist[t], HookIds \ Dropped(m))]
  /\ all_hooks' = Keep(all_hooks, HookIds \ Dropped(m))
  /\ hook' = [h \in HookIds |-> IF h \in Dropped(m) THEN NoHook ELSE hook[h]]

----------------------------------------------------------------------------
(* MODULE LOAD and UNLOAD.  A file that cannot be opened, lacks a symbol   *)
(* or has another interface version changes nothing.                       *)

load_module(m) ==
  /\ doing = NoModule /\ calls = <<>> /\ m \notin Range(module_list)
  /\ module_list' = <<m>> \o module_list
  /\ doing' = [step |-> "init", mod |-> m]
  /\ UNCHANGED <<hook, all_hooks, hooklist, calls>>

\* bircmodule_init returns: the module stays, or asked to be unloaded.
module_init ==
  /\ doing.step = "init" /\ calls = <<>>
  /\ \/ /\ calls' = Begin(calls, hooklist, "load")
        /\ UNCHANGED <<module_list, hook, all_hooks, hooklist>>
     \/ /\ drop_all_hooks(doing.mod)
        /\ module_list' = RemoveFirst(module_list, doing.mod)
        /\ UNCHANGED calls
  /\ doing' = NoModule

\* Its hooks go first, then the others are told.
unload_module(m) ==
  /\ doing = NoModule /\ calls = <<>> /\ m \in Range(module_list)
  /\ drop_all_hooks(m)
  /\ calls' = Begin(<<>>, hooklist', "unload")
  /\ doing' = [step |-> "unload", mod |-> m]
  /\ UNCHANGED module_list

destroy_module ==
  /\ doing.step = "unload" /\ calls = <<>>
  /\ module_list' = RemoveFirst(module_list, doing.mod)
  /\ doing' = NoModule
  /\ UNCHANGED <<hook, all_hooks, hooklist, calls>>

----------------------------------------------------------------------------
HooksInit == /\ module_list = <<>> /\ hook = [h \in HookIds |-> NoHook]
             /\ all_hooks = <<>> /\ hooklist = [t \in HookTypes |-> <<>>]
             /\ calls = <<>> /\ doing = NoModule

HooksNext == \/ \E t \in {"access", "signoff"} : call_hooks(t)
             \/ \E flush \in BOOLEAN : hook_returns(flush)
             \/ stray_returns \/ module_init \/ destroy_module
             \/ \E m \in Mods : \/ load_module(m) \/ unload_module(m)
                                \/ \E h \in HookIds : \/ bircmodule_del_hook(m, h)
                                                      \/ \E t \in HookTypes : bircmodule_add_hook(m, h, t)

HooksSpec == HooksInit /\ [][HooksNext]_hookVars

----------------------------------------------------------------------------
\* A hook is in all_hooks and in the list of its type, once each, and its module
\* is loaded, whatever is added and deleted during a call.  A call is at a hook of
\* its list, runs its function, and misses none: those that were there when it
\* began, and still are, are called in the order of the list, each once.  Excepted
\* is a call whose hook was deleted while it ran, by itself or in a call inside it:
\* call_hooks goes on from the freed link, and nothing is said of that call; the
\* calls around it are not disturbed unless the server is lost (call_hooks,
\* bircmodule_del_hook, drop_all_hooks, unload_module).
HooksRight ==
  /\ \A h \in HookIds :
       /\ Cardinality({i \in DOMAIN all_hooks : all_hooks[i] = h}) = IF hook[h] = NoHook THEN 0 ELSE 1
       /\ \A t \in HookTypes : Cardinality({i \in DOMAIN hooklist[t] : hooklist[t][i] = h})
                                 = IF hook[h] # NoHook /\ hook[h].type = t THEN 1 ELSE 0
       /\ hook[h] # NoHook => hook[h].owner \in Range(module_list)
  /\ \A k \in DOMAIN calls : calls[k].lp # NoHook =>
       LET f == calls[k]
           l == hooklist[f.type]
       IN /\ f.lp \in Range(l) /\ f.mod = hook[f.lp].owner
          /\ \A i, j \in DOMAIN l : l[i] \in f.due /\ l[j] = f.lp =>
               (i <= j <=> l[i] \in f.called)
==============================================================================
