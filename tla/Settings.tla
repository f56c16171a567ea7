------------------------------ MODULE Settings ------------------------------
(***************************************************************************)
(* webapp_config.json between the webapp, which answers from the copy it   *)
(* loaded and saves by patching the file, the command-line scripts, which  *)
(* load and save the whole file, and an editor: every edit should last.    *)
(***************************************************************************)
EXTENDS Naturals

CONSTANTS
  Tokens,    \* scoped API tokens that may be minted
  Full,      \* those of them whose scope is "*"
  Projects,  \* coding projects that may be favourites
  MaxEdits   \* bound: edits by routes, scripts and hand

\* A list in the file is a set of fields here: one for each of its members.
Fields == Tokens \cup Projects \cup {"root", "history", "model", "models", "password", "port"}

VARIABLES
  file,        \* webapp_config.json
  app,         \* app.state.webapp_config
  up,          \* the webapp runs
  route,       \* the update a route is making, or Idle
  script,      \* the run of set_password, or Idle
  meant,       \* history: each field as it was last edited
  issued,      \* history: tokens minted
  revoked,     \* history: tokens revoked
  hand,        \* history: favourites were edited by hand
  misread,     \* history: a load found no readable file
  overlapped,  \* history: a save went over one made since its load
  edits

vars == <<file, app, up, route, script, meant, issued, revoked, hand, misread, overlapped, edits>>
histories == <<meant, issued, revoked, hand>>

Idle == [at |-> "idle"]
Defaults == [f \in Fields |->
  CASE f \in Tokens -> "none" [] f \in Projects -> "off" [] f = "port" -> "own"
    [] f = "models" -> "wide" [] OTHER -> "default"]

\* The numeric fields raise; a model that left the list of models heals.
Valid(cfg) == cfg["history"] # "bad"
Heal(cfg) == IF cfg["models"] = "narrow" /\ cfg["model"] = "m2"
             THEN [cfg EXCEPT !["model"] = "default"] ELSE cfg
Override(cfg) == [cfg EXCEPT !["port"] = "override"]

\* load_webapp_config: what a load may return, when it does not raise.
Read(cfg, how) == cfg = CASE how = "read" -> Heal(file) [] how = "unreadable" -> Defaults
How == {how \in {"read", "unreadable"} : how = "read" => Valid(file)}

\* The fields a request replaces: the whole list its field is a member of.
Fellows(f) == CASE f \in Tokens -> Tokens [] f \in Projects -> Projects [] OTHER -> {f}
Patched(base, patch) == [f \in Fields |-> IF f \in DOMAIN patch THEN patch[f] ELSE base[f]]
\* Mutant of Patch: the settings in memory are saved rather than the file patched.
PatchWhole(f, value) == [app EXCEPT ![f] = value, !["port"] = "own"]

Patch(f, value) == [g \in Fellows(f) |-> IF g = f THEN value ELSE app[g]]

Mint(t) == t \in Tokens \ issued
Revoke(t) == t \in Tokens /\ app[t] # "none"
\* mint_token / revoke_token, toggle_favorite and patch_config.
Requests ==
  {[field |-> t, value |-> "minted"] : t \in {t \in Tokens : Mint(t)}}
    \cup {[field |-> t, value |-> "none"] : t \in {t \in Tokens : Revoke(t)}}
    \cup [field : Projects, value : {"on", "off"}]
    \cup {[field |-> "root", value |-> "moved"], [field |-> "history", value |-> "bad"],
          [field |-> "model", value |-> "m2"]}

Init ==
  /\ file = Defaults /\ app = Override(Defaults) /\ up = TRUE
  /\ route = Idle /\ script = Idle
  /\ meant = Defaults /\ issued = {} /\ revoked = {}
  /\ hand = FALSE /\ misread = FALSE /\ overlapped = FALSE /\ edits = 0

\* update_webapp_config: load without the port override, replace, validate.
RouteLoads(request, how) ==
  /\ up /\ route = Idle /\ edits < MaxEdits /\ edits' = edits + 1
  /\ \E base \in {Heal(file), Defaults} :
       LET patched == Heal(Patched(base, Patch(request.field, request.value))) IN
       /\ Read(base, how)
       /\ route' = IF Valid(patched)
                   THEN [at |-> "loaded", cfg |-> patched, request |-> request, stale |-> FALSE]
                   ELSE Idle
  /\ issued' = IF request.value = "minted" THEN issued \cup {request.field} ELSE issued
  /\ misread' = (misread \/ how = "unreadable")
  /\ UNCHANGED <<file, app, up, script, meant, revoked, hand, overlapped>>

\* ... and save; the answer, and the copy in memory, have the override again.
RouteSaves ==
  LET request == route.request IN
  /\ route.at = "loaded" /\ route' = Idle
  /\ file' = route.cfg /\ app' = Override(route.cfg)
  /\ script' = IF script = Idle THEN Idle ELSE [script EXCEPT !.stale = TRUE]
  /\ meant' = [meant EXCEPT ![request.field] = request.value]
  /\ revoked' = IF request.field \in Tokens /\ request.value = "none"
                THEN revoked \cup {request.field} ELSE revoked
  /\ overlapped' = (overlapped \/ route.stale)
  /\ UNCHANGED <<up, issued, hand, misread, edits>>

\* scope_rejection: a token scoped to jobs may only run them.
InScope(t, path) == t \in Full \/ path = "run"

\* BearerTokenMiddleware.dispatch: a minted token within its scope is stamped in memory.
Request(t, path) ==
  /\ up /\ route = Idle /\ app[t] # "none"
  /\ InScope(t, path)
  /\ app' = [app EXCEPT ![t] = "used"]
  /\ UNCHANGED <<file, up, route, script, histories, misread, overlapped, edits>>

\* The webapp ends and starts again: a file that does not validate keeps it down.
Stops ==
  /\ up /\ up' = FALSE /\ route' = Idle
  /\ UNCHANGED <<file, app, script, histories, misread, overlapped, edits>>

Starts(how) ==
  /\ ~up /\ up' = TRUE
  /\ \E base \in {Heal(file), Defaults} : Read(base, how) /\ app' = Override(base)
  /\ misread' = (misread \/ how = "unreadable")
  /\ UNCHANGED <<file, route, script, histories, overlapped, edits>>

\* scripts/set_password.py and gen_token.py, outside the gate that overrides the port.
ScriptLoads(how) ==
  /\ script = Idle /\ edits < MaxEdits /\ edits' = edits + 1
  /\ \E base \in {Heal(file), Defaults} :
       Read(base, how) /\ script' = [at |-> "loaded", cfg |-> base, stale |-> FALSE]
  /\ misread' = (misread \/ how = "unreadable")
  /\ UNCHANGED <<file, app, up, route, histories, overlapped>>

ScriptSaves ==
  /\ script.at = "loaded" /\ script' = Idle
  /\ file' = [script.cfg EXCEPT !["password"] = "set"]
  /\ meant' = [meant EXCEPT !["password"] = "set"]
  /\ route' = IF route = Idle THEN Idle ELSE [route EXCEPT !.stale = TRUE]
  /\ overlapped' = (overlapped \/ script.stale)
  /\ UNCHANGED <<app, up, issued, revoked, hand, misread, edits>>

\* An editor: a favourite, a number out of range or mended, or a model off the list.
HandEdit(f, value) ==
  /\ edits < MaxEdits /\ edits' = edits + 1
  /\ file' = [file EXCEPT ![f] = value] /\ meant' = [meant EXCEPT ![f] = value]
  /\ hand' = (hand \/ f \in Projects)
  /\ route' = IF route = Idle THEN Idle ELSE [route EXCEPT !.stale = TRUE]
  /\ script' = IF script = Idle THEN Idle ELSE [script EXCEPT !.stale = TRUE]
  /\ UNCHANGED <<app, up, issued, revoked, misread, overlapped>>

Next ==
  \/ \E how \in How : (\E request \in Requests : RouteLoads(request, how)) \/ Starts(how) \/ ScriptLoads(how)
  \/ RouteSaves \/ Stops \/ ScriptSaves
  \/ \E t \in Tokens, path \in {"run", "other"} : Request(t, path)
  \/ \E p \in Projects : HandEdit(p, "on")
  \/ \E value \in {"bad", "default"} : HandEdit("history", value)
  \/ HandEdit("models", "narrow")

Spec == Init /\ [][Next]_vars

-----------------------------------------------------------------------------
TypeOK ==
  /\ DOMAIN file = Fields /\ DOMAIN app = Fields /\ DOMAIN meant = Fields
  /\ up \in BOOLEAN /\ issued \subseteq Tokens /\ revoked \subseteq Tokens /\ edits \in 0..MaxEdits

Held(value) == value # "none"

(* An edit made through a route, a script or by hand is in the file until   *)
(* the same field is edited again, unless two of them overlapped or one     *)
(* found the file unreadable; a favourite edited by hand may be lost.       *)
EditsKept ==
  overlapped \/ misread \/
    \A f \in Fields :
      \/ Heal(file)[f] = Heal(meant)[f]
      \/ f \in Tokens /\ Held(file[f]) = Held(meant[f])
      \/ f \in Projects /\ hand

(* A token that was revoked never lets a request through again, restarts    *)
(* included, unless a script saved the file it had read before.             *)
RevokedStaysOut == overlapped \/ ~up \/ \A t \in revoked : app[t] = "none"

(* "a save can never bake the ... disposable LAUNCHER_SESSION_HOST_PORT     *)
(* into the real, shared config" (update_webapp_config).                    *)
PortKept == file["port"] = "own"

SettingsSound == EditsKept /\ RevokedStaysOut /\ PortKept
=============================================================================
