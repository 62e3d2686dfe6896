----------------------------- MODULE Preflight ------------------------------
(***************************************************************************)
(* One proposed tool call from its start hooks to the answer it runs or is *)
(* denied by: decideToolCall (preflight.go) and requestPermission          *)
(* (permission.go).  Start hooks are asked in order of registration; one   *)
(* that rewrites the arguments sends the call to all of them again, at     *)
(* most maxInputUpdates times.  A call that is to be asked about goes to   *)
(* the permission hooks and then to the approval handler.                  *)
(*                                                                         *)
(* What hooks and the handler answer is arbitrary.  CoreLoop composes      *)
(* this over the calls of a turn and adds stops, repeated denials and      *)
(* cancellation.                                                           *)
(***************************************************************************)
EXTENDS Naturals

CONSTANTS
  Args,             (* JSON objects a call may carry                       *)
  Garbage,          (* updated input that is no JSON object                *)
  Unprojectable,    (* arguments the tool's resource projection refuses    *)
  StartHooks,       (* hooks with an OnToolCallStart                       *)
  PermissionHooks,  (* hooks with an OnPermissionRequest                   *)
  maxInputUpdates

ASSUME PreflightAssumption ==
  /\ Garbage \notin Args /\ Unprojectable \subseteq Args
  /\ StartHooks \in Nat \ {0} /\ PermissionHooks \in Nat
  /\ maxInputUpdates \in Nat \ {0}

VARIABLES
  phase,            (* "checking", "ruled" (call.decision), "settled"      *)
  round, next,      (* of the loop over updates; the hook to ask           *)
  args,             (* req.Action.Args                                     *)
  merged,           (* call.decision.Permission                            *)
  decided, fallback,
  updated,          (* args, or what a hook would have instead             *)
  said,             (* history: what each hook said of these arguments     *)
  denied,           (* history: a start hook denied                        *)
  asked             (* history: "no", or what the ask came to              *)

callVars == <<phase, round, next, args, merged, decided, fallback, updated, said, denied, asked>>

Hooks == 1 .. StartHooks

(* Answers of a start hook.  An unknown permission asks, an error asks     *)
(* unless it came with a denial, and no permission leaves the call to the  *)
(* others, or to a fallback.                                               *)
Says ==
  {"nothing", "allow", "ask", "deny", "unknown", "fallbackAsk", "fallbackDeny", "failed", "failedDeny"}

Strictness == [allow |-> 0, ask |-> 1, deny |-> 2]

(* Mutant: the last hook's word stands.                                    *)
LastWins(current, candidate) == candidate

mergeDecision(current, candidate) ==
  IF Strictness[candidate] > Strictness[current] THEN candidate ELSE current

hookDecision(says) ==
  CASE says \in {"deny", "failedDeny"}       -> "deny"
    [] says \in {"ask", "unknown", "failed"} -> "ask"
    [] OTHER                                 -> "allow"

fallbackDecision(says) == IF says = "fallbackDeny" THEN "deny" ELSE "ask"

Undecided == {"nothing", "fallbackAsk", "fallbackDeny"}

-----------------------------------------------------------------------------
(* A round: every hook is asked about the arguments as they are now.       *)
Begin(a) ==
  /\ args' = a /\ updated' = a
  /\ next' = 1
  /\ merged' = "allow" /\ decided' = FALSE /\ fallback' = "none"
  /\ said' = [h \in Hooks |-> "unheard"]

CallInit ==
  /\ phase = "checking"
  /\ round = 1 /\ next = 1
  /\ args \in Args /\ updated = args
  /\ merged = "allow" /\ decided = FALSE /\ fallback = "none"
  /\ said = [h \in Hooks |-> "unheard"]
  /\ denied = FALSE /\ asked = "no"

HookToAsk == phase = "checking" /\ next <= StartHooks /\ updated = args

(* A denial or an error comes without an update; an update ends the round. *)
HookAnswers ==
  /\ HookToAsk
  /\ \E says \in Says, update \in Args \cup {Garbage} :
       /\ merged' = mergeDecision(merged, hookDecision(says))
       /\ decided' = (decided \/ says \notin Undecided)
       /\ fallback' = IF says \notin {"fallbackAsk", "fallbackDeny"} THEN fallback
                      ELSE IF fallback = "none" THEN fallbackDecision(says)
                      ELSE mergeDecision(fallback, fallbackDecision(says))
       /\ updated' = IF says \in {"deny", "failed", "failedDeny"} THEN args ELSE update
       /\ said' = [said EXCEPT ![next] = says]
       /\ denied' = (denied \/ says \in {"deny", "failedDeny"})
  /\ next' = next + 1
  /\ UNCHANGED <<phase, round, args, asked>>

(* Mutant: an update of a call another hook has denied is followed.        *)
RewrittenAnyway == phase = "checking" /\ updated # args

Rewritten == phase = "checking" /\ updated # args /\ merged # "deny"

(* Mutant: the loop does not count.                                        *)
SameRound == round

NextRound == round + 1

RoundsLeft == round < maxInputUpdates

Recheck ==
  /\ Rewritten /\ updated # Garbage /\ RoundsLeft
  /\ Begin(updated)
  /\ round' = NextRound
  /\ UNCHANGED <<phase, denied, asked>>

(* invalid_tool_call_update, tool_call_update_limit                        *)
RewriteRefused ==
  /\ Rewritten
  /\ \/ updated = Garbage /\ UNCHANGED <<args, said>>
     \/ /\ updated # Garbage /\ ~RoundsLeft
        /\ args' = updated
        /\ said' = [h \in Hooks |-> "unheard"]
  /\ merged' = "deny"
  /\ phase' = "ruled"
  /\ UNCHANGED <<round, next, decided, fallback, updated, denied, asked>>

(* All hooks were asked, or one denied: a fallback counts when no hook     *)
(* decided, and a call whose resources are unknown is asked about.         *)
Ruling ==
  LET ruling == IF ~decided /\ fallback # "none" THEN fallback ELSE merged IN
  IF args \in Unprojectable /\ ruling # "deny" THEN "ask" ELSE ruling

Rule ==
  /\ phase = "checking" /\ ~HookToAsk /\ ~Rewritten
  /\ merged' = Ruling
  /\ phase' = "ruled"
  /\ UNCHANGED <<round, next, args, decided, fallback, updated, said, denied, asked>>

-----------------------------------------------------------------------------
(* The permission hooks' word, then the handler's; any denial or failure   *)
(* denies.                                                                 *)
Grants == [1 .. PermissionHooks -> {"nothing", "allow", "deny", "failed"}]

(* Mutant: one hook's grant is enough.                                     *)
GrantFirst(hooks, handler) ==
  \/ \E h \in DOMAIN hooks : hooks[h] = "allow"
  \/ handler = "allow"

Granted(hooks, handler) ==
  /\ \A h \in DOMAIN hooks : hooks[h] \in {"nothing", "allow"}
  /\ (\E h \in DOMAIN hooks : hooks[h] = "allow") \/ handler = "allow"

requestPermission ==
  /\ phase = "ruled" /\ merged = "ask"
  /\ \E hooks \in Grants, handler \in {"none", "allow", "deny", "failed", "unknown"} :
       /\ merged' = IF Granted(hooks, handler) THEN "allow" ELSE "deny"
       /\ asked' = IF \E h \in DOMAIN hooks : hooks[h] \in {"deny", "failed"} THEN "refused"
                   ELSE IF handler = "allow" \/ \E h \in DOMAIN hooks : hooks[h] = "allow" THEN "granted"
                   ELSE "refused"
  /\ phase' = "settled"
  /\ UNCHANGED <<round, next, args, decided, fallback, updated, said, denied>>

Settle ==
  /\ phase = "ruled" /\ merged # "ask"
  /\ phase' = "settled"
  /\ UNCHANGED <<round, next, args, merged, decided, fallback, updated, said, denied, asked>>

CallSettled == phase = "settled" /\ UNCHANGED callVars

CallNext == HookAnswers \/ Recheck \/ RewriteRefused \/ Rule \/ requestPermission \/ Settle \/ CallSettled

(* Hooks and the handler answer; a hook that never does is the run's       *)
(* cancellation to end (CoreLoop).                                         *)
CallSpec == CallInit /\ [][CallNext]_callVars /\ WF_callVars(CallNext)

-----------------------------------------------------------------------------
CallTypeOK ==
  /\ phase \in {"checking", "ruled", "settled"}
  /\ round \in 1 .. maxInputUpdates
  /\ next \in 1 .. StartHooks + 1
  /\ args \in Args /\ updated \in Args \cup {Garbage}
  /\ merged \in {"allow", "ask", "deny"}
  /\ decided \in BOOLEAN /\ denied \in BOOLEAN
  /\ fallback \in {"none", "ask", "deny"}
  /\ said \in [Hooks -> Says \cup {"unheard"}]
  /\ asked \in {"no", "granted", "refused"}

(* A start hook's denial is final: no rewrite, fallback or approval undoes *)
(* it, and nobody is asked about a denied call.                            *)
DenyStands == denied /\ phase # "checking" => merged = "deny" /\ asked = "no"

(* A call that is let through carries arguments every start hook has seen  *)
(* as they are; either an approval was asked for and granted, or the       *)
(* projection succeeded, no hook objected, and a hook allowed it or none   *)
(* had anything to say.                                                    *)
RunsWithConsent ==
  phase = "settled" /\ merged = "allow" =>
    /\ \A h \in Hooks : said[h] # "unheard"
    /\ \/ asked = "granted"
       \/ /\ args \notin Unprojectable
          /\ \A h \in Hooks : said[h] \in Undecided \cup {"allow"}
          /\ (\A h \in Hooks : said[h] \in Undecided) => \A h \in Hooks : said[h] = "nothing"

(* The ruling on arguments all hooks have seen does not depend on the      *)
(* order the hooks are registered in: the strictest answer, fallbacks      *)
(* counting when nobody decides.                                           *)
Some(S) == \E h \in Hooks : said[h] \in S
Silent  == \A h \in Hooks : said[h] \in Undecided
Denial  == Some({"deny", "failedDeny"}) \/ (Silent /\ Some({"fallbackDeny"}))
Doubt   ==
  \/ Some({"ask", "unknown", "failed"})
  \/ Silent /\ Some({"fallbackAsk"})
  \/ args \in Unprojectable

OrderIrrelevant ==
  phase = "ruled" /\ updated = args /\ (\A h \in Hooks : said[h] # "unheard") =>
    merged = IF Denial THEN "deny" ELSE IF Doubt THEN "ask" ELSE "allow"

(* Whatever the hooks rewrite, the call is settled.                        *)
Decides == <>(phase = "settled")
=============================================================================
