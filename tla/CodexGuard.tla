----------------------------- MODULE CodexGuard -----------------------------
(* The hook that guards a benchmark turn of Codex (bench/codex_guard.py): a   *)
(* process for every event of every tool call, which numbers itself under a   *)
(* file lock, decides, appends a row to the log and only then answers.        *)
(* Whatever goes wrong in it, it exits zero and the call goes on.             *)
EXTENDS Naturals, Sequences, FiniteSets

CONSTANTS HookCalls,    \* numbers of the turn's tool calls, each with its PreToolUse hook
          Requests,     \* a sequence: what a call may ask for
          ToolLimit,    \* KARC_CODEX_MAX_TOOL_CALLS
          MaxErrors     \* bound: exceptions and kills (a hook has ten seconds)

VARIABLES guard,        \* the mode and the policy of the turn
          counter,      \* the state file; a truncated one reads as zero
          holder,       \* who holds its lock: nobody or one
          hook,         \* per call: its request, and how far its hook is
          log,          \* rows of the log
          answers       \* per call: "none", "allow" or "deny"
guardVars == <<guard, counter, holder, hook, log, answers>>

-----------------------------------------------------------------------------
(* evaluate: a request is [tool, managed, access, names, agents]: the tool, if *)
(* its input squashes to a managed path, what it reads, the manifest's         *)
(* versions its input names by path, fact or directory, and if it names        *)
(* AGENTS.md, which stands for the versions injected there.                   *)
Targets(request) == request.managed
AccessKind(request) ==
  IF request.tool = "Bash" /\ request.access = "listing" THEN "path-listing"
  ELSE IF request.access = "content" THEN "document-content" ELSE "none"
Resolved(request) ==
  IF AccessKind(request) # "document-content" THEN {}
  ELSE request.names \cup IF request.agents THEN guard.injected ELSE {}
Unresolved(request) == AccessKind(request) = "document-content" /\ Resolved(request) = {}

Denied(request, overLimit) ==
  \/ guard.mode = "deny-all"
  \/ guard.mode = "deny-managed" /\ request.tool # "mcp karc" /\ Targets(request)
  \/ overLimit
  \/ guard.policy = "deny" /\ Unresolved(request)
PermissionAllowed(request) == request.tool = "mcp karc" /\ guard.mode # "deny-all"

Row(c) ==
  LET request == hook[c].request
      denied == Denied(request, hook[c].ordinal > ToolLimit)
  IN [call |-> c, ordinal |-> hook[c].ordinal, denied |-> denied, documents |-> Resolved(request),
      unresolved |-> Unresolved(request) /\ guard.policy # "deny",
      access |-> AccessKind(request)]

-----------------------------------------------------------------------------
(* _reserve_tool_slot: lock, read, truncate, write, unlock.                   *)
To(c, at) == hook' = [hook EXCEPT ![c].at = at]
\* Mutant of Lock: the lock is not waited for.
LockShared(c) ==
  /\ hook[c].at = "asked"
  /\ holder' = {c} /\ To(c, "locked")
  /\ UNCHANGED <<guard, counter, log, answers>>
Lock(c) ==
  /\ hook[c].at = "asked" /\ holder = {}
  /\ holder' = {c} /\ To(c, "locked")
  /\ UNCHANGED <<guard, counter, log, answers>>

Truncate(c) ==
  /\ hook[c].at = "locked"
  /\ hook' = [hook EXCEPT ![c].at = "truncated", ![c].ordinal = counter.n + 1]
  /\ counter' = [n |-> 0]
  /\ UNCHANGED <<guard, holder, log, answers>>

WriteBack(c) ==
  /\ hook[c].at = "truncated"
  /\ counter' = [n |-> hook[c].ordinal]
  /\ holder' = {} /\ To(c, "numbered")
  /\ UNCHANGED <<guard, log, answers>>

LogRow(c) ==
  /\ hook[c].at = "numbered"
  /\ log' = Append(log, Row(c)) /\ To(c, "logged")
  /\ UNCHANGED <<guard, counter, holder, answers>>

Answer(c) ==
  /\ hook[c].at = "logged"
  /\ LET row == log[CHOOSE i \in DOMAIN log : log[i].call = c]
     IN answers' = [answers EXCEPT ![c] = IF row.denied THEN "deny" ELSE "allow"]
  /\ To(c, "done")
  /\ UNCHANGED <<guard, counter, holder, log>>

\* An exception, or a hook cut off: the call goes on as if allowed.
Broken(c) ==
  /\ hook[c].at \notin {"done", "broken"}
  /\ Cardinality({d \in HookCalls : hook[d].at = "broken"}) < MaxErrors
  /\ holder' = holder \ {c}
  /\ answers' = [answers EXCEPT ![c] = "allow"]
  /\ hook' = [hook EXCEPT ![c].at = "broken", ![c].torn = hook[c].at = "truncated"]
  /\ UNCHANGED <<guard, counter, log>>

GuardInit ==
  /\ guard \in [mode : {"observe", "deny-all", "deny-managed"}, policy : {"observe", "deny"}, injected : {{"v9"}}]
  /\ counter = [n |-> 0] /\ holder = {} /\ log = <<>>
  /\ \E asks \in [HookCalls -> DOMAIN Requests] :
       /\ \A c, d \in HookCalls : c < d => asks[c] <= asks[d]
       /\ hook = [c \in HookCalls |-> [at |-> "asked", request |-> Requests[asks[c]], ordinal |-> 0, torn |-> FALSE]]
  /\ answers = [c \in HookCalls |-> "none"]
GuardNext ==
  \E c \in HookCalls : Lock(c) \/ Truncate(c) \/ WriteBack(c) \/ LogRow(c) \/ Answer(c) \/ Broken(c)

-----------------------------------------------------------------------------
Allowed == {c \in HookCalls : answers[c] = "allow"}
BrokenHooks == {c \in HookCalls : hook[c].at = "broken"}
TornHooks == {c \in HookCalls : hook[c].torn}

(* However the hooks of a turn interleave, the calls that get through are the *)
(* first ToolLimit and those whose hook broke; only a hook cut off between    *)
(* truncating and writing the number lets a second ToolLimit pass.  Every     *)
(* answer is in the log before it is given, once, and a call let through      *)
(* under the strict policy names the documents it exposes                     *)
(* (codex_guard.py:161-304).                                                  *)
GuardBoundsCalls ==
  /\ Cardinality(Allowed \ BrokenHooks) <= ToolLimit * (1 + Cardinality(TornHooks))
  /\ TornHooks = {} => \A c, d \in HookCalls :
       hook[c].ordinal = hook[d].ordinal /\ hook[c].ordinal > 0 => c = d
  /\ \A c \in HookCalls \ BrokenHooks : answers[c] # "none" =>
       \E i \in DOMAIN log :
         /\ log[i].call = c /\ log[i].denied = (answers[c] = "deny")
         /\ \A j \in DOMAIN log : log[j].call = c => j = i
         /\ guard.policy = "deny" /\ answers[c] = "allow" /\ log[i].access = "document-content"
              => log[i].documents # {}
         /\ guard.mode = "deny-managed" /\ answers[c] = "allow"
              => hook[c].request.tool = "mcp karc" \/ ~hook[c].request.managed
=============================================================================
