------------------------------- MODULE Setup -------------------------------
(* `karc init` (cli_product.py:89-203, runtimes.py): the configuration files  *)
(* that K-ARC shares with a project's owner.  A run looks at them one after   *)
(* another, reads what it will change and writes it back whole; it may be     *)
(* killed between two steps or in a write, and the owner edits the files at   *)
(* any time, also between a read and its write.                               *)
EXTENDS Naturals, Sequences, FiniteSets

CONSTANTS Environments, \* what the paths look like: "plain", "escaped", "quoted"
          MaxRuns, MaxEdits, MaxKills

\* "escaped": the root or the binary has a character that JSON escapes with a
\* backslash; "quoted": the path of the binary has one that a shell quotes.
ASSUME SetupAssumption ==
  /\ Environments \subseteq {"plain", "escaped", "quoted"}
  /\ {MaxRuns, MaxEdits, MaxKills} \subseteq Nat

VARIABLES env,    \* one of Environments
          files,  \* the files, each a record of its own shape
          seen,   \* what the run has read of each
          run,    \* the run: what is left to do and what it does next with the
                  \* first of it, what it selected, what came of it
          runs, edits, kills
vars == <<env, files, seen, run, runs, edits, kills>>

-----------------------------------------------------------------------------
(* .mcp.json: absent, unreadable as JSON, JSON of another shape, or a map of   *)
(* servers (runtimes.py:117-154).                                             *)
McpHasKarc(f) == f.form = "json" /\ "karc" \in f.servers
PlanMcpRaises(f) == f.form = "odd"
ApplyMcp(f) == [form |-> "json", servers |-> {"karc"} \cup IF f.form = "json" THEN f.servers ELSE {}]

-----------------------------------------------------------------------------
(* .codex/config.toml: a sequence of lines.  "own" is the server table as this *)
(* run would write it, "stale" as an earlier one did, "table" a user's.        *)
Block == <<"start", "own", "end">>
Count(s, kinds) == Cardinality({i \in DOMAIN s : s[i] \in kinds})
TomlLoads(t) == Count(t, {"bad"}) = 0 /\ Count(t, {"own", "stale", "table"}) <= 1
HasTable(t) == Count(t, {"own", "stale", "table"}) > 0
At(t, kind) == CHOOSE i \in DOMAIN t : t[i] = kind

\* _replace_marker_block: at most one block, its end after its start; a block
\* with a backslash is no template of a substitution and raises.
MarkersAgree(t) ==
  /\ Count(t, {"start"}) = Count(t, {"end"}) /\ Count(t, {"start"}) <= 1
  /\ Count(t, {"start"}) = 1 => At(t, "start") < At(t, "end")
Proposed(t) ==
  IF Count(t, {"start"}) = 0 THEN t \o Block
  ELSE SubSeq(t, 1, At(t, "start") - 1) \o Block \o SubSeq(t, At(t, "end") + 1, Len(t))

PlanTomlRaises(t) ==
  /\ TomlLoads(t) /\ Count(t, {"start"}) = 1 /\ MarkersAgree(t)
  /\ env = "escaped"
TomlConflict(t) ==
  \/ ~TomlLoads(t)
  \/ HasTable(t) /\ Count(t, {"start"}) = 0
  \/ ~MarkersAgree(t)
  \/ ~TomlLoads(Proposed(t))
TomlConfigured(t) == ~TomlConflict(t) /\ Proposed(t) = t

-----------------------------------------------------------------------------
(* .codex/hooks.json: absent, unreadable, of another shape, or for each event  *)
(* a sequence of groups with a matcher and handlers (runtimes.py:274-354).     *)
(* "tool" stands for the four events with a matcher, "stop" for the one        *)
(* without.                                                                   *)
HookEvents == {"tool", "stop"}
Matcher(event) == IF event = "tool" THEN "karc" ELSE "none"
DesiredGroup(event) == [matcher |-> Matcher(event), handlers |-> <<"own">>]
\* _is_karc_codex_handler looks for `karc hook --runtime codex` in the command,
\* which a quoted binary never spells.
IsKarcHandler(h) == h \in {"own", "stale"} /\ env # "quoted"
\* Mutant of Refreshed: the group is replaced, not its handler.
RefreshedWhole(event, group) ==
  IF \E i \in DOMAIN group.handlers : IsKarcHandler(group.handlers[i]) THEN DesiredGroup(event) ELSE group
Refreshed(event, group) ==
  IF \E i \in DOMAIN group.handlers : IsKarcHandler(group.handlers[i])
  THEN [matcher |-> Matcher(event),
        handlers |-> [i \in DOMAIN group.handlers |->
                        IF IsKarcHandler(group.handlers[i]) THEN "own" ELSE group.handlers[i]]]
  ELSE group
\* Mutant of PlannedGroups: whether a group was replaced is not looked at.
PlannedGroupsAppended(event, groups) ==
  Append([i \in DOMAIN groups |-> Refreshed(event, groups[i])], DesiredGroup(event))
PlannedGroups(event, groups) ==
  IF \E i \in DOMAIN groups : Refreshed(event, groups[i]) # groups[i]
                              \/ \E j \in DOMAIN groups[i].handlers : IsKarcHandler(groups[i].handlers[j])
  THEN [i \in DOMAIN groups |-> Refreshed(event, groups[i])]
  ELSE Append(groups, DesiredGroup(event))

NoGroups == [event \in HookEvents |-> <<>>]
HooksConflict(f) == f.form \in {"broken", "odd"}
PlannedHooks(f) ==
  [form |-> "json", groups |-> [event \in HookEvents |-> PlannedGroups(event, f.groups[event])]]
HooksConfigured(f) == f.form = "json" /\ PlannedHooks(f) = f

-----------------------------------------------------------------------------
(* AGENTS.md, CLAUDE.md and .hermes.md: the managed block and the import       *)
(* (runtimes.py:400-459).                                                     *)
Absent == <<"no file">>
HasLine(f, line) == \E i \in DOMAIN f : f[i] = line
WithLine(f, line) == IF f = Absent THEN <<line>> ELSE Append(f, line)

-----------------------------------------------------------------------------
(* The run.                                                                   *)
NoFiles ==
  [db |-> FALSE, mcp |-> [form |-> "absent", servers |-> {}], toml |-> <<>>,
   hooks |-> [form |-> "absent", groups |-> NoGroups],
   agents |-> Absent, claude |-> Absent, hermes |-> Absent]
Idle == [left |-> <<>>, selected |-> {}, phase |-> "none", conflicts |-> {}, state |-> "idle"]

\* What an applied run deals with, in the order of cmd_init; "docs" stands for
\* the three documents, which plan_agents_block looks at together.
WritesOf(selected) ==
  <<"db">> \o (IF "claude-code" \in selected THEN <<"mcp">> ELSE <<>>)
           \o (IF "codex" \in selected THEN <<"toml", "hooks">> ELSE <<>>)
           \o <<"docs">>
DocsOf(selected) ==
  (IF ~HasLine(files.agents, "block") THEN <<"agents">> ELSE <<>>)
  \o (IF "claude-code" \in selected /\ ~HasLine(files.claude, "import") THEN <<"claude">> ELSE <<>>)
  \o (IF "append-hermes" \in selected /\ files.hermes # Absent THEN <<"hermes">> ELSE <<>>)
\* What is done first with a file: the documents have been looked at.
Phase(left) ==
  CASE left = <<>> -> "none"
    [] left # <<>> /\ Head(left) = "db" -> "write"
    [] left # <<>> /\ Head(left) \in {"agents", "claude", "hermes"} -> "read"
    [] OTHER -> "look"

Stop(state) == run' = [Idle EXCEPT !.state = state] /\ seen' = NoFiles
GoOn(left, conflicts, read) ==
  /\ run' = [run EXCEPT !.left = left, !.phase = Phase(left), !.conflicts = conflicts,
                        !.state = IF left = <<>> THEN "done" ELSE @]
  /\ seen' = IF left = <<>> THEN NoFiles ELSE read

Start(selected) ==
  /\ run.state # "writing" /\ runs < MaxRuns
  /\ run' = [left |-> WritesOf(selected), selected |-> selected, phase |-> "write", conflicts |-> {}, state |-> "writing"]
  /\ runs' = runs + 1
  /\ UNCHANGED <<env, files, seen, edits, kills>>

\* The plan of a file, which may raise, find a conflict or nothing to do.
Raises(file) ==
  \/ file = "mcp" /\ PlanMcpRaises(files.mcp)
  \/ file = "toml" /\ PlanTomlRaises(files.toml)
Conflicts(file) ==
  \/ file = "toml" /\ TomlConflict(files.toml)
  \/ file = "hooks" /\ HooksConflict(files.hooks)
Configured(file) ==
  \/ file = "mcp" /\ McpHasKarc(files.mcp)
  \/ file = "toml" /\ TomlConfigured(files.toml)
  \/ file = "hooks" /\ HooksConfigured(files.hooks)
Plan(file) ==
  IF Raises(file) THEN "raises" ELSE IF Conflicts(file) THEN "conflict"
  ELSE IF Configured(file) THEN "nothing" ELSE "change"
\* apply_claude_mcp reads the file once more, the other two write their plan.
Look ==
  /\ run.phase = "look"
  /\ LET file == Head(run.left)
     IN \/ Plan(file) = "raises" /\ Stop("raised")
        \/ Plan(file) = "conflict" /\ GoOn(Tail(run.left), run.conflicts \cup {file}, seen)
        \/ Plan(file) = "nothing" /\ GoOn(Tail(run.left), run.conflicts, seen)
        \/ /\ Plan(file) = "change" /\ file # "docs"
           /\ run' = [run EXCEPT !.phase = IF file = "mcp" THEN "read" ELSE "write"]
           /\ seen' = [seen EXCEPT ![file] = files[file]]
        \/ /\ file = "docs"
           /\ GoOn(DocsOf(run.selected) \o Tail(run.left), run.conflicts,
                   [seen EXCEPT !.agents = files.agents, !.claude = files.claude, !.hermes = files.hermes])
  /\ UNCHANGED <<env, files, runs, edits, kills>>

\* A document that was there is read again; one that was not is written anew.
ReadRaises(file) ==
  IF file = "mcp" THEN PlanMcpRaises(files.mcp) ELSE seen[file] # Absent /\ files[file] = Absent
Read ==
  /\ run.phase = "read"
  /\ LET file == Head(run.left)
         nothing == file = "hermes" /\ HasLine(files.hermes, "block")
     IN \/ ReadRaises(file) /\ Stop("raised")
        \/ ~ReadRaises(file) /\ nothing /\ GoOn(Tail(run.left), run.conflicts, seen)
        \/ /\ ~ReadRaises(file) /\ ~nothing
           /\ run' = [run EXCEPT !.phase = "write"]
           /\ seen' = IF file # "mcp" /\ seen[file] = Absent THEN seen ELSE [seen EXCEPT ![file] = files[file]]
  /\ UNCHANGED <<env, files, runs, edits, kills>>

Applied(file) ==
  CASE file = "db" -> TRUE
    [] file = "mcp" -> ApplyMcp(seen.mcp)
    [] file = "toml" -> Proposed(seen.toml)
    [] file = "hooks" -> PlannedHooks(seen.hooks)
    [] file = "claude" -> WithLine(seen.claude, "import")
    [] OTHER -> WithLine(seen[file], "block")
Write ==
  /\ run.phase = "write"
  /\ LET file == Head(run.left)
     IN /\ files' = [files EXCEPT ![file] = Applied(file)]
        /\ GoOn(Tail(run.left), run.conflicts, [seen EXCEPT ![file] = NoFiles[file]])
  /\ UNCHANGED <<env, runs, edits, kills>>

Kill ==
  /\ run.left # <<>> /\ kills < MaxKills
  /\ Stop("killed") /\ kills' = kills + 1
  /\ UNCHANGED <<env, files, runs, edits>>

\* write_text truncates the file before it writes.
Torn(file) ==
  CASE file = "mcp" -> [form |-> "broken", servers |-> {}]
    [] file = "hooks" -> [form |-> "json", groups |-> NoGroups]
    [] OTHER -> <<>>
KillInWrite ==
  /\ run.phase = "write" /\ Head(run.left) # "db" /\ kills < MaxKills
  /\ files' = [files EXCEPT ![Head(run.left)] = Torn(Head(run.left))]
  /\ Stop("torn") /\ kills' = kills + 1
  /\ UNCHANGED <<env, runs, edits>>

\* What owners do to the files.
EditsOf(file) ==
  CASE file = "mcp" -> {[form |-> "absent", servers |-> {}], [form |-> "broken", servers |-> {"user"}],
                        [form |-> "odd", servers |-> {"user"}]}
                       \cup {[form |-> "json", servers |-> s] : s \in SUBSET {"karc", "user"}}
    [] file = "toml" -> {<<>>, <<"user">>, <<"user", "table">>, <<"bad">>, <<"start", "stale", "end", "user">>,
                         <<"user", "start", "own">>, <<"start", "end", "table">>, <<"end", "start">>}
    [] file = "hooks" -> {[form |-> form, groups |-> NoGroups] : form \in {"absent", "broken", "odd", "json"}}
                         \cup {[form |-> "json", groups |-> [NoGroups EXCEPT !["tool"] = gs]] :
                                 gs \in {<<[matcher |-> "user", handlers |-> hs]>> :
                                           hs \in {<<"user">>, <<"stale", "user">>, <<"own">>}}}
    [] OTHER -> {Absent, <<"user">>}
Files == {"mcp", "toml", "hooks", "agents", "claude", "hermes"}

Edit ==
  /\ edits < MaxEdits
  /\ \E file \in Files : \E content \in EditsOf(file) \ {files[file]} :
       files' = [files EXCEPT ![file] = content]
  /\ edits' = edits + 1
  /\ run' = [run EXCEPT !.state = IF @ = "done" THEN "edited" ELSE @,
                        !.conflicts = IF run.left # <<>> THEN @ \cup {"edited"} ELSE @]
  /\ UNCHANGED <<env, seen, runs, kills>>

Init ==
  /\ env \in Environments
  /\ files = NoFiles /\ seen = NoFiles
  /\ run = Idle /\ runs = 0 /\ edits = 0 /\ kills = 0

Next ==
  \/ \E selected \in SUBSET {"claude-code", "codex", "append-hermes"} : Start(selected)
  \/ Look \/ Read \/ Write \/ Kill \/ KillInWrite \/ Edit

Spec == Init /\ [][Next]_vars /\ WF_vars(Look \/ Read \/ Write)

-----------------------------------------------------------------------------
(* `karc doctor` on a machine that has a capable Codex (cli_product.py:234-251). *)
DoctorCodex(observations) ==
  IF PlanTomlRaises(files.toml) THEN "raises"
  ELSE IF TomlConflict(files.toml) \/ HooksConflict(files.hooks) THEN "conflict"
  ELSE IF ~TomlConfigured(files.toml) \/ ~HasLine(files.agents, "block") THEN "degraded-floor"
  ELSE IF ~HooksConfigured(files.hooks) \/ observations = 0 THEN "degraded-observation"
  ELSE "ok"

Settled(file) ==
  CASE file = "db" -> files.db
    [] file = "mcp" -> McpHasKarc(files.mcp)
    [] file = "toml" -> ~PlanTomlRaises(files.toml) /\ TomlConfigured(files.toml)
    [] file = "hooks" -> HooksConfigured(files.hooks)
    [] file = "claude" -> HasLine(files.claude, "import")
    [] OTHER -> HasLine(files[file], "block")

\* The files that a run is responsible for.
Due(selected) ==
  {"db", "agents"} \cup (IF "claude-code" \in selected THEN {"mcp", "claude"} ELSE {})
                   \cup (IF "codex" \in selected THEN {"toml", "hooks"} ELSE {})

(* A run that ends without a conflict, and without an edit meanwhile, leaves  *)
(* every file it is responsible for as a second run would leave it, whatever  *)
(* the owner or a killed run had left there; the doctor then finds nothing    *)
(* wrong once a session is observed (runtimes.py:6-7, cli_product.py:129-182).*)
InitIsIdempotent ==
  run.state = "done" /\ run.conflicts = {} =>
    /\ \A file \in Due(run.selected) : Settled(file)
    /\ "codex" \in run.selected => DoctorCodex(1) = "ok"

\* The owner's servers, lines, and handlers with their places and the matcher of
\* their group, but for a group that holds a handler of K-ARC too.
Shared(group) == \E j \in DOMAIN group.handlers : IsKarcHandler(group.handlers[j])
UserParts(file, f) ==
  CASE file = "mcp" -> IF f.form = "json" THEN f.servers \ {"karc"} ELSE {}
    [] file = "toml" -> SelectSeq(f, LAMBDA line : line \in {"user", "table", "bad"})
    [] file = "hooks" -> [event \in HookEvents |->
         UNION {{<<i, j, IF Shared(f.groups[event][i]) THEN "shared" ELSE f.groups[event][i].matcher>> :
                   j \in {k \in DOMAIN f.groups[event][i].handlers : f.groups[event][i].handlers[k] = "user"}} :
                i \in DOMAIN f.groups[event]}]
    [] OTHER -> SelectSeq(f, LAMBDA line : line = "user")

(* A write changes one file and keeps what the owner had in it when it was    *)
(* read, in its order, which is what the owner has in it now unless an edit   *)
(* came since the run began.  Three things are not claimed, for they do not   *)
(* hold: that a .mcp.json that does not parse is kept, that a group shared    *)
(* with the owner keeps its matcher, and that an edit between the read and    *)
(* the write is kept (runtimes.py:128-153, 201-218, 315-331, 421-459).        *)
OwnersContentKept ==
  [][Write => \A file \in Files :
       IF file # Head(run.left) THEN files'[file] = files[file]
       ELSE /\ UserParts(file, files'[file]) = UserParts(file, seen[file])
            /\ "edited" \notin run.conflicts => seen[file] = files[file]]_vars

(* "user content preserved" (runtimes.py:167) in full: a write leaves the     *)
(* matcher that it read for every group with a handler of the owner.  It does *)
(* not where the owner and K-ARC share a group (runtimes.py:325-327).         *)
OwnersMatchersKept ==
  [][Write /\ Head(run.left) = "hooks" =>
       \A event \in HookEvents : \A i \in DOMAIN seen.hooks.groups[event] :
         LET group == seen.hooks.groups[event][i]
         IN "user" \in {group.handlers[j] : j \in DOMAIN group.handlers} =>
              files'.hooks.groups[event][i].matcher = group.matcher]_vars

(* Nothing that the owner wrote is lost, not even between a read and a write. *)
(* It is: the whole file is written as it was planned.                        *)
EditsSurvive ==
  [][Write => \A file \in Files : UserParts(file, files'[file]) = UserParts(file, files[file])]_vars
=============================================================================
