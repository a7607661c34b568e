------------------------------ MODULE Console ------------------------------
(***************************************************************************)
(* The interactive run builder (tui/console.go, taskpicker.go) and the     *)
(* settings file behind it (config/settings.go): a form whose fields come  *)
(* and go with the task, four screens over it, and the hand-off to the     *)
(* dashboard (module Watcher) or to the gather view.  Texts are opaque;    *)
(* Fields is the form's table of fields.                                   *)
(***************************************************************************)
EXTENDS GatherView, Inventory

CONSTANTS
    Verbs,           \* the tasks, in the order of the field
    Fields,          \* key, kind, the tasks that show it, ssh: only with ssh
    DefaultForm,     \* what each field holds before any settings
    OptionsOf,       \* the options of the selects
    Texts,           \* what may be typed into the text fields, of the settings too
    Needs,           \* the text fields that buildTask and buildLdap require
    PatternsOf,      \* the globs in a text
    Durations,       \* the texts that time.ParseDuration accepts
    TopMatch,        \* the short name that type-ahead offers for a text, or ""
    SettingFields,   \* the settings form: key and kind
    DefaultQueries,  \* DefaultGatherQueries: cmd and parse
    TaskQuery,       \* what may be typed into the task picker
    TaskHits,        \* the tasks that match it, by name or description
    Lists,           \* the states of the list files and of the directory
    SavedSettings,   \* the settings files there may be at first
    OsOf,            \* what the registry says of the targets
    MaxEdited        \* bound: see NearFresh

Task(form) == form["tasktype"]
FormKey == {Fields[i].key : i \in DOMAIN Fields}
SettingKey == {SettingFields[i].key : i \in DOMAIN SettingFields}

\* The fields that the code asks for by name, and what they are.
TextKeys == {"inventory", "match", "gather_cmd", "svc_name", "wait"}
SelectKeys == {"gather_query", "gather_parse", "transport"}
ToggleKeys == {"whatif", "shuffle"}

\* No key is given twice, and the task is a field of every task.
ASSUME FormAssumption ==
    /\ Verbs \in Seq(STRING) /\ OptionsOf["tasktype"] = Verbs
    /\ Fields \in Seq([key : STRING, kind : {"text", "select", "toggle", "button"},
                       tasks : SUBSET ToSet(Verbs), ssh : BOOLEAN])
    /\ \A i, j \in DOMAIN Fields : Fields[i].key = Fields[j].key => i = j
    /\ 1 \in DOMAIN Fields
    /\ Fields[1] = [key |-> "tasktype", kind |-> "select", tasks |-> ToSet(Verbs), ssh |-> FALSE]
    /\ TextKeys \cup SelectKeys \cup ToggleKeys \subseteq FormKey
    /\ \A i \in DOMAIN Fields :
           /\ Fields[i].key \in TextKeys => Fields[i].kind = "text"
           /\ Fields[i].key \in SelectKeys => Fields[i].kind = "select"
           /\ Fields[i].key \in ToggleKeys => Fields[i].kind = "toggle"
    /\ DOMAIN DefaultForm = FormKey
    /\ DefaultForm["tasktype"] \in ToSet(Verbs) /\ DefaultForm["gather_query"] = 1
    /\ MaxEdited \in Nat

\* A library of queries is a list of commands with their parsers.
ASSUME QueriesAssumption ==
    {DefaultQueries} \cup {s.queries : s \in SavedSettings}
        \subseteq Seq([cmd : STRING, parse : STRING])

\* A list file has lines, and a target is one that counts.
ASSUME ListsAssumption ==
    /\ \A ls \in Lists : "ldap" \in DOMAIN ls /\ \A path \in DOMAIN ls : ls[path] \in Seq(Line)
    /\ DOMAIN NameCell = Line \ Ignored
    /\ OsOf \in [Line \ Ignored -> Cell] /\ DefaultForm["whatif"] \in BOOLEAN

VARIABLES
    c,      \* the Console value
    lists,  \* files of targets by path, and what ldapsearch would print
    saved,  \* the settings file; "" and <<>> are left out of it
    run     \* the plan handed over, and what was shown of it

consoleVars == <<c, lists, saved, run>>
vars == <<consoleVars, screen, viewVars>>

NoRun == [task |-> "", targets |-> <<>>, dry |-> FALSE, parse |-> "raw",
          os |-> <<>>, shown |-> <<>>, asShown |-> FALSE]
Unset == [transport |-> "", hosts |-> "", queries |-> <<>>]

-----------------------------------------------------------------------------
(* The form.                                                               *)

Visible(form, i) ==
    /\ Task(form) \in Fields[i].tasks
    /\ Fields[i].ssh => form["transport"] = "ssh"

\* Mutation: hidden fields are not skipped.
MoveFocusByOne(cn, delta) ==
    [cn EXCEPT !.focus = ((@ - 1 + delta) % Len(Fields)) + 1]

\* moveFocus: round the form to the next field that is shown.
MoveFocus(cn, delta) ==
    LET Field(k) == ((cn.focus - 1 + k * delta) % Len(Fields)) + 1
        first == Min({n \in 1..Len(Fields) : Visible(cn.form, Field(n))} \cup {Len(Fields)})
    IN  [cn EXCEPT !.focus = Field(first)]

Options(cn, key) ==
    IF key = "gather_query" THEN [i \in 1..(Len(cn.queries) + 1) |-> i] ELSE OptionsOf[key]

Cycled(opts, value, delta) ==
    LET i == CHOOSE n \in DOMAIN opts : opts[n] = value
    IN  opts[((i - 1 + delta) % Len(opts)) + 1]

SetText(cn, key, value) == [cn EXCEPT !.form[key] = value]

\* setSelect: an option that the field does not have is ignored.
SetSelect(cn, key, value) ==
    IF Contains(Options(cn, key), value) THEN [cn EXCEPT !.form[key] = value] ELSE cn

\* Mutation: "(custom)" takes the last query again.
ApplyQueryClamped(cn) ==
    LET q == cn.queries[Min({cn.form["gather_query"], Len(cn.queries)})]
    IN  SetSelect(SetText(cn, "gather_cmd", q.cmd), "gather_parse", q.parse)

\* applyQuery; the last option is "(custom)".
ApplyQuery(cn) ==
    IF cn.form["gather_query"] > Len(cn.queries) THEN cn
    ELSE LET q == cn.queries[cn.form["gather_query"]]
         IN  SetSelect(SetText(cn, "gather_cmd", q.cmd), "gather_parse", q.parse)

\* applySettings: only what is set.
ApplySettings(cn, s) ==
    LET tr == IF s.transport = "" THEN cn ELSE SetSelect(cn, "transport", s.transport)
    IN  IF s.hosts = "" THEN tr ELSE SetText(tr, "inventory", s.hosts)

GatherLibrary(s) == IF s.queries = <<>> THEN DefaultQueries ELSE s.queries

SettingsForm(s) ==
    [k \in SettingKey |-> CASE k = "s_transport" -> IF s.transport = "ssh" THEN "ssh" ELSE "local"
                            [] k = "s_hosts" -> s.hosts
                            [] OTHER -> ""]

\* What the screens over the form keep for themselves; it is set anew when one is
\* opened.  fresh: the lists are as the preview found them.
NoScreen(cn) ==
    [cn EXCEPT !.browseKey = "", !.names = <<>>, !.fresh = TRUE, !.settingFocus = 1,
               !.taskFilter = "", !.taskCursor = 0]

NewConsole(s) ==
    ApplyQuery(ApplySettings(
        [form |-> DefaultForm, focus |-> 1, queries |-> GatherLibrary(s), overlays |-> {},
         settings |-> SettingsForm(s), browseKey |-> "", names |-> <<>>, fresh |-> TRUE,
         settingFocus |-> 1, taskFilter |-> "", taskCursor |-> 0], s))

\* The order in which Update asks who gets a key, and View what is drawn.
FirstOf(order, overlays) ==
    LET on == {i \in DOMAIN order : order[i] \in overlays}
    IN  IF on = {} THEN "form" ELSE order[Min(on)]
Receiver(cn) == FirstOf(<<"browsing", "taskPicking", "previewing", "settingsMode">>, cn.overlays)
Drawn(cn) == FirstOf(<<"browsing", "previewing", "settingsMode", "taskPicking">>, cn.overlays)

At(mode) == screen = "builder" /\ Receiver(c) = mode
Focused == Fields[c.focus]
FormHas(kind) == At("form") /\ Focused.kind = kind

Becomes(cn) == c' = cn /\ UNCHANGED <<lists, saved, run, screen, viewVars>>
Open(overlay, cn) == Becomes([cn EXCEPT !.overlays = @ \cup {overlay}])
Close(overlay, cn) == Becomes(NoScreen([cn EXCEPT !.overlays = @ \ {overlay}]))

Tab(delta) == At("form") /\ Becomes(MoveFocus(c, delta))
Type ==
    /\ FormHas("text")
    /\ \E value \in Texts[Focused.key] : Becomes(SetText(c, Focused.key, value))

\* left and right; any other key on the query field prefills again as well.
Select(delta) ==
    /\ FormHas("select") /\ (delta = 0 => Focused.key = "gather_query")
    /\ LET key == Focused.key
           cn == [c EXCEPT !.form[key] = Cycled(Options(c, key), @, delta)]
       IN  Becomes(IF key = "gather_query" THEN ApplyQuery(cn) ELSE cn)
Flick == FormHas("toggle") /\ Becomes([c EXCEPT !.form[Focused.key] = ~@])

\* ctrl+y
AcceptService ==
    /\ At("form") /\ Focused.key = "svc_name" /\ TopMatch[c.form["svc_name"]] # ""
    /\ Becomes(SetText(c, "svc_name", TopMatch[c.form["svc_name"]]))

-----------------------------------------------------------------------------
(* The file browser and the task picker.                                   *)

\* ctrl+o
Browse == FormHas("text") /\ Open("browsing", [c EXCEPT !.browseKey = Focused.key])
BrowseCancel == At("browsing") /\ Close("browsing", c)
BrowseSelect ==
    /\ At("browsing")
    /\ \E path \in DOMAIN lists \ {"ldap"} : Close("browsing", SetText(c, c.browseKey, path))

TaskMatches(cn) == SelectSeq(Verbs, LAMBDA v : v \in TaskHits[cn.taskFilter])

OpenTaskPicker ==
    /\ At("form") /\ Focused.key = "tasktype"
    /\ Open("taskPicking", [c EXCEPT !.taskFilter = "", !.taskCursor = 0])
PickerCancel == At("taskPicking") /\ Close("taskPicking", c)

\* Whichever task is picked, the gather fields are filled from the query again.
PickerEnter ==
    /\ At("taskPicking")
    /\ LET m == TaskMatches(c)
           at == Min({c.taskCursor, Len(m) - 1})
       IN  Close("taskPicking", IF m = <<>> THEN c
                                ELSE ApplyQuery(SetSelect(c, "tasktype", m[at + 1])))
PickerMove(delta) ==
    /\ At("taskPicking") /\ c.taskCursor + delta \in 0..(Len(TaskMatches(c)) - 1)
    /\ Becomes([c EXCEPT !.taskCursor = @ + delta])
PickerType ==
    /\ At("taskPicking")
    /\ \E q \in TaskQuery :
           LET cn == [c EXCEPT !.taskFilter = q]
           IN  Becomes([cn EXCEPT !.taskCursor = Clamp(@, Len(TaskMatches(cn)))])

-----------------------------------------------------------------------------
(* The settings screen.                                                    *)

SettingHas(kind) == At("settingsMode") /\ SettingFields[c.settingFocus].kind = kind

EnterSettings == At("form") /\ Open("settingsMode", [c EXCEPT !.settingFocus = 1])
SettingsCancel == At("settingsMode") /\ Close("settingsMode", c)
SettingsTab(delta) ==
    /\ At("settingsMode")
    /\ Becomes([c EXCEPT !.settingFocus = ((@ - 1 + delta) % Len(SettingFields)) + 1])
SettingsSelect(delta) ==
    /\ SettingHas("select")
    /\ Becomes([c EXCEPT !.settings["s_transport"] = Cycled(OptionsOf["transport"], @, delta)])
SettingsType ==
    /\ SettingHas("text")
    /\ \E value \in Texts["s_hosts"] : Becomes([c EXCEPT !.settings["s_hosts"] = value])

\* saveSettings: the query library is not among what is written.
Written ==
    [transport |-> c.settings["s_transport"], hosts |-> c.settings["s_hosts"], queries |-> <<>>]
Save ==
    /\ SettingHas("button")
    /\ saved' = Written
    /\ c' = ApplySettings(c, Written)
    /\ UNCHANGED <<lists, run, screen, viewVars>>

\* The write may fail after the file is cut; a file that cannot be parsed counts
\* as empty.
SaveFails ==
    /\ SettingHas("button")
    /\ saved' = Unset
    /\ UNCHANGED <<c, lists, run, screen, viewVars>>

-----------------------------------------------------------------------------
(* Preview and launch.                                                     *)

Complete(form) == \A key \in Needs[Task(form)] : form[key] # ""
Globs(form) == PatternsOf[form["match"]]

\* resolveInventory, for the preview.
Resolvable(form) ==
    IF Task(form) = "ldapset" THEN Complete(form)
    ELSE form["inventory"] \in DOMAIN lists /\ Globs(form) \cap Malformed = {}
Resolved(form) ==
    IF Task(form) = "ldapset" THEN LoadInventory(lists["ldap"])
    ELSE Match(LoadInventory(lists[form["inventory"]]), Globs(form))

\* ctrl+p
Preview ==
    /\ At("form") /\ Resolvable(c.form)
    /\ Open("previewing", [c EXCEPT !.names = Resolved(c.form), !.fresh = TRUE])
PreviewCancel ==
    At("previewing") /\ Close("previewing", c)

\* Mutation: launch leaves the filter to the preview.
LaunchTargetsUnmatched(form) ==
    IF Task(form) = "ldapset" THEN LoadInventory(lists["ldap"])
    ELSE LoadInventory(lists[form["inventory"]])

\* launch reads the list, and runs the directory's query, once more.
LaunchTargets(form) ==
    IF Task(form) = "ldapset" THEN LoadInventory(lists["ldap"])
    ELSE LET inv == LoadInventory(lists[form["inventory"]])
         IN  IF Globs(form) = {} THEN inv ELSE Match(inv, Globs(form))

\* What launch checks; gather takes no part in the lifecycle.
Launchable(form) ==
    /\ Task(form) # "ldapset" =>
           form["inventory"] \in DOMAIN lists /\ Globs(form) \cap Malformed = {}
    /\ Complete(form)
    /\ LaunchTargets(form) # <<>>
    /\ Task(form) # "gather" => form["wait"] \in Durations

\* The Console is no more, and the lists are read by nobody until the next one.
Gone == c' = NewConsole(Unset) /\ lists' = CHOOSE ls \in Lists : TRUE

\* The Console is replaced by the model of the view that takes over.
HandOff(shown, asShown) ==
    /\ Launchable(c.form)
    /\ \E targets \in IF c.form["shuffle"] THEN Shuffles(LaunchTargets(c.form))
                                           ELSE {LaunchTargets(c.form)} :
           run' = [task |-> Task(c.form), targets |-> targets, dry |-> c.form["whatif"],
                   parse |-> IF Task(c.form) = "gather" THEN c.form["gather_parse"] ELSE "raw",
                   os |-> <<>>, shown |-> shown, asShown |-> asShown]
    /\ screen' = IF Task(c.form) = "gather" THEN "gather" ELSE "watch"
    /\ Gone /\ UNCHANGED <<saved, viewVars>>

\* ctrl+g, or enter on the button.
Launch == At("form") /\ HandOff(<<>>, FALSE)

\* enter on the preview
PreviewLaunch == At("previewing") /\ HandOff(c.names, c.fresh)

\* launch comes back with an error; ldapsearch may fail at any time.
PreviewLaunchFails ==
    /\ At("previewing") /\ (~Launchable(c.form) \/ Task(c.form) = "ldapset")
    /\ Close("previewing", c)

-----------------------------------------------------------------------------
(* The program.                                                            *)

Init ==
    /\ saved \in SavedSettings /\ lists \in Lists /\ run = NoRun
    /\ c = NewConsole(saved) /\ screen = "builder"
    /\ BlankView

\* Somebody saves a list file; the directory changes.
EditLists ==
    /\ screen = "builder"
    /\ lists' \in Lists
    /\ c' = [c EXCEPT !.fresh = @ /\ "previewing" \notin c.overlays]
    /\ UNCHANGED <<saved, run, screen, viewVars>>

\* ctrl+c or esc in the form; the dashboard ends or is quit.
Leave ==
    /\ At("form") \/ screen = "watch"
    /\ screen' = "closed" /\ Gone /\ run' = NoRun
    /\ UNCHANGED <<saved, viewVars>>

\* The next invocation of fleet: the console, or gather --tui with a registry.
Start ==
    /\ screen = "closed"
    /\ \/ /\ screen' = "builder" /\ c' = NewConsole(saved) /\ lists' \in Lists
          /\ run' = NoRun
       \/ /\ screen' = "gather" /\ Gone
          /\ \E ls \in Lists : \E path \in DOMAIN ls \ {"ldap"} :
                 LET inv == LoadInventory(ls[path])
                 IN  inv # <<>> /\ run' = [NoRun EXCEPT !.targets = inv, !.os = OsOf]
    /\ UNCHANGED <<saved, viewVars>>

\* Bound: fields, the choices of task and query aside, changed from a form that
\* the program starts with.
NearFresh(form) ==
    \E s \in SavedSettings :
        Cardinality({key \in FormKey \ {"tasktype", "gather_query"} :
                        form[key] # NewConsole(s).form[key]}) <= MaxEdited

BuilderStep ==
    /\ \/ \E delta \in {-1, 1} : Tab(delta) \/ SettingsTab(delta) \/ SettingsSelect(delta)
                                   \/ PickerMove(delta)
       \/ \E delta \in {-1, 0, 1} : Select(delta)
       \/ Type \/ Flick \/ AcceptService
       \/ Browse \/ BrowseCancel \/ BrowseSelect
       \/ OpenTaskPicker \/ PickerCancel \/ PickerEnter \/ PickerType
       \/ EnterSettings \/ SettingsCancel \/ SettingsType \/ Save \/ SaveFails
       \/ Preview \/ PreviewCancel \/ Launch \/ PreviewLaunch \/ PreviewLaunchFails
    /\ screen' = "builder" => NearFresh(c'.form)

GatherStep ==
    /\ \/ /\ \E rs \in Results(run.targets, run.dry) : Load(rs, run.parse, run.os)
          /\ run' = NoRun   \* it is not looked at again
       \/ ViewStep /\ UNCHANGED run
    /\ UNCHANGED <<c, lists, saved>>

Next == BuilderStep \/ GatherStep \/ EditLists \/ Leave \/ Start

Spec == Init /\ [][Next]_vars

-----------------------------------------------------------------------------
\* A key goes to the screen that is drawn, whatever the order in which Update and
\* View look at the flags, and in the form to a field that is shown.  Only where
\* the settings screen took away ssh under a focused ssh field is the field that
\* gets the keys not on the form.
KeysGoWhereShown ==
    screen = "builder" =>
        /\ Receiver(c) = Drawn(c)
        /\ Visible(c.form, c.focus) \/ (Focused.ssh /\ c.form["transport"] # "ssh")

\* "See exactly who you're about to hit": a run launched from the preview hits the
\* targets of the preview, no more and no fewer, unless the list or the directory
\* was changed while it was on the screen, for launch resolves them again.
PreviewIsHit ==
    screen \in {"watch", "gather"} /\ run.asShown =>
        ToSet(run.targets) = ToSet(run.shown) /\ Len(run.targets) = Len(run.shown)

\* The gather command changes only by typing or browsing in its own field, or to
\* the command of the query that is then selected: with "(custom)" selected
\* nothing overwrites what was typed, not even the task picker.
CommandIsKept ==
    [][screen = "builder" /\ screen' = "builder"
            /\ c'.form["gather_cmd"] # c.form["gather_cmd"] =>
        \/ Receiver(c) = "form" /\ Focused.key = "gather_cmd"
        \/ Receiver(c) = "browsing" /\ c.browseKey = "gather_cmd"
        \/ /\ c'.form["gather_query"] \in DOMAIN c'.queries
           /\ c'.form["gather_cmd"] = c'.queries[c'.form["gather_query"]].cmd]_vars
=============================================================================
