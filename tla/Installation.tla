----------------------------- MODULE Installation -----------------------------
(***************************************************************************)
(* `ozm install` (src/ozm/install.py) and `ozm doctor` (doctor.py).  An    *)
(* installation goes through six files, each of which it reads, backs up,  *)
(* truncates and writes, or appends to; four of them belong to the user.   *)
(* None of this is atomic: it may be killed between any two steps, and     *)
(* while it writes, which leaves the text up to some character; a full     *)
(* disk does the same.  The user, and the agents, whose settings these     *)
(* are, edit the files at any time, but not in the moment between          *)
(* truncating and writing.                                                 *)
(*                                                                         *)
(* A file holds lines, or for settings.json the members of the object      *)
(* between its braces ("lbrace", "rbrace"); of what ozm adds the model     *)
(* keeps the lines that something depends on.  "blank" is an empty line,   *)
(* "<features>" the TOML header [features], "<other>" one of the user's    *)
(* sections.  ozm's tables of Codex hooks are "<<hooks>>", all before the  *)
(* path of the hook, "hook", from there to the end of the PreToolUse       *)
(* tables, and "permission", the PermissionRequest tables with the path    *)
(* once more.  "codex_hooks=false" is any other line that begins with      *)
(* codex_hooks, "part" a part of a line or of ozm's tables, and            *)
(* "hook_part" one with the path in it.                                    *)
(*                                                                         *)
(* History variables (not in the code): kills, edits, calm, mine, lost,    *)
(* aged, torn.                                                             *)
(*                                                                         *)
(* An operator named Action_Fault is Action with a plausible defect.  No   *)
(* specification uses it; it shows which property would catch the defect.  *)
(***************************************************************************)
EXTENDS Naturals, SequencesExt

CONSTANTS
    Key,        \* what the user's own lines say, each whole
    Missing,    \* held by a file that is not there
    Initial,    \* what the files may hold before anything happens
    Edits(_),   \* Edits(f): what the user or an agent may leave in it
    MaxFaults   \* edits and kills there may be

File == {"hook", "settings", "rules", "config", "CLAUDE.md", "AGENTS.md"}
Order == <<"hook", "settings", "rules", "config", "CLAUDE.md", "AGENTS.md">>

On == "codex_hooks=true"
Flag == {On, "codex_hooks=false"}
Header == {"<features>", "<other>", "<<hooks>>"}
Silent ==
    {"hook", "permission", "part", "hook_part", "script", "rules", "marker", "guide",
     "lbrace", "rbrace", "blank"}
Line == Key \cup Flag \cup Header \cup Silent
Content == Seq(Line) \cup {Missing}

(* The header of the section in which line i is, if any. *)
SectionOf(c, i) ==
    {c[h] : h \in {h \in 1..i : c[h] \in Header /\ \A k \in h + 1 .. i : c[k] \notin Header}}

(* The lines that set codex_hooks in [features]. *)
Switches(c) == {i \in DOMAIN c : c[i] \in Flag /\ SectionOf(c, i) = {"<features>"}}

(* A configuration in the form that the code knows, which looks at lines   *)
(* alone: TOML has neither a table nor a key in it twice, and besides each *)
(* header is bare (a comment behind [features] hides it from the code), no *)
(* other line begins with "[" and ends with "]", and features is no dotted *)
(* key and no inline table.                                                *)
InForm(c) ==
    /\ c \in Seq(Line)
    /\ \A i, j \in DOMAIN c : c[i] = "<features>" /\ c[j] = "<features>" => i = j
    /\ \A i, j \in Switches(c) : i = j

ASSUME MaxFaultsIsNatural == MaxFaults \in Nat
ASSUME FilesAreTyped ==
    Initial \subseteq [File -> Content] /\ \A f \in File : Edits(f) \subseteq Content
ASSUME MissingIsFresh == Missing \notin Seq(Line)
ASSUME KeysAreOwn == Key \cap (Flag \cup Header \cup Silent) = {}

(* Configurations in any other form are left out.                          *)
ASSUME ConfigurationsAreInForm ==
    \A c \in {x["config"] : x \in Initial} \cup Edits("config") : c = Missing \/ InForm(c)

VARIABLES
    file,       \* file[f]: what file f holds
    executable, \* the hook script's mode
    backup,     \* backup[f]: what <f>.bak-ozm holds
    pc,         \* what the installation does next, with file number at
    at,
    text,       \* what it is going to write
    project,    \* --project
    kills,      \* installations killed so far
    edits,      \* edits so far
    calm,       \* nobody has edited a file since the last one began
    mine,       \* mine[f]: what the user had in f when ozm last found or left it alone
    lost,       \* files with an edit, or a kill, that fell between two steps
    aged,       \* files the user has edited since ozm backed them up
    torn        \* the user, or a kill later on, has left the configuration in parts

disk == <<file, executable, backup>>
proc == <<pc, at, text, project>>
history == <<kills, edits, calm, mine, lost, aged, torn>>
vars == <<disk, proc, history>>

PC == {"idle", "read", "backup", "copy", "open", "write", "append", "chmod", "done"}

TypeOK ==
    /\ file \in [File -> Content]
    /\ executable \in BOOLEAN
    /\ backup \in [File -> Content]
    /\ pc \in PC
    /\ at \in 1..6
    /\ text \in Seq(Line)
    /\ project \in BOOLEAN
    /\ kills \in 0..MaxFaults
    /\ edits \in 0..MaxFaults
    /\ calm \in BOOLEAN
    /\ mine \in [File -> Content]
    /\ lost \subseteq File
    /\ aged \subseteq File
    /\ torn \in BOOLEAN

Has(c, line) == c # Missing /\ \E i \in DOMAIN c : c[i] = line

(* Every line is whole, and ozm's tables are all there or all missing.     *)
Whole(c) ==
    /\ ~Has(c, "part") /\ ~Has(c, "hook_part")
    /\ Has(c, "<<hooks>>") <=> Has(c, "hook")
    /\ Has(c, "hook") <=> Has(c, "permission")

Init ==
    /\ file \in Initial
    /\ executable = FALSE
    /\ backup = [f \in File |-> Missing]
    /\ pc = "idle" /\ at = 1 /\ text = <<>> /\ project = FALSE
    /\ kills = 0 /\ edits = 0 /\ calm = FALSE
    /\ mine = file
    /\ lost = {} /\ aged = {}
    /\ torn = ~Whole(file["config"])

-------------------------------------------------------------------------------
(* What belongs in the files. *)

Script == <<"script">>
Rules == <<"rules">>
Guide == <<"marker", "guide">>

IsJson(c) == c # Missing /\ c # <<>> /\ c[1] = "lbrace" /\ c[Len(c)] = "rbrace"

Hooked_Anew(c) == <<"lbrace", "hook", "rbrace">>

Hooked_IfThere(c) == IF c = Missing \/ Has(c, "hook") THEN c ELSE Front(c) \o <<"hook", "rbrace">>

Hooked_UnlessThere(c) == IF c = Missing THEN <<"lbrace", "hook", "rbrace">> ELSE c

(* The settings with the hook. *)
Hooked(c) ==
    IF c = Missing THEN <<"lbrace", "hook", "rbrace">>
    ELSE IF Has(c, "hook") THEN c
    ELSE Front(c) \o <<"hook", "rbrace">>

(* A text without the blank lines at its end. *)
Trimmed(c) ==
    LET n == CHOOSE n \in 0..Len(c) :
               (n > 0 => c[n] # "blank") /\ \A i \in n + 1 .. Len(c) : c[i] = "blank"
    IN  SubSeq(c, 1, n)

(* One line of _ensure_codex_hooks_feature's loop. *)
Take(s, line) ==
    CASE line = "<features>" ->
           [out |-> Append(s.out, line), inside |-> TRUE, saw |-> TRUE, on |-> FALSE]
      [] s.inside /\ line \in Header \ {"<features>"} ->
           [s EXCEPT !.out = (IF s.on THEN @ ELSE Append(@, On)) \o <<line>>, !.inside = FALSE]
      [] s.inside /\ line \in Flag ->
           [s EXCEPT !.out = Append(@, On), !.on = TRUE]
      [] OTHER -> [s EXCEPT !.out = Append(@, line)]

(* What the loop has written and seen after so many lines. *)
Scan(c) ==
    LET s[i \in 0..Len(c)] ==
            IF i = 0 THEN [out |-> <<>>, inside |-> FALSE, saw |-> FALSE, on |-> FALSE]
            ELSE Take(s[i - 1], c[i])
    IN  s

EnsureFeature(c) ==
    LET s == Scan(c)[Len(c)]
        out == IF s.inside /\ ~s.on THEN Append(s.out, On) ELSE s.out
    IN  Trimmed(out) \o IF s.saw THEN <<>> ELSE <<"blank", "<features>", On>>

(* The path of ozm's hook is somewhere in the text: ENFORCE_HOOK in config. *)
Mentioned(c) == Has(c, "hook") \/ Has(c, "permission") \/ Has(c, "hook_part")

HookTables == <<"blank", "<<hooks>>", "hook", "permission", "blank">>

(* The Codex configuration with hooks enabled and ozm's hook in it. *)
Configured(c) ==
    LET n == EnsureFeature(IF c = Missing THEN <<>> ELSE c)
    IN  IF Mentioned(n) THEN n ELSE Trimmed(n) \o HookTables

-------------------------------------------------------------------------------
(* The installation. *)

Here == Order[at]

Goto(place) == pc' = place /\ UNCHANGED <<at, text, project>>

Prepare(t, place) == text' = t /\ pc' = place /\ UNCHANGED <<at, project>>

Quit == pc' = "idle" /\ at' = 1 /\ text' = <<>> /\ project' = FALSE

(* On to the next file, if there is one. *)
Advance ==
    /\ IF at < IF project THEN 6 ELSE 4
       THEN pc' = "read" /\ at' = at + 1
       ELSE pc' = "done" /\ UNCHANGED at
    /\ text' = <<>>
    /\ UNCHANGED project

Begin(withProject) ==
    /\ pc \in {"idle", "done"}
    /\ pc' = "read" /\ at' = 1 /\ text' = <<>> /\ project' = withProject
    /\ calm' = TRUE
    /\ UNCHANGED <<disk, kills, edits, mine, lost, aged, torn>>

Reading(f) == pc = "read" /\ Here = f /\ UNCHANGED <<disk, history>>

(* The script is written without looking at what is there. *)
StartHook == Reading("hook") /\ Prepare(Script, "open")

(* json.load raises if the file is not whole. *)
ReadSettings ==
    /\ Reading("settings")
    /\ IF file["settings"] = Missing \/ IsJson(file["settings"])
       THEN Prepare(Hooked(file["settings"]), "open")
       ELSE Quit

ReadRules ==
    /\ Reading("rules")
    /\ IF file["rules"] = Rules THEN Advance ELSE Prepare(Rules, "backup")

ReadConfig ==
    /\ Reading("config")
    /\ LET next == Configured(file["config"])
       IN  IF file["config"] = next THEN Advance ELSE Prepare(next, "backup")

(* _write_file. *)
ReadGuide ==
    \E f \in {"CLAUDE.md", "AGENTS.md"} :
      /\ Reading(f)
      /\ IF file[f] = Missing THEN Prepare(Guide, "open")
         ELSE IF Has(file[f], "marker") THEN Advance
         ELSE Prepare(Guide, "append")

BackUp_Again ==
    /\ pc = "backup"
    /\ IF file[Here] # Missing
       THEN Goto("copy") /\ backup' = [backup EXCEPT ![Here] = <<>>]
       ELSE Goto("open") /\ UNCHANGED backup
    /\ UNCHANGED <<file, executable, history>>

(* A backup is made once: what was there before ozm. *)
BackUp ==
    /\ pc = "backup"
    /\ IF file[Here] # Missing /\ backup[Here] = Missing
       THEN Goto("copy") /\ backup' = [backup EXCEPT ![Here] = <<>>]
       ELSE Goto("open") /\ UNCHANGED backup
    /\ UNCHANGED <<file, executable, history>>

Copy ==
    /\ pc = "copy"
    /\ file[Here] # Missing
    /\ backup' = [backup EXCEPT ![Here] = file[Here]]
    /\ Goto("open")
    /\ UNCHANGED <<file, executable, history>>

(* open(path, "w") *)
Truncate ==
    /\ pc = "open"
    /\ file' = [file EXCEPT ![Here] = <<>>]
    /\ Goto("write")
    /\ UNCHANGED <<executable, backup, history>>

Write ==
    /\ pc = "write"
    /\ file' = [file EXCEPT ![Here] = text]
    /\ IF Here = "hook" THEN Goto("chmod") ELSE Advance
    /\ UNCHANGED <<executable, backup, history>>

AppendTo(c, t) == (IF c = Missing THEN <<>> ELSE c) \o <<"blank">> \o t

(* open(path, "a"): behind what is there now. *)
AppendText ==
    /\ pc = "append"
    /\ file' = [file EXCEPT ![Here] = AppendTo(@, text)]
    /\ Advance
    /\ UNCHANGED <<executable, backup, history>>

Chmod ==
    /\ pc = "chmod"
    /\ executable' = TRUE
    /\ Advance
    /\ UNCHANGED <<file, backup, history>>

-------------------------------------------------------------------------------
(* What may come between. *)

(* What there may be of a line when a kill falls into it. *)
Parts(line) ==
    CASE line \in {"blank", "lbrace", "rbrace"} -> {}
      [] line \in {"hook", "permission"} -> {"part", "hook_part"}
      [] line \in Flag -> {"part", "codex_hooks=false"}
      [] line \in {"<other>", "<<hooks>>"} -> {"part", line}
      [] OTHER -> {"part"}

(* What there may be of a text, cut between two lines or within one. *)
CutBetween(t) == {SubSeq(t, 1, n) : n \in 0..Len(t)}
CutWithin(t) ==
    UNION {{Append(SubSeq(t, 1, n - 1), p) : p \in Parts(t[n])} : n \in 1..Len(t)}
Cut(t) == CutBetween(t) \cup CutWithin(t)

(* A part of what was being written may be there. *)
Kill ==
    /\ pc \notin {"idle", "done"} /\ kills + edits < MaxFaults
    /\ \/ pc \notin {"copy", "write"} /\ UNCHANGED <<disk, torn>>
       \/ /\ pc = "copy" /\ file[Here] # Missing
          /\ \E c \in Cut(file[Here]) : backup' = [backup EXCEPT ![Here] = c]
          /\ UNCHANGED <<file, executable, torn>>
       \/ /\ pc = "write"
          /\ \/ \E c \in CutBetween(text) :
                  /\ file' = [file EXCEPT ![Here] = c]
                  /\ torn' = (torn \/ (Here = "config" /\ ~Whole(c)))
             \/ /\ \E c \in CutWithin(text) : file' = [file EXCEPT ![Here] = c]
                /\ torn' = (torn \/ Here = "config")
          /\ UNCHANGED <<executable, backup>>
       \/ /\ pc = "append"
          /\ \E c \in Cut(text) : file' = [file EXCEPT ![Here] = AppendTo(@, c)]
          /\ UNCHANGED <<executable, backup, torn>>
    /\ Quit
    /\ kills' = kills + 1
    /\ lost' = IF pc = "write" THEN lost \cup {Here} ELSE lost
    /\ UNCHANGED <<edits, calm, mine, aged>>

(* The user or an agent leaves other content, or removes the file. *)
Edit(f, c) ==
    /\ kills + edits < MaxFaults
    /\ Here = f => pc \notin {"copy", "write"}
    /\ file' = [file EXCEPT ![f] = c]
    /\ executable' = (executable /\ (f = "hook" => c # Missing))
    /\ mine' = [mine EXCEPT ![f] = c]
    /\ lost' = IF Here = f /\ pc \in {"backup", "open"} THEN lost \cup {f} ELSE lost \ {f}
    /\ aged' = IF backup[f] # Missing \/ (Here = f /\ pc = "open") THEN aged \cup {f} ELSE aged
    /\ torn' = IF f = "config"
               THEN ~Whole(c) \/ (torn /\ Here = f /\ pc \in {"backup", "open"})
               ELSE torn
    /\ calm' = FALSE
    /\ edits' = edits + 1
    /\ UNCHANGED <<backup, proc, kills>>

Next ==
    \/ \E withProject \in BOOLEAN : Begin(withProject)
    \/ StartHook \/ ReadSettings \/ ReadRules \/ ReadConfig \/ ReadGuide
    \/ BackUp \/ Copy \/ Truncate \/ Write \/ AppendText \/ Chmod
    \/ Kill
    \/ \E f \in File : \E c \in Edits(f) : Edit(f, c)

Spec == Init /\ [][Next]_vars

-------------------------------------------------------------------------------
(* `ozm doctor`. *)

HookScriptOK == file["hook"] = Script /\ executable
SettingsOK == IsJson(file["settings"]) /\ Has(file["settings"], "hook")
ProjectDocsOK == Has(file["AGENTS.md"], "marker")
CodexOK == Has(file["config"], On) /\ Mentioned(file["config"])
RulesOK == file["rules"] = Rules

-------------------------------------------------------------------------------
(* Properties. *)

(* What a file says for its user: keys, each in its section. *)
Meaning(c) ==
    {<<SectionOf(c, i), c[i]>> :
        i \in {j \in DOMAIN c :
                 c[j] \in Key \/ (c[j] \in Flag /\ SectionOf(c, j) # {"<features>"})}}

(* [features] sets codex_hooks to true, and only once, as TOML demands.    *)
Enabled(c) == \E i \in DOMAIN c : c[i] = On /\ Switches(c) = {i}

(* Both of ozm's hooks are there, and nothing in parts. *)
Enforced(c) == Enabled(c) /\ Whole(c) /\ Has(c, "hook")

(* When an installation has come to its end and nobody has edited a file   *)
(* since it began, doctor finds nothing to complain of, whatever the files *)
(* held and wherever earlier ones were killed.  Codex then has hooks       *)
(* enabled, once, in [features], and both of ozm's tables, unless it was   *)
(* given the configuration in parts: a kill may have cut it within a line  *)
(* or within ozm's tables, or an edit taken out one of them, of which      *)
(* neither install nor doctor sees more than that the path is there        *)
(* (install.py:479-545, doctor.py:30-113).                                 *)
InstallEnforces ==
    pc = "done" /\ calm =>
        /\ HookScriptOK /\ SettingsOK /\ CodexOK /\ RulesOK
        /\ project => ProjectDocsOK
        /\ ~torn => Enforced(file["config"])

(* What a file holds, or will when it has been written. *)
Held(f) == IF pc = "write" /\ Here = f THEN text ELSE file[f]

Keeps(f) == mine[f] # Missing => Held(f) # Missing /\ Meaning(Held(f)) = Meaning(mine[f])

(* Installing, once or again, keeps what the user has in the files that    *)
(* are shared, each key in its section, unless an edit came between        *)
(* reading a file and writing it, or a kill between truncating and writing *)
(* (install.py:453-468, 479-545, 548-576).                                 *)
UserContentKept ==
    \A f \in {"settings", "config", "CLAUDE.md", "AGENTS.md"} : f \in lost \/ Keeps(f)

(* What the user had before ozm is in the file or in its backup, in spite  *)
(* of one killed installation; the rules, which are replaced, as long as   *)
(* none was killed (install.py:471-476, 514-545).                          *)
OriginalSurvives ==
    /\ kills <= 1 /\ "config" \notin aged => Keeps("config") \/ backup["config"] = mine["config"]
    /\ kills = 0 /\ "rules" \notin aged =>
         mine["rules"] \in {Missing, Held("rules"), backup["rules"]}
===============================================================================
