----------------------------- MODULE MCInstallation -----------------------------
(* Constants for model checking Installation: of each file what an         *)
(* installation tells apart, and a few configurations of Codex.            *)
EXTENDS Installation

Lines == {"k", "l", "<features>", "<other>", "codex_hooks=true", "codex_hooks=false", "blank"}

(* TOML allows neither a key nor a section twice. *)
Valid(c) ==
    /\ \A i, j \in DOMAIN c : c[i] = c[j] /\ c[i] \in Key \cup Header => i = j
    /\ \A i, j \in DOMAIN c :
          {c[i], c[j]} \subseteq Flag /\ SectionOf(c, i) = SectionOf(c, j) => i = j

Longer ==
    {<<"k", "<features>", "l", "blank", "<other>", "codex_hooks=true">>,
     <<"<features>", "k", "codex_hooks=false", "<other>", "l", "blank", "blank">>}

Hooks == <<"<<hooks>>", "hook", "permission">>

(* Of every configuration of up to four lines, with ozm's tables or not,   *)
(* and of what has become of it before: hooks are enabled, the rest means  *)
(* what it did, and a second installation at the latest has nothing to     *)
(* change any more.                                                        *)
ASSUME ConfiguredIsRight ==
    \A c \in {c \in BoundedSeq(Lines, 4) : Valid(c)} \cup Longer \cup {c \o Hooks : c \in Longer} :
        LET once == Configured(c)
            twice == Configured(once)
        IN  /\ \A n \in {once, twice} : Enforced(n) /\ Meaning(n) = Meaning(c)
            /\ Configured(twice) = twice

Holding(s, r, c, a) ==
    [f \in File |-> CASE f = "settings" -> s
                     [] f = "rules" -> r
                     [] f = "config" -> c
                     [] f = "AGENTS.md" -> a
                     [] OTHER -> Missing]

MCInitial ==
    {Holding(Missing, Missing, Missing, Missing)}
    \cup {Holding(<<"lbrace", "k", "rbrace">>, <<"k">>, c, <<"k">>) :
              c \in {<<"k">>, <<"<features>", "codex_hooks=true">>} \cup Longer}

MCEdits(f) ==
    CASE f = "hook" -> {Missing, <<"l">>}
      [] f = "settings" -> {<<"lbrace", "l", "rbrace">>}
      [] f = "rules" -> {<<"l">>}
      [] f = "config" ->
           {<<"<features>", "l", "codex_hooks=false">> \o Hooks, <<"<<hooks>>", "hook", "l">>}
      [] f = "AGENTS.md" -> {<<"l">>}
      [] OTHER -> {}
===============================================================================
