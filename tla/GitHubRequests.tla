--------------------------- MODULE GitHubRequests ---------------------------
(***************************************************************************)
(* How ozm reads the arguments of `ozm gh`: the typed write operations and *)
(* the raw requests they replace (src/ozm/github_operations.py), what is   *)
(* known to be a read (github_api.py, github_graphql.py); and, external,   *)
(* what gh and GitHub make of the same arguments.                          *)
(*                                                                         *)
(* A request is [verb, words].  A word of `ozm gh api` is one argument,    *)
(* [join, flag, name, value] with "-" for what it does not have.  Its flag *)
(* is "-X", "-f", "-H", "--input", "-t" (any other option that takes a     *)
(* value), "-i" (any that takes none) or "?" (any that gh does not know);  *)
(* its join tells where the value is:                                      *)
(*    "alone"    `-X`, `--field`: the argument after it, if it takes one   *)
(*    "long="    `--method=POST`, `--field=body=x`                         *)
(*    "short"    `-XPOST`, `-fbody=x`                                      *)
(*    "short="   `-X=POST`, `-f=body=x`                                    *)
(*    "cluster"  `-iXPOST`, `-ifbody=x`                                    *)
(*    "text"     no option: an endpoint, or the value of an option         *)
(* A field has a name and a value, "@" for that of a file.  Empty          *)
(* arguments, `--`, and options before `api` are left out.  For a typed    *)
(* operation a word is an option with its value, however it is joined.     *)
(***************************************************************************)
EXTENDS GraphQL

CONSTANTS
    Repository,    \* well-formed OWNER/REPOSITORY values
    Number,        \* values that are positive integers
    GetOnly,       \* endpoints that only answer GET, with fields
    Target,        \* endpoints of the typed operations: replies and sub_issues
    Source(_),     \* Source(q): the text of query q (GraphQL)
    Document(_)    \* Document(q): its definitions, <<>> if it is none

Argument == [join : STRING, flag : STRING, name : STRING, value : STRING]

Flags(words) == {words[i].flag : i \in DOMAIN words}
ValueOf(words, flag) == words[CHOOSE i \in DOMAIN words : words[i].flag = flag].value

-----------------------------------------------------------------------------
(* Typed operations. *)

Required(verb) ==
    CASE verb = "pr.review-reply" -> {"--repo", "--number", "--comment-id"}
      [] verb = "issue.add-sub-issue" -> {"--repo", "--parent", "--sub-issue-id"}
      [] verb = "issue.create-batch" -> {"--repo", "--manifest"}

Texts(verb) == IF verb = "pr.review-reply" THEN {"--body", "--body-file"} ELSE {}

(* Each flag once, none unknown, none missing, one text where there is one *)
(* to give, and well-formed values.                                        *)
WellFormed(r) ==
    LET given == Flags(r.words)
        numbers == Required(r.verb) \ {"--repo", "--manifest"}
    IN  /\ \A i, j \in DOMAIN r.words : r.words[i].flag = r.words[j].flag => i = j
        /\ Required(r.verb) \subseteq given
        /\ given \subseteq Required(r.verb) \cup Texts(r.verb)
        /\ Texts(r.verb) # {} => Cardinality(given \cap Texts(r.verb)) = 1
        /\ ValueOf(r.words, "--repo") \in Repository
        /\ \A f \in numbers : ValueOf(r.words, f) \in Number

-----------------------------------------------------------------------------
(* Reading the arguments of `gh api`. *)

Takes(word, T) == word.join = "alone" /\ word.flag \in T

(* Where a reader stands who lets the options of T take the argument after *)
(* them: wherever an even number of such options stand right before.       *)
Starts(words, T) ==
    {i \in DOMAIN words :
        Cardinality({k \in 1..i - 1 : \A j \in k..i - 1 : Takes(words[j], T)}) % 2 = 0}

(* Option i would take an argument, and there is none. *)
Bare(words, i, T) == Takes(words[i], T) /\ i = Len(words)

(* What looks like an option and is taken for a value: no method, header   *)
(* or field that is told apart here.                                       *)
Opaque == [join |-> "text", flag |-> "-", name |-> "-", value |-> "-"]

(* What option i is given. *)
Given(words, i) ==
    IF words[i].join # "alone" THEN words[i]
    ELSE IF words[i + 1].join = "text" THEN words[i + 1] ELSE Opaque

(* How ozm reads a method: of `-X=POST` it takes "=POST". *)
MethodAt(words, i) == IF words[i].join = "short=" THEN "=" ELSE Given(words, i).value

MethodOf(words, methods, data) ==
    IF methods # {} THEN MethodAt(words, CHOOSE i \in methods : TRUE)
    ELSE IF data THEN "POST" ELSE "GET"

-----------------------------------------------------------------------------
(* Raw writes. *)

(* _raw_methods looks at every argument that is not a method's value.      *)
RawMethods(words) ==
    {i \in Starts(words, {"-X"}) :
        words[i].flag = "-X" /\ words[i].join # "cluster" /\ ~Bare(words, i, {"-X"})}

HasRequestData(words) ==
    \E i \in DOMAIN words : words[i].flag \in {"-f", "--input"} /\ words[i].join # "cluster"

IsEndpoint(word, e) == word.join = "text" /\ word.name = "-" /\ word.value = e

(* Among all arguments, the values of options included, one is e.          *)
OneMatches(words, e) == Cardinality({i \in DOMAIN words : IsEndpoint(words[i], e)}) = 1

RawWrite_ExplicitOnly(r) ==
    /\ r.verb = "api"
    /\ Cardinality(RawMethods(r.words)) <= 1
    /\ MethodOf(r.words, RawMethods(r.words), FALSE) = "POST"
    /\ \E e \in Target : OneMatches(r.words, e)

(* match_supported_raw_write: with several methods nothing is concluded. *)
RawWrite(r) ==
    /\ r.verb = "api"
    /\ Cardinality(RawMethods(r.words)) <= 1
    /\ MethodOf(r.words, RawMethods(r.words), HasRequestData(r.words)) = "POST"
    /\ \E e \in Target : OneMatches(r.words, e)

-----------------------------------------------------------------------------
(* Raw REST requests. *)

RestOption == {"-X", "-f", "-H", "-t"}
RestArguments(words, F) == {i \in Starts(words, RestOption) : words[i].flag \in F}
RestEndpoints(words) == {i \in Starts(words, RestOption) : words[i].join = "text"}

(* extract_rest_request makes nothing of argument i. *)
Unclear(words, i) ==
    \/ words[i].flag \in {"--input", "?"}
    \/ words[i].join = "cluster"
    \/ Bare(words, i, RestOption)
    \/ /\ words[i].join # "short="
       /\ \/ words[i].flag = "-f" /\ Given(words, i).value = "@"
          \/ words[i].flag = "-H" /\ Given(words, i).value \in {"override", "-"}

(* It finds one request without any ambiguity. *)
RestRequest(r) ==
    /\ r.verb = "api"
    /\ \A i \in Starts(r.words, RestOption) : ~Unclear(r.words, i)
    /\ Cardinality(RestArguments(r.words, {"-X"})) <= 1
    /\ Cardinality(RestEndpoints(r.words)) = 1
    /\ \A i \in RestEndpoints(r.words) : r.words[i].value # "graphql"

RestMethod(r) ==
    MethodOf(r.words, RestArguments(r.words, {"-X"}), RestArguments(r.words, {"-f"}) # {})

(* Refused, because its fields would make a read a POST. *)
ImplicitPost(r) ==
    /\ RestRequest(r)
    /\ RestMethod(r) = "POST"
    /\ ~\E i \in DOMAIN r.words : r.words[i].flag = "-X" /\ r.words[i].join # "cluster"
    /\ \A i \in RestEndpoints(r.words) : r.words[i].value \in GetOnly

-----------------------------------------------------------------------------
(* GraphQL requests. *)

(* The fields _extract_request sees: it knows no other option's value.     *)
Scanned(words, name) ==
    {i \in Starts(words, {"-f"}) :
        /\ words[i].flag = "-f" /\ words[i].join \in {"alone", "long="}
        /\ Given(words, i).name = name}

FieldOf(words, I) == Given(words, CHOOSE i \in I : TRUE).value
NameOf(words, I) == IF I = {} THEN "" ELSE FieldOf(words, I)
FromFile(words, I) == \E i \in I : Given(words, i).value = "@"

GraphQLRead(r) ==
    /\ r.verb = "api"
    /\ r.words # <<>> /\ IsEndpoint(r.words[1], "graphql")
    /\ \A i \in Starts(r.words, {"-f"}) :
         r.words[i].flag # "--input" /\ ~Bare(r.words, i, {"-f"})
    /\ LET query == Scanned(r.words, "query")
           name == Scanned(r.words, "operationName")
       IN  /\ Cardinality(query) = 1 /\ ~FromFile(r.words, query)
           /\ Cardinality(name) <= 1 /\ ~FromFile(r.words, name)
           /\ SelectedQuery(Tokenized(Source(FieldOf(r.words, query))), NameOf(r.words, name))

(* read_only_reason: what runs without being asked for. *)
KnownRead(r) ==
    \/ r.verb = "view"
    \/ RestRequest(r) /\ RestMethod(r) \in {"GET", "HEAD"}
    \/ GraphQLRead(r)

-----------------------------------------------------------------------------
(* What gh and GitHub do with `gh api` (external).  gh understands every   *)
(* join, takes one endpoint and the last method, and no field twice.       *)

GhOption == RestOption \cup {"--input"}
GhArguments(words, F) == {i \in Starts(words, GhOption) : words[i].flag \in F}
GhFields(words, name) == {i \in GhArguments(words, {"-f"}) : Given(words, i).name = name}
GhEndpoints(words) == {i \in Starts(words, GhOption) : words[i].join = "text"}
Endpoint(words) == words[CHOOSE i \in GhEndpoints(words) : TRUE].value

Accepted(words) ==
    /\ Cardinality(GhEndpoints(words)) = 1
    /\ \A i \in Starts(words, GhOption) : words[i].flag # "?" /\ ~Bare(words, i, GhOption)
    /\ \A name \in {"query", "operationName"} : Cardinality(GhFields(words, name)) <= 1

GhMethod(words) ==
    LET X == GhArguments(words, {"-X"})
    IN  IF X # {} THEN Given(words, CHOOSE i \in X : \A j \in X : j <= i).value
        ELSE IF GhArguments(words, {"-f", "--input"}) # {} THEN "POST" ELSE "GET"

(* The request changes something on GitHub, or may: what a file holds is   *)
(* not known.                                                              *)
Writes(words) ==
    /\ Accepted(words)
    /\ IF Endpoint(words) = "graphql"
       THEN LET query == GhFields(words, "query")
                name == GhFields(words, "operationName")
            IN  \/ GhArguments(words, {"--input"}) # {}
                \/ FromFile(words, query)
                \/ /\ query # {}
                   /\ LET D == Document(FieldOf(words, query))
                          names == IF FromFile(words, name) THEN {D[i].name : i \in DOMAIN D}
                                   ELSE {NameOf(words, name)}
                      IN  \E n \in names : Executed(D, n) = "mutation"
       ELSE \/ GhMethod(words) \notin {"GET", "HEAD"}
            \/ \E i \in GhArguments(words, {"-H"}) : Given(words, i).value = "override"

-----------------------------------------------------------------------------
(* For which arguments and queries ozm and gh can be expected to agree.    *)

(* The shapes github_operations.py:454 calls normal, as far as they go: an *)
(* option stands alone with a text for its value that is not one of the    *)
(* endpoints, or is joined to it in a way ozm knows.                       *)
NormalShape(words) ==
    \A i \in DOMAIN words :
        /\ words[i].join \notin {"short=", "cluster"}
        /\ Takes(words[i], GhOption) /\ i < Len(words) =>
              words[i + 1].join = "text" /\ \A e \in Target : ~IsEndpoint(words[i + 1], e)

(* No query has \""" in it, or a carriage return. *)
PlainQueries(words) ==
    \A i \in DOMAIN words : words[i].name = "query" =>
        LET text == Source(words[i].value)
        IN  \A k \in DOMAIN text : text[k] \notin {"escaped", "cr"}
=============================================================================
