---------------------------- MODULE MCGitHubWrites ----------------------------
(* Constants for model checking GitHubWrites with one call after another.  *)
(* Two files may hold two texts; a manifest names up to two issues.  The   *)
(* GraphQL queries come with the definitions they consist of, so that what *)
(* ozm makes of the text is compared with what GitHub would execute.       *)
EXTENDS GitHubWrites, TLC

CONSTANTS p1

W(join, flag, value) == [join |-> join, flag |-> flag, name |-> "-", value |-> value]
F(join, name, value) == [join |-> join, flag |-> "-f", name |-> name, value |-> value]
Alone(flag) == W("alone", flag, "-")
Plain(value) == W("text", "-", value)
Field(name, value) == [join |-> "text", flag |-> "-", name |-> name, value |-> value]
O(flag, value) == W("long=", flag, value)
R(verb, words) == [verb |-> verb, words |-> words]

MCRepository == {"o/r", "O/R", "o/s"}
MCFolded(r) == IF r = "O/R" THEN "o/r" ELSE r
MCManifests ==
    {<<>>,
     <<[title |-> "t1", file |-> "f1"], [title |-> "t2", file |-> "f2"]>>,
     <<[title |-> "t2", file |-> "f1"]>>}
Allow(op, repo) == [operation |-> op, repository |-> repo]
MCPolicies == {{Allow("pr.review-reply", "o/r")},
               {Allow("issue.add-sub-issue", "o/s"), Allow("pr.review-reply", "o/s")}}

-------------------------------------------------------------------------------
(* GraphQL documents: operations with their variables, and fragments. *)

Default == <<"(", "$", "v", ":", "T", "=", "{", "a", ":", "[", "]", "}", ")">>
Selected(kind, name, head, fields) ==
    [kind |-> kind, name |-> name, head |-> head, fields |-> fields]
Def(kind, name, head) == Selected(kind, name, head, <<"{", "f", "{", "g", "}", "}">>)
Fragment == Def("fragment", "", <<"X", "on", "T">>)
Argued == <<"{", "f", "(", "a", ":", ")", "{", "g", "}", "}">>

MCDocument(q) ==
    CASE q = "query" -> <<Def("query", "A", <<>>)>>
      [] q = "defaults" -> <<Def("query", "", Default)>>
      [] q = "short" -> <<Def("", "", <<>>), Fragment>>
      [] q = "mutation" -> <<Fragment, Def("mutation", "B", Default)>>
      [] q = "both" -> <<Def("query", "A", Default), Def("mutation", "B", <<>>)>>
      [] q = "unnamed" -> <<Def("mutation", "B", <<>>), Def("", "", <<>>)>>
      [] q = "described" -> <<Selected("query", "A", <<>>, Argued)>>
      [] q = "noted" -> <<Selected("mutation", "B", <<>>, Argued)>>
      [] q = "quoted" -> <<Selected("", "", <<>>, <<"{", "f", "(", "a", ":", ")", "}">>)>>
      [] q = "returned" ->
           <<Def("", "", <<>>), Selected("fragment", "", <<"X">>, <<"{", "g", "}">>)>>
      [] OTHER -> <<>>

(* "described" and "noted" are "query" and "mutation" with strings and     *)
(* comments; "quoted" and "returned" have what is not in PlainQueries.     *)
MCSource(q) ==
    CASE q = "described" ->
           <<"hash", "mutation", "{", "quote", "lf", "query", "A", "{", "f",
             "(", "a", ":", "quote", "}", "hash", "quote", ")", "{", "g", "}", "}", "hash">>
      [] q = "noted" ->
           <<"mutation", "B", "{", "f", "(", "a", ":", "triple", "quote", "}", "hash",
             "triple", ")", "{", "g", "}", "}">>
      [] q = "quoted" ->
           <<"{", "f", "(", "a", ":", "triple", "x", "escaped", "y", "triple", ")", "}">>
      [] q = "returned" -> <<"{", "f", "{", "g", "}", "}", "hash", "}", "cr", "fragment", "X",
                              "{", "g", "}">>
      [] MCDocument(q) = <<>> -> <<"query", "(", "{", "f", "}">>
      [] OTHER -> Rendered(MCDocument(q))

GraphQLCall(words) == R("api", <<Plain("graphql")>> \o words)

-------------------------------------------------------------------------------
Reply(repo, more) ==
    R("pr.review-reply",
      <<O("--repo", repo), O("--number", "1"), O("--comment-id", "2")>> \o more)
Batch == R("issue.create-batch", <<O("--repo", "o/r"), O("--manifest", "m")>>)

TypedRequests ==
    {Batch,
     R("issue.create-batch", <<O("--repo", "o/r")>>),
     Reply("O/R", <<O("--body", "x")>>),
     Reply("o/s", <<O("--body-file", "f1")>>),
     Reply("o/r", <<O("--body", "x"), O("--body-file", "f1")>>),
     Reply("o", <<O("--body", "x")>>),
     R("issue.add-sub-issue", <<O("--repo", "o/r"), O("--parent", "1"), O("--sub-issue-id", "2")>>),
     R("issue.add-sub-issue", <<O("--repo", "o/r"), O("--parent", "0"), O("--sub-issue-id", "2")>>)}

RestRequests ==
    {R("view", <<>>),
     R("api", <<Plain("replies")>>),
     R("api", <<Plain("replies"), Alone("-f"), Field("body", "x")>>),
     R("api", <<O("-X", "POST"), Plain("sub_issues"), Alone("-X"), Plain("POST")>>),
     R("api", <<Plain("sub_issues"), W("short", "-X", "GET"), F("short", "body", "x")>>),
     R("api", <<W("short", "-X", "POST"), Plain("sub_issues"), Alone("--input"), Plain("@")>>),
     R("api", <<Plain("search"), F("long=", "q", "x")>>),
     R("api", <<Alone("-H"), Plain("override"), Plain("search")>>),
     R("api", <<Alone("-i"), Alone("-t"), Plain("replies"), Plain("search")>>),
     R("api", <<Plain("replies"), Alone("-t"), Alone("-t"), O("-t", "x")>>),
     R("api", <<Plain("replies"), W("short=", "-X", "GET"), Alone("-f"), Field("q", "x")>>),
     R("api", <<W("cluster", "-X", "GET"), Plain("search"), F("short=", "q", "x")>>),
     R("api", <<W("alone", "?", "-"), F("long=", "q", "@"), Plain("search")>>)}

GraphQLRequests ==
    {GraphQLCall(<<F("long=", "query", q)>>) :
        q \in {"query", "defaults", "short", "mutation", "both", "unnamed", "broken", "@",
               "described", "noted", "quoted", "returned"}}
    \cup {GraphQLCall(<<Alone("-f"), Field("operationName", n), F("long=", "query", "both")>>) :
             n \in {"A", "B"}}
    \cup {GraphQLCall(<<F("short", "query", "mutation"), F("long=", "query", "query")>>),
          GraphQLCall(<<F("short", "query", "mutation")>>),
          GraphQLCall(<<Alone("-t"), F("long=", "query", "query"), F("long=", "query", "query")>>),
          GraphQLCall(<<F("long=", "query", "query"), O("--input", "@")>>)}

MCRequest == TypedRequests \cup RestRequests \cup GraphQLRequests
===============================================================================
