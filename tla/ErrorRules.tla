----------------------------- MODULE ErrorRules -----------------------------
(***************************************************************************)
(* When an error of an upstream call counts: the rules shared by the retry *)
(* and the circuit breaker policies (pkg/policy/error_policy.go).          *)
(*                                                                         *)
(* A policy is [codes, messages, codeParser, messageParser]: error codes;  *)
(* message patterns, each the set of messages it matches (as a substring   *)
(* or as a regular expression); and the parsers of the response body, each *)
(* [parser, expression, statuses, types] with parser and expression TRUE   *)
(* when they are configured.                                               *)
(*                                                                         *)
(* A failure is [status, type, message, code, text]: status 0 without a    *)
(* response; the code and the text that the parsers find in the body, or   *)
(* "" when they find none.                                                 *)
(***************************************************************************)
EXTENDS Integers, Sequences, FiniteSets

Unparsed == [parser |-> FALSE, expression |-> FALSE, statuses |-> {}, types |-> {}]

\* A 200 passes whatever statuses are listed.
ParserMatches(p, failure) ==
    /\ failure.status = 200 \/ p.statuses = {} \/ failure.status \in p.statuses
    /\ p.types = {} \/ failure.type \in p.types

\* What the parser finds in the body of the failure.
Parses(p, failure) == p.parser /\ p.expression /\ ParserMatches(p, failure)

CodeMatches(policy, failure) ==
    IF policy.codeParser.parser /\ policy.codeParser.expression
    THEN Parses(policy.codeParser, failure) /\ failure.code # "" /\ failure.code \in policy.codes
    ELSE failure.status \in policy.codes

\* The empty message matches nothing.
FindMatchedErrorMessage(policy, message) == message # "" /\ message \in UNION policy.messages

MessageMatches(policy, failure) ==
    \/ Parses(policy.messageParser, failure) /\ FindMatchedErrorMessage(policy, failure.text)
    \/ FindMatchedErrorMessage(policy, failure.message)

\* Without any rule every error matches.
MatchError(policy, failure) ==
    \/ /\ policy.codes = {} /\ policy.messages = {}
       /\ ~policy.codeParser.parser /\ ~policy.messageParser.parser
    \/ CodeMatches(policy, failure)
    \/ MessageMatches(policy, failure)
=============================================================================
