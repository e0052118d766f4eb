----------------------------- MODULE ToolCommands -----------------------------
(***************************************************************************)
(* The commands that call a tool and that list the tools of all servers:   *)
(* the arguments of a command line, given in several forms and read in     *)
(* several passes; the choice of the server and of the tool; one request   *)
(* and what is done with its result; and the inspection of many servers    *)
(* at once.                                                                *)
(***************************************************************************)
EXTENDS Integers, Sequences, FiniteSets, SequencesExt

CONSTANTS
    Inspected,          \* servers of the configuration, in name order: 1..n
    MaxInspections      \* inspections under way at once

ASSUME ToolCommandsAssumption == Inspected \in Nat /\ MaxInspections \in Nat \ {0}

VARIABLES
    call,               \* one call command: its line, its arguments, its outcome
    listing,            \* one list command: its reports
    inspections         \* the inspection of each server

toolVars == <<call, listing, inspections>>

\* Property names of a tool, one with an alias on the command line, and a name that is no property.
Properties == <<"baz", "fooBar">>
Keys == {"baz", "fooBar", "foo-bar", "other"}
PropertyName(key, schema) == IF schema /\ key = "foo-bar" THEN "fooBar" ELSE key
IsProperty(key) == key \in ToSet(Properties)

Values == [id : Nat, is : {"text", "number"}]
NoArguments == [key \in {} |-> 0]

ToolCommandsTypeOK ==
  /\ call.at \in {"reading", "selecting", "persisting", "connecting", "listing", "resolving",
                  "hydrating", "calling", "rendering", "exporting", "tailing", "done", "failed"}
  /\ DOMAIN call.arguments \subseteq Keys
  /\ \A key \in DOMAIN call.arguments : call.arguments[key] \in Values
  /\ call.requests \in Nat /\ call.rendered \in BOOLEAN
  /\ listing.at \in {"reading", "inspecting", "reporting", "done", "failed"}
  /\ listing.reports \in Seq([server : 1..Inspected, outcome : {"listed", "selection", "failed"}])
  /\ listing.next \in 1..(Inspected + 1)
  /\ inspections \in [1..Inspected -> {"waiting", "connecting", "listed", "selection", "failed", "joined"}]

NewCall(op) ==
  [at |-> "reading", op |-> op, inputs |-> <<>>, arguments |-> NoArguments, requests |-> 0,
   rendered |-> FALSE, fate |-> "none"]

ToolCommandsInit(op, list) ==
  /\ call = [NewCall(op) EXCEPT !.at = IF op.kind = "none" THEN "done" ELSE @]
  /\ listing = [at |-> IF list.kind = "none" THEN "done" ELSE "reading", op |-> list, next |-> 1,
                reports |-> <<>>]
  /\ inspections = [s \in 1..Inspected |-> "waiting"]

----------------------------------------------------------------------------
(* The command line.                                                       *)

\* The members of a finite set by their keys: before each stand those with lower keys.
InOrderOf(S, key) ==
  [i \in 1..Cardinality(S) |-> CHOOSE x \in S : Cardinality({y \in S : key[y] < key[x]}) = i - 1]

\* The places of a line that have one of some kinds, those of one kind after the others.
PlacesIn(line, kinds, last) ==
  LET places == {i \in DOMAIN line : line[i].kind \in kinds} IN
  InOrderOf(places, [i \in places |-> IF line[i].kind = last THEN Len(line) + i ELSE i])

\* Options of an ad hoc server need one, and agree with what it is.
Present(adhoc) == adhoc.url \/ adhoc.command
AdHocValid(adhoc) ==
  /\ (adhoc.persist \/ adhoc.http \/ adhoc.stdio) => Present(adhoc)
  /\ ~(adhoc.command /\ adhoc.http) /\ ~(adhoc.url /\ adhoc.stdio)

\* A selector that contradicts the flags, or no server at all.
Misspelt(op) == op.selector = "conflict" \/ (op.selector = "missing" /\ ~Present(op.adhoc))

\* Options are taken as they come; positional names only when the line has been read.
Gathered(line) ==
  LET places == PlacesIn(line, {"json", "stdin", "flag", "named"}, "named") IN
  [k \in DOMAIN places |-> [order |-> places[k], input |-> line[places[k]]]]

\* The inputs are applied as they were gathered.
AsGathered(inputs) == inputs

\* The inputs are applied in the order of the command line.
InOrder(inputs) ==
  LET places == InOrderOf(DOMAIN inputs, [k \in DOMAIN inputs |-> inputs[k].order]) IN
  [k \in DOMAIN places |-> inputs[places[k]]]

UnreadableFile(line) == \E i \in DOMAIN line : line[i].kind = "badfile"

\* Positional values, those after the end of options last.
Positionals(line) ==
  LET places == PlacesIn(line, {"positional", "literal"}, "literal") IN [k \in DOMAIN places |-> line[places[k]]]

\* A value of the line takes the type of its property, unless strings stay raw.
Hydrated(key, value, op) ==
  IF op.schema /\ IsProperty(key) /\ ~op.raw /\ op.types[key] = "text"
  THEN [value EXCEPT !.is = "text"] ELSE value

Inserted(arguments, key, value, op, schema) ==
  LET name == PropertyName(key, schema)
      placed == IF schema THEN Hydrated(name, value, op) ELSE value IN
  [k \in DOMAIN arguments \cup {name} |-> IF k = name THEN placed ELSE arguments[k]]

\* One pair after the other, each over what came before.
AppliedPairs(arguments, pairs, op, schema) ==
  LET after[k \in 0..Len(pairs)] ==
        IF k = 0 THEN arguments ELSE Inserted(after[k - 1], pairs[k].key, pairs[k].value, op, schema) IN
  after[Len(pairs)]

\* One input after the other.
AppliedInputs(inputs, op, schema) ==
  LET after[k \in 0..Len(inputs)] ==
        IF k = 0 THEN NoArguments ELSE AppliedPairs(after[k - 1], inputs[k].input.pairs, op, schema) IN
  after[Len(inputs)]

\* An option names a property of the tool, and no name may stand for two of them.
UnknownOption(op) ==
  \E i \in DOMAIN op.line :
    op.line[i].kind = "flag" /\ ~IsProperty(PropertyName(op.line[i].pairs[1].key, TRUE))
AmbiguousName(op) ==
  op.ambiguous /\ \E i \in DOMAIN op.line : \E k \in DOMAIN op.line[i].pairs : op.line[i].pairs[k].key = "foo-bar"

\* Each positional value goes to the first property that has none yet.
Placed(arguments, value, op) ==
  LET free == {i \in DOMAIN Properties : Properties[i] \notin DOMAIN arguments} IN
  IF free = {} THEN arguments ELSE Inserted(arguments, Properties[Min(free)], value, op, TRUE)

WithPositionals(arguments, op) ==
  LET given == Positionals(op.line)
      after[k \in 0..Len(given)] ==
        IF k = 0 THEN arguments ELSE Placed(after[k - 1], given[k].pairs[1].value, op) IN
  after[Len(given)]

TooMany(arguments, op) ==
  Len(Positionals(op.line)) > Cardinality(ToSet(Properties) \ DOMAIN arguments)

\* What the schema of the tool does not allow.
Disallowed(arguments, op) ==
  \/ \E key \in DOMAIN arguments :
       IsProperty(key) /\ ~op.raw /\ op.types[key] = "number" /\ arguments[key].is = "text"
  \/ op.required \ DOMAIN arguments # {}
  \/ op.closed /\ \E key \in DOMAIN arguments : ~IsProperty(key)

----------------------------------------------------------------------------
(* One call.                                                               *)

\* Before the server is called, a failure ends the command; after, it is a result to show.
Gives(fate) ==
  /\ call' = [call EXCEPT !.at = "failed", !.fate = fate]
  /\ UNCHANGED <<listing, inspections>>
Breaks(fate) ==
  /\ call' = [call EXCEPT !.at = "rendering", !.fate = fate]
  /\ UNCHANGED <<listing, inspections>>
Moves(at) == call' = [call EXCEPT !.at = at] /\ UNCHANGED <<listing, inspections>>

ReadLine ==
  /\ call.at = "reading"
  /\ IF Misspelt(call.op) \/ ~AdHocValid(call.op.adhoc) \/ UnreadableFile(call.op.line)
     THEN Gives("usage")
     ELSE LET inputs == InOrder(Gathered(call.op.line)) IN
          /\ call' = [call EXCEPT !.at = "selecting", !.inputs = inputs,
                                  !.arguments = AppliedInputs(inputs, call.op, FALSE)]
          /\ UNCHANGED <<listing, inspections>>

\* Standard input that is no JSON object.
StdinFails ==
  /\ call.at = "selecting" /\ \E i \in DOMAIN call.inputs : call.inputs[i].input.kind = "stdin"
  /\ Gives("usage")

\* The server is one of the configuration or made from the line, never both. Whether the
\* address, the name or the command of an ad hoc server is refused is left open.
SelectServer ==
  LET adhoc == call.op.adhoc IN
  /\ call.at = "selecting"
  /\ \/ /\ Present(adhoc) \/ call.op.selector = "unknown"
        /\ Gives("unknown")
     \/ /\ ~(adhoc.url /\ adhoc.command)
        /\ Present(adhoc) \/ call.op.selector # "unknown"
        /\ Moves("persisting")

\* An ad hoc server is saved before it is tried.
PersistServer ==
  /\ call.at = "persisting"
  /\ \/ Moves("connecting")
     \/ call.op.adhoc.persist /\ Gives("persist")

ConnectServer ==
  /\ call.at = "connecting"
  /\ Moves("listing") \/ Breaks("connect")

\* A resource is read without looking at tools.
ReadResource ==
  /\ call.at = "listing" /\ call.op.kind = "resource"
  /\ \E fate \in {"none", "request", "tool error"} :
       call' = [call EXCEPT !.at = "rendering", !.requests = @ + 1, !.fate = fate]
  /\ UNCHANGED <<listing, inspections>>

ListForCall ==
  /\ call.at = "listing" /\ call.op.kind = "call"
  /\ Moves("resolving") \/ Breaks("connect")

\* The catalogue: each name once; what the filter of the server permits is visible.
NamedTools(op) == {t \in op.tools : t.name = op.tool}
Visible(op) == {t \in op.tools : t.visible}
Aliases(op) == {t \in Visible(op) : t.plain = op.plain}

\* A question rather than a tool, where no tool has that name.
IsQuestion(op) == op.plain = "help" /\ \A t \in op.tools : t.plain # "help"

ToolChoices(op) ==
  IF op.tool = "none" THEN Visible(op)
  ELSE IF NamedTools(op) # {} THEN NamedTools(op) \cap Visible(op) ELSE Aliases(op)

AnswerQuestion ==
  /\ call.at = "resolving" /\ IsQuestion(call.op)
  /\ IF call.op.line # <<>> THEN Breaks("usage")
     ELSE /\ call' = [call EXCEPT !.at = "done", !.rendered = TRUE]
          /\ UNCHANGED <<listing, inspections>>

Resolve ==
  /\ call.at = "resolving" /\ ~IsQuestion(call.op)
  /\ IF Cardinality(ToolChoices(call.op)) = 1 THEN Moves("hydrating") ELSE Breaks("tool")

\* The arguments are made again from the inputs, now that the properties are known.
Hydrate ==
  LET op == call.op
      named == AppliedInputs(call.inputs, op, TRUE)
      arguments == WithPositionals(named, op) IN
  /\ call.at = "hydrating"
  /\ IF op.schema
     THEN IF UnknownOption(op) \/ AmbiguousName(op) \/ TooMany(named, op) \/ Disallowed(arguments, op) THEN Breaks("usage")
          ELSE /\ call' = [call EXCEPT !.at = "calling", !.arguments = arguments]
               /\ UNCHANGED <<listing, inspections>>
     ELSE IF Positionals(op.line) # <<>> \/ \E i \in DOMAIN op.line : op.line[i].kind = "flag"
          THEN Breaks("usage") ELSE Moves("calling")

CallTool ==
  /\ call.at = "calling"
  /\ \E fate \in {"none", "request", "tool error"} :
       call' = [call EXCEPT !.at = "rendering", !.requests = @ + 1, !.fate = fate]
  /\ UNCHANGED <<listing, inspections>>

\* The result is shown before anything else is done with it.
Render ==
  /\ call.at = "rendering"
  /\ call' = [call EXCEPT !.rendered = TRUE,
       !.at = IF call.fate \in {"none", "tool error"} THEN "exporting" ELSE "failed"]
  /\ UNCHANGED <<listing, inspections>>

\* Images are written under names of their own; a failure is no reason to call again.
Export ==
  /\ call.at = "exporting"
  /\ Moves("tailing") \/ (call.op.kind = "call" /\ call.op.images /\ Gives("export"))

TailLog ==
  /\ call.at = "tailing"
  /\ Moves(IF call.fate = "none" THEN "done" ELSE "failed")

CallStep ==
  \/ ReadLine \/ StdinFails \/ SelectServer \/ PersistServer \/ ConnectServer \/ ReadResource
  \/ ListForCall \/ AnswerQuestion \/ Resolve \/ Hydrate \/ CallTool \/ Render \/ Export \/ TailLog

----------------------------------------------------------------------------
(* The list of all servers.                                                *)

RefusedList(op) == op.brief /\ op.schema

ReadList ==
  /\ listing.at = "reading"
  /\ listing' = [listing EXCEPT !.at = IF RefusedList(listing.op) \/ listing.op.kind = "unknown"
                                       THEN "failed" ELSE "inspecting"]
  /\ UNCHANGED <<call, inspections>>

InFlight == {s \in 1..Inspected : inspections[s] \notin {"waiting", "joined"}}

\* A target on the command line leaves one server.
Selected == IF listing.op.kind = "all" THEN Inspected ELSE 1

StartInspection ==
  /\ listing.at = "inspecting" /\ Cardinality(InFlight) < MaxInspections
  /\ listing.next <= Selected
  /\ inspections' = [inspections EXCEPT ![listing.next] = "connecting"]
  /\ listing' = [listing EXCEPT !.next = @ + 1]
  /\ UNCHANGED call

\* The tool of the command, where it names one, may not be among those of the server.
Outcomes == {"listed", "failed"} \cup (IF listing.op.kind = "tool" THEN {"selection"} ELSE {})

\* A server lists its tools, cannot be reached, or is too slow.
Inspection(s) ==
  /\ inspections[s] = "connecting"
  /\ \E outcome \in Outcomes : inspections' = [inspections EXCEPT ![s] = outcome]
  /\ UNCHANGED <<call, listing>>

\* Reports arrive in the order in which the servers answered.
Join(s) ==
  /\ listing.at = "inspecting" /\ inspections[s] \in {"listed", "selection", "failed"}
  /\ listing.next > Selected \/ Cardinality(InFlight) = MaxInspections
  /\ listing' = [listing EXCEPT !.reports = Append(@, [server |-> s, outcome |-> inspections[s]])]
  /\ inspections' = [inspections EXCEPT ![s] = "joined"]
  /\ UNCHANGED call

AsJoined(reports) == reports

\* Sorted by name.
ByServer(reports) ==
  LET places == InOrderOf(DOMAIN reports, [k \in DOMAIN reports |-> reports[k].server]) IN
  [i \in DOMAIN places |-> reports[places[i]]]

CollectReports ==
  /\ listing.at = "inspecting" /\ InFlight = {}
  /\ listing.next > Selected
  /\ listing' = [listing EXCEPT !.at = "reporting", !.reports = ByServer(@)]
  /\ UNCHANGED <<call, inspections>>

ShowReports ==
  LET Fails(x) == x.outcome = "selection" \/ (x.outcome = "failed" /\ listing.op.exit) IN
  /\ listing.at = "reporting"
  /\ listing' = [listing EXCEPT !.at = IF \E i \in DOMAIN listing.reports : Fails(listing.reports[i])
                                       THEN "failed" ELSE "done"]
  /\ UNCHANGED <<call, inspections>>

ListStep ==
  \/ ReadList \/ StartInspection \/ CollectReports \/ ShowReports
  \/ \E s \in 1..Inspected : Inspection(s) \/ Join(s)

ToolCommandsNext == CallStep \/ ListStep

ToolCommandsAtRest == call.at \in {"done", "failed"} /\ listing.at \in {"done", "failed"}

----------------------------------------------------------------------------
(* Properties.                                                             *)

\* The places of the line that name a property, under whichever of its names.
Naming(p) ==
  {i \in DOMAIN call.op.line :
     /\ call.op.line[i].kind \in {"json", "stdin", "flag", "named"}
     /\ \E k \in DOMAIN call.op.line[i].pairs : PropertyName(call.op.line[i].pairs[k].key, TRUE) = p}

\* A property that the line names several times, as JSON, as standard input, as an
\* option or as a name, under its own name or an alias, has the value that was given
\* last; one that the line does not name has the value of a positional argument or none.
LastInputWins ==
  call.at = "calling" /\ call.op.schema =>
    \A p \in ToSet(Properties) :
      IF Naming(p) # {}
      THEN \E i \in Naming(p) :
             /\ \A j \in Naming(p) : j <= i
             /\ \E k \in DOMAIN call.op.line[i].pairs :
                  /\ PropertyName(call.op.line[i].pairs[k].key, TRUE) = p
                  /\ call.arguments[p].id = call.op.line[i].pairs[k].value.id
      ELSE p \in DOMAIN call.arguments =>
             \E i \in DOMAIN call.op.line :
               /\ call.op.line[i].kind \in {"positional", "literal"}
               /\ call.op.line[i].pairs[1].value.id = call.arguments[p].id

\* Every server that was asked for is reported once, and in name order, whichever
\* answered first.
ReportsAreOrdered ==
  listing.at \in {"reporting", "done"} /\ listing.op.kind # "none" =>
    [i \in DOMAIN listing.reports |-> listing.reports[i].server] =
      [i \in 1..Selected |-> i]

\* What is sent is what the line says last, and what is reported is in order
\* (tool_arguments.rs, tool_discovery.rs).
ToolSafety == LastInputWins /\ ReportsAreOrdered
=============================================================================
