---------------------------- MODULE LoggingSetup ----------------------------
(***************************************************************************)
(* adapters/logging: logging_setup.configure on the process-wide root      *)
(* logger, and what RedactingFilter does to the records on their way to    *)
(* the handler.  Each session that is built configures the root logger     *)
(* with a registry of its own and fills that registry afterwards           *)
(* (cli/wire.py); the loggers are shared by all sessions of the process.   *)
(*                                                                         *)
(* A text is a sequence of tokens.  A token is a word, after a key such as *)
(* `password=' or not; in a template the word %s is a placeholder.         *)
(***************************************************************************)
EXTENDS Integers, Sequences, SequencesExt

CONSTANTS
    Sessions,    \* sessions built in one process
    Values,      \* what a session registers
    MaxRecords,  \* bound: records emitted
    None

Hole   == "%s"
Masked == "***REDACTED***"
Words  == Values \cup {Hole, Masked, "word"}
Tokens == [key: BOOLEAN, word: Words]

\* A record on its way to a handler.
Passing == [logger: {"root", "named"}, msg: Seq(Tokens), args: {None} \cup {<<w>> : w \in Words}]

ASSUME LoggingConstants ==
    /\ MaxRecords \in Nat
    /\ Values \cap {Hole, Masked, "word"} = {}
    /\ None \notin Seq(Tokens) /\ None \notin {<<w>> : w \in Words} /\ None \notin Passing

\* What is emitted: one or no placeholder, and arguments that match or not; an
\* argument may itself look like a placeholder.
Texts   == {<<token>> : token \in [key: BOOLEAN, word: {Hole, "word"}]}
Records == [logger: {"root", "named"}, msg: Texts,
            args: {None} \cup {<<word>> : word \in Values \cup {Hole, "word"}}]

VARIABLES
    filters,     \* of the root logger: the registry of each RedactingFilter
    handlers,    \* of the root logger: the registries of the filters of each
    registered,  \* the values in each session's registry
    configured,  \* history: the sessions that called configure, in order
    emitted,     \* history: the records, with the registries at the time
    written,     \* history: the lines the handlers wrote
    raised       \* history: the log calls that raised into their caller

vars == <<filters, handlers, registered, configured, emitted, written, raised>>

TypeOK ==
    /\ filters \in {<< >>} \cup {<<s>> : s \in Sessions}
    /\ handlers \in {<< >>} \cup {<<<<s>>>> : s \in Sessions}
    /\ registered \in [Sessions -> SUBSET Values]
    /\ configured \in Seq(Sessions)
    /\ emitted \in Seq([record: Records, registered: [Sessions -> SUBSET Values]])
    /\ \A i \in DOMAIN written : /\ written[i].of \in DOMAIN emitted
                                 /\ written[i].text \in Seq(Tokens)
    /\ raised \subseteq DOMAIN emitted

Init ==
    /\ filters = << >> /\ handlers = << >>
    /\ registered = [s \in Sessions |-> {}]
    /\ configured = << >>
    /\ emitted = << >> /\ written = << >> /\ raised = {}

-----------------------------------------------------------------------------
\* Mutant: a handler is added by every call.
AddsHandler(s) == Append(handlers, <<s>>)
\* Mutant: the handler's filter is replaced by that of the latest session.
ReplacesFilter(s) == <<<<s>>>>

\* One handler, with one filter, whoever calls first.
HandlersAfter(s) == IF handlers = << >> THEN <<<<s>>>> ELSE handlers

\* configure(registry): the filter is added to the root logger and to the
\* handler of its own unless one is there.
configure(s) ==
    /\ s \notin Range(configured)
    /\ filters' = IF filters = << >> THEN <<s>> ELSE filters
    /\ handlers' = HandlersAfter(s)
    /\ configured' = Append(configured, s)
    /\ UNCHANGED <<registered, emitted, written, raised>>

\* registry.register, which a session calls after configure.
register(s, value) ==
    /\ s \in Range(configured)
    /\ registered' = [registered EXCEPT ![s] = @ \cup {value}]
    /\ UNCHANGED <<filters, handlers, configured, emitted, written, raised>>

(* A record on its way; None stands for one whose formatting has raised. *)

\* LogRecord.getMessage of the standard library: the one placeholder takes the
\* one argument; any other match of the two is a TypeError.
getMessage(record) ==
    LET holes == {i \in DOMAIN record.msg : record.msg[i].word = Hole}
    IN IF record.args = None THEN record.msg
       ELSE IF Cardinality(holes) # Len(record.args) THEN None
       ELSE [i \in DOMAIN record.msg |->
               IF i \in holes THEN [record.msg[i] EXCEPT !.word = record.args[1]]
               ELSE record.msg[i]]

\* redact_text: registered values, and whatever follows a key.
redact_text(text, values) ==
    [i \in DOMAIN text |->
       IF text[i].key \/ text[i].word \in values THEN [text[i] EXCEPT !.word = Masked]
       ELSE text[i]]

\* Mutant: template and arguments are rewritten each on its own.
RewritesTemplate(record, values) ==
    [record EXCEPT !.msg = redact_text(@, values),
                   !.args = IF @ = None THEN None
                            ELSE [i \in DOMAIN @ |-> IF @[i] \in values THEN Masked ELSE @[i]]]

\* RedactingFilter.filter: the substituted message is rewritten, and there is
\* nothing left to substitute.
Rewritten(record, values) ==
    IF getMessage(record) = None THEN None
    ELSE [record EXCEPT !.msg = redact_text(getMessage(record), values), !.args = None]

\* All filters of a logger or a handler, in turn; each reads its registry now.
Through(record, owners) ==
    FoldLeft(LAMBDA r, s : IF r = None THEN None ELSE Rewritten(r, registered[s]),
             record, owners)

\* Logger.handle of the standard library.  The filters of the root logger see
\* only its own records, those of a handler every record; they change it in
\* place.  An exception in a filter leaves the log call; one in a handler's
\* formatting is caught there, and the line is missing.
Handle(sent, owners) ==
    LET record == IF sent.record = None THEN None ELSE Through(sent.record, owners)
        text   == IF record = None THEN None ELSE getMessage(record)
    IN [record |-> record,
        lines  |-> IF text = None THEN sent.lines ELSE Append(sent.lines, text)]

Emit(record) ==
    LET n       == Len(emitted) + 1
        own     == IF record.logger = "root" THEN Through(record, filters) ELSE record
        result  == FoldLeft(Handle, [record |-> own, lines |-> << >>], handlers)
    IN /\ handlers # << >> /\ n <= MaxRecords
       /\ emitted' = Append(emitted, [record |-> record, registered |-> registered])
       /\ written' = written \o [i \in DOMAIN result.lines |-> [of |-> n, text |-> result.lines[i]]]
       /\ raised' = IF result.record = None THEN raised \cup {n} ELSE raised
       /\ UNCHANGED <<filters, handlers, registered, configured>>

Next ==
    \/ \E s \in Sessions : configure(s) \/ \E value \in Values : register(s, value)
    \/ \E record \in Records : Emit(record)

Spec == Init /\ [][Next]_vars

-----------------------------------------------------------------------------
LinesOf(n) == {i \in DOMAIN written : written[i].of = n}

\* However many sessions have configured the root logger, a record is written
\* exactly once, in the order of the calls, whatever its template and its
\* arguments look like, before and after they are rewritten; only a call whose
\* arguments do not fit its template writes nothing, and that one raises into
\* the code that made it, where the bare standard library would not
\* (logging_setup.py:40, redaction.py:124).
RecordsAreWrittenOnce ==
    /\ \A i, j \in DOMAIN written : i < j => written[i].of <= written[j].of
    /\ \A n \in DOMAIN emitted :
         /\ Cardinality(LinesOf(n)) = IF getMessage(emitted[n].record) = None THEN 0 ELSE 1
         /\ n \in raised <=> getMessage(emitted[n].record) = None

\* Each line is its message rewritten once: whatever the first session had
\* registered when it was emitted is masked, also what it registered after its
\* configure; nothing else is, except what some session had registered; and
\* the logger a record comes from, with two filters on its way or with one,
\* makes no difference (logging_setup.py:34, wire.py:98).  What a later
\* session registers need not be masked, though redaction.py:46 would have it.
LinesAreRedactedAlike ==
    /\ \A i \in DOMAIN written :
         LET call == emitted[written[i].of]
         IN \E values \in SUBSET UNION {call.registered[s] : s \in Sessions} :
              /\ call.registered[configured[1]] \subseteq values
              /\ written[i].text = redact_text(getMessage(call.record), values)
    /\ \A i, j \in DOMAIN written :
         LET one == emitted[written[i].of]
             two == emitted[written[j].of]
         IN /\ getMessage(one.record) = getMessage(two.record)
            /\ one.registered = two.registered
            => written[i].text = written[j].text
=============================================================================
