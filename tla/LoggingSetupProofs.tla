------------------------- MODULE LoggingSetupProofs -------------------------
(***************************************************************************)
(* Theorems about LoggingSetup, for any number of sessions and records and *)
(* any values they register.                                               *)
(***************************************************************************)
EXTENDS LoggingSetup, FiniteSetTheorems, TLAPS

-----------------------------------------------------------------------------
(* One filter, one handler. *)

IsThrough(g, record, owners) ==
    g = [s \in SUBSET DOMAIN owners |->
           IF s = {} THEN record
           ELSE IF g[s \ {Max(s)}] = None THEN None
           ELSE Rewritten(g[s \ {Max(s)}], registered[owners[Max(s)]])]

IsHandled(g, sent, all) ==
    g = [s \in SUBSET DOMAIN all |->
           IF s = {} THEN sent ELSE Handle(g[s \ {Max(s)}], all[Max(s)])]

\* The largest of one is that one.
LEMMA MaxOfOne == Max({1}) = 1 /\ {1} \ {1} = {} /\ SUBSET {1} = {{}, {1}} /\ {1} # {}
<1>1. \A x \in {1} : 1 >= x
  OBVIOUS
<1>2. Max({1}) = 1
  BY <1>1 DEF Max
<1> QED BY <1>2

\* A record that passes one filter is rewritten once.
LEMMA ThroughOne ==
    ASSUME NEW record, record # None, NEW s
    PROVE  Through(record, <<s>>) = Rewritten(record, registered[s])
<1> DEFINE all == <<s>>
           g == CHOOSE f : IsThrough(f, record, all)
           h == [t \in SUBSET {1} |-> IF t = {} THEN record ELSE Rewritten(record, registered[s])]
<1>1. Through(record, all) = g[DOMAIN all]
  BY Zenon DEF Through, FoldLeft, MapThenFoldSet, IsThrough
<1>2. DOMAIN all = {1} /\ all[1] = s
  OBVIOUS
<1>3. IsThrough(h, record, all)
  <2>1. h[{}] = record /\ h[{1}] = Rewritten(record, registered[s])
    BY MaxOfOne
  <2> DEFINE k == [t \in SUBSET DOMAIN all |->
                     IF t = {} THEN record
                     ELSE IF h[t \ {Max(t)}] = None THEN None
                     ELSE Rewritten(h[t \ {Max(t)}], registered[all[Max(t)]])]
  <2> HIDE DEF all
  <2>2. k[{}] = record /\ k[{1}] = Rewritten(record, registered[s])
    <3> HIDE DEF h
    <3> QED BY <1>2, <2>1, MaxOfOne
  <2>3. DOMAIN k = {{}, {1}} /\ DOMAIN h = {{}, {1}}
    BY <1>2, MaxOfOne
  <2>4. h = k
    <3>1. h = [t \in DOMAIN h |-> h[t]]
      OBVIOUS
    <3> HIDE DEF h
    <3>2. k = [t \in DOMAIN k |-> k[t]]
      OBVIOUS
    <3> HIDE DEF k
    <3> QED BY <2>1, <2>2, <2>3, <3>1, <3>2
  <2> HIDE DEF h
  <2> QED BY <2>4 DEF IsThrough
<1>4. IsThrough(g, record, all)
  BY <1>3
<1> HIDE DEF g, all
<1>5. g[{}] = record
  BY <1>2, <1>4, MaxOfOne DEF IsThrough
<1>6. g[{1}] = Rewritten(record, registered[s])
  <2>1. {1} \in SUBSET DOMAIN all /\ {1} # {}
    BY <1>2
  <2>2. g[{1}] = IF g[{1} \ {Max({1})}] = None THEN None
                 ELSE Rewritten(g[{1} \ {Max({1})}], registered[all[Max({1})]])
    BY <1>4, <2>1, Zenon DEF IsThrough
  <2> QED BY <1>2, <1>5, <2>2, MaxOfOne
<1> QED BY <1>1, <1>2, <1>6 DEF all

\* One handler handles a record once.
LEMMA HandledOnce ==
    ASSUME NEW sent, NEW owners
    PROVE  FoldLeft(Handle, sent, <<owners>>) = Handle(sent, owners)
<1> DEFINE all == <<owners>>
           g == CHOOSE f : IsHandled(f, sent, all)
           h == [t \in SUBSET {1} |-> IF t = {} THEN sent ELSE Handle(sent, owners)]
<1>1. FoldLeft(Handle, sent, all) = g[DOMAIN all]
  BY Zenon DEF FoldLeft, MapThenFoldSet, IsHandled
<1>2. DOMAIN all = {1} /\ all[1] = owners
  OBVIOUS
<1>3. IsHandled(h, sent, all)
  <2>1. h[{}] = sent /\ h[{1}] = Handle(sent, owners)
    BY MaxOfOne
  <2> DEFINE k == [t \in SUBSET DOMAIN all |->
                     IF t = {} THEN sent ELSE Handle(h[t \ {Max(t)}], all[Max(t)])]
  <2> HIDE DEF all
  <2>2. k[{}] = sent /\ k[{1}] = Handle(sent, owners)
    <3> HIDE DEF h
    <3> QED BY <1>2, <2>1, MaxOfOne
  <2>3. DOMAIN k = {{}, {1}} /\ DOMAIN h = {{}, {1}}
    BY <1>2, MaxOfOne
  <2>4. h = k
    <3>1. h = [t \in DOMAIN h |-> h[t]]
      OBVIOUS
    <3> HIDE DEF h
    <3>2. k = [t \in DOMAIN k |-> k[t]]
      OBVIOUS
    <3> HIDE DEF k
    <3> QED BY <2>1, <2>2, <2>3, <3>1, <3>2
  <2> HIDE DEF h
  <2> QED BY <2>4 DEF IsHandled
<1>4. IsHandled(g, sent, all)
  BY <1>3
<1> HIDE DEF g, all
<1>5. g[{}] = sent
  BY <1>2, <1>4, MaxOfOne DEF IsHandled
<1>6. g[{1}] = Handle(sent, owners)
  BY <1>2, <1>4, <1>5, MaxOfOne DEF IsHandled
<1> QED BY <1>1, <1>2, <1>6 DEF all

-----------------------------------------------------------------------------
(* A record on its way. *)

\* Formatting raises, or gives a text; with no arguments it gives the template.
LEMMA Formats ==
    ASSUME NEW record \in Passing
    PROVE  /\ getMessage(record) \in Seq(Tokens) \cup {None}
           /\ record.args = None => getMessage(record) = record.msg /\ record.msg # None
<1> DEFINE msg   == record.msg
           holes == {i \in DOMAIN msg : msg[i].word = Hole}
           arg   == record.args[1]
           text  == [i \in DOMAIN msg |-> IF i \in holes THEN [msg[i] EXCEPT !.word = arg] ELSE msg[i]]
<1>1. msg \in Seq(Tokens)
  BY DEF Passing
<1>2. record.args = None => getMessage(record) = msg /\ msg # None
  BY <1>1, LoggingConstants DEF getMessage
<1>3. ASSUME record.args # None
      PROVE  getMessage(record) \in Seq(Tokens) \cup {None}
  <2>1. arg \in Words
    BY <1>3 DEF Passing
  <2> HIDE DEF arg, holes, msg
  <2>2. \A i \in DOMAIN msg : text[i] \in Tokens
    <3> SUFFICES ASSUME NEW i \in DOMAIN msg PROVE text[i] \in Tokens
      OBVIOUS
    <3>1. msg[i] \in Tokens
      BY <1>1
    <3>2. text[i] = IF i \in holes THEN [msg[i] EXCEPT !.word = arg] ELSE msg[i]
      OBVIOUS
    <3>3. [msg[i] EXCEPT !.word = arg] \in Tokens
      BY <2>1, <3>1 DEF Tokens
    <3> QED BY <3>1, <3>2, <3>3
  <2>3. DOMAIN msg = 1..Len(msg) /\ Len(msg) \in Nat
    BY <1>1
  <2>4. text \in Seq(Tokens)
    <3>1. text = [i \in 1..Len(msg) |-> text[i]]
      BY <2>3
    <3> HIDE DEF text
    <3>2. text \in [1..Len(msg) -> Tokens]
      BY <2>2, <2>3, <3>1
    <3> QED BY <2>3, <3>2
  <2>5. getMessage(record) = None \/ getMessage(record) = text
    BY <1>3 DEF getMessage, holes, arg, msg
  <2> QED BY <2>4, <2>5
<1> QED BY <1>1, <1>2, <1>3

\* Masking twice masks no more than masking once: what is masked is no value.
LEMMA Masks ==
    ASSUME NEW text \in Seq(Tokens), NEW values \in SUBSET Values
    PROVE  /\ redact_text(text, values) \in Seq(Tokens)
           /\ redact_text(redact_text(text, values), values) = redact_text(text, values)
<1> DEFINE mask(token) == IF token.key \/ token.word \in values
                          THEN [token EXCEPT !.word = Masked] ELSE token
           once  == redact_text(text, values)
           twice == redact_text(once, values)
<1>1. DOMAIN text = 1..Len(text) /\ Len(text) \in Nat /\ \A i \in DOMAIN text : text[i] \in Tokens
  OBVIOUS
<1>2. once = [i \in DOMAIN text |-> mask(text[i])]
  BY DEF redact_text
<1>3. twice = [i \in DOMAIN once |-> mask(once[i])]
  BY DEF redact_text
<1>4. ASSUME NEW token \in Tokens PROVE mask(token) \in Tokens /\ mask(mask(token)) = mask(token)
  <2>1. Masked \in Words /\ Masked \notin values
    BY LoggingConstants DEF Words
  <2>2. CASE token.key \/ token.word \in values
    <3> DEFINE t == [token EXCEPT !.word = Masked]
    <3>1. t \in Tokens /\ t.word = Masked /\ t.key = token.key
      BY <2>1 DEF Tokens
    <3>2. [t EXCEPT !.word = Masked] = t
      BY <3>1 DEF Tokens
    <3> QED BY <2>2, <3>1, <3>2
  <2>3. CASE ~(token.key \/ token.word \in values)
    BY <2>3
  <2> QED BY <2>2, <2>3
<1> HIDE DEF mask, once, twice
<1>5. DOMAIN once = 1..Len(text) /\ \A i \in 1..Len(text) : once[i] = mask(text[i]) /\ once[i] \in Tokens
  BY <1>1, <1>2, <1>4
<1>6. once \in Seq(Tokens)
  <2>1. once \in [1..Len(text) -> Tokens]
    BY <1>1, <1>2, <1>5
  <2> QED BY <1>1, <2>1
<1>7. twice = once
  <2>1. \A i \in DOMAIN once : mask(once[i]) = once[i]
    BY <1>1, <1>4, <1>5
  <2> QED BY <1>1, <1>2, <1>3, <1>5, <2>1
<1> QED BY <1>6, <1>7 DEF once, twice

\* What a filter makes of a record.
LEMMA RewrittenRecord ==
    ASSUME NEW record \in Passing, NEW values \in SUBSET Values
    PROVE  LET text == getMessage(record)
               new  == Rewritten(record, values)
           IN /\ text = None => new = None
              /\ text # None =>
                   /\ text \in Seq(Tokens) /\ new \in Passing /\ new # None
                   /\ getMessage(new) = redact_text(text, values)
                   /\ getMessage(new) # None
<1> DEFINE text == getMessage(record)
           new  == Rewritten(record, values)
<1>1. CASE text = None
  BY <1>1 DEF Rewritten
<1>2. CASE text # None
  <2>1. text \in Seq(Tokens)
    BY <1>2, Formats
  <2>2. redact_text(text, values) \in Seq(Tokens)
    BY <2>1, Masks
  <2>3. new = [record EXCEPT !.msg = redact_text(text, values), !.args = None]
    BY <1>2 DEF Rewritten
  <2> HIDE DEF text, new
  <2>4. new \in Passing /\ new.args = None /\ new.msg = redact_text(text, values)
    BY <2>2, <2>3 DEF Passing
  <2>5. new # None
    BY <2>4, LoggingConstants
  <2>6. getMessage(new) = redact_text(text, values) /\ getMessage(new) # None
    BY <2>4, Formats
  <2> QED BY <1>2, <2>1, <2>4, <2>5, <2>6 DEF text, new
<1> QED BY <1>1, <1>2

\* What can be emitted is a record.
LEMMA EmittedPass == Records \subseteq Passing
<1> SUFFICES ASSUME NEW record \in Records PROVE record \in Passing
  OBVIOUS
<1>1. PICK token \in [key: BOOLEAN, word: {Hole, "word"}] : record.msg = <<token>>
  BY DEF Records, Texts
<1>2. token \in Tokens
  BY DEF Tokens, Words
<1>3. record.msg \in Seq(Tokens)
  BY <1>1, <1>2
<1>4. record.args \in {None} \cup {<<w>> : w \in Words}
  BY DEF Records, Words
<1> QED BY <1>3, <1>4 DEF Records, Passing

\* What one handler with one filter makes of a record.
LEMMA OneHandler ==
    ASSUME NEW record \in Passing, NEW s, registered[s] \in SUBSET Values
    PROVE  LET text   == getMessage(record)
               result == Handle([record |-> record, lines |-> << >>], <<s>>)
           IN /\ text = None => result.record = None /\ result.lines = << >>
              /\ text # None => /\ result.record # None
                                /\ result.lines = <<redact_text(text, registered[s])>>
<1> DEFINE text   == getMessage(record)
           new    == Rewritten(record, registered[s])
           sent   == [record |-> record, lines |-> << >>]
           result == Handle(sent, <<s>>)
<1>1. record # None /\ sent.record = record /\ sent.lines = << >>
  BY LoggingConstants
<1>2. Through(sent.record, <<s>>) = new
  BY <1>1, ThroughOne
<1>3. result = [record |-> new,
                lines  |-> IF (IF new = None THEN None ELSE getMessage(new)) = None THEN << >>
                           ELSE Append(<< >>, IF new = None THEN None ELSE getMessage(new))]
  BY <1>1, <1>2, Zenon DEF Handle
<1>4. ASSUME text = None PROVE result.record = None /\ result.lines = << >>
  <2>1. new = None
    BY <1>4, RewrittenRecord
  <2> HIDE DEF new, result
  <2> QED BY <1>3, <2>1
<1>5. ASSUME text # None
      PROVE  result.record # None /\ result.lines = <<redact_text(text, registered[s])>>
  <2>1. new # None /\ getMessage(new) = redact_text(text, registered[s]) /\ getMessage(new) # None
    BY <1>5, RewrittenRecord
  <2> HIDE DEF new, result, text
  <2> QED BY <1>3, <2>1
<1> QED BY <1>4, <1>5

\* The root logger has the handler and the filter of the first session.
SetupInv ==
    /\ configured \in Seq(Sessions)
    /\ registered \in [Sessions -> SUBSET Values]
    /\ configured = << >> => filters = << >> /\ handlers = << >>
    /\ configured # << >> => /\ filters = <<configured[1]>>
                             /\ handlers = <<<<configured[1]>>>>

Calls == [record: Records, registered: [Sessions -> SUBSET Values]]

\* Every record that could be formatted has one line, in order; none comes
\* before the first configure.
RecordsInv ==
    /\ emitted # << >> => configured # << >>
    /\ emitted \in Seq(Calls)
    /\ written \in Seq([of: Nat, text: Seq(Tokens)])
    /\ raised \subseteq DOMAIN emitted
    /\ \A n \in DOMAIN emitted :
         /\ n \in raised <=> getMessage(emitted[n].record) = None
         /\ n \notin raised => \E i \in DOMAIN written : written[i].of = n
    /\ \A i \in DOMAIN written :
         LET n == written[i].of
         IN /\ n \in DOMAIN emitted \ raised
            /\ written[i].text = redact_text(getMessage(emitted[n].record), emitted[n].registered[configured[1]])
    /\ \A i, j \in DOMAIN written : i < j => written[i].of < written[j].of

LoggingInv == SetupInv /\ RecordsInv

\* The effect of emitting a record.
LEMMA EmitWrites ==
    ASSUME SetupInv, NEW record \in Records, Emit(record)
    PROVE  LET n      == Len(emitted) + 1
               values == registered[configured[1]]
               text   == getMessage(record)
           IN /\ values \in SUBSET Values
              /\ UNCHANGED <<filters, handlers, registered, configured>>
              /\ configured # << >>
              /\ emitted' = Append(emitted, [record |-> record, registered |-> registered])
              /\ text = None => raised' = raised \cup {n} /\ written' = written \o << >>
              /\ text # None => /\ raised' = raised
                                /\ written' = written
                                     \o <<[of |-> n, text |-> redact_text(text, values)]>>
<1> DEFINE n      == Len(emitted) + 1
           first  == configured[1]
           values == registered[first]
           text   == getMessage(record)
           own    == IF record.logger = "root" THEN Through(record, filters) ELSE record
           result == FoldLeft(Handle, [record |-> own, lines |-> << >>], handlers)
<1>1. /\ handlers # << >>
      /\ emitted' = Append(emitted, [record |-> record, registered |-> registered])
      /\ written' = written \o [i \in DOMAIN result.lines |-> [of |-> n, text |-> result.lines[i]]]
      /\ raised' = IF result.record = None THEN raised \cup {n} ELSE raised
      /\ UNCHANGED <<filters, handlers, registered, configured>>
  BY DEF Emit
<1>2. configured # << >> /\ filters = <<first>> /\ handlers = <<<<first>>>>
  BY <1>1 DEF SetupInv
<1>3. first \in Sessions /\ values \in SUBSET Values
  BY <1>2 DEF SetupInv
<1>4. record \in Passing /\ record # None
  BY EmittedPass, LoggingConstants
<1>5. result = Handle([record |-> own, lines |-> << >>], <<first>>)
  BY <1>2, HandledOnce
<1>6. record.logger = "root" => own = Rewritten(record, values)
  BY <1>2, <1>4, ThroughOne
<1>7. record.logger # "root" => own = record
  OBVIOUS
<1> HIDE DEF own, values, first, n
<1>8. /\ text = None => result.record = None /\ result.lines = << >>
      /\ text # None => result.record # None /\ result.lines = <<redact_text(text, values)>>
  <2>1. CASE record.logger # "root"
    <3>1. own = record
      BY <1>7, <2>1
    <3> HIDE DEF result
    <3> QED BY <1>3, <1>4, <1>5, <3>1, OneHandler DEF values
  <2>2. CASE record.logger = "root" /\ text = None
    <3>1. own = None
      BY <1>3, <1>4, <1>6, <2>2, RewrittenRecord
    <3>2. result = [record |-> None, lines |-> << >>]
      <4> DEFINE sent == [record |-> own, lines |-> << >>]
      <4>1. sent.record = None /\ sent.lines = << >>
        BY <3>1
      <4> HIDE DEF sent, result
      <4> QED BY <1>5, <4>1, Zenon DEF Handle, sent
    <3> HIDE DEF result
    <3> QED BY <2>2, <3>2
  <2>3. CASE record.logger = "root" /\ text # None
    <3>1. /\ own \in Passing /\ text \in Seq(Tokens)
          /\ getMessage(own) = redact_text(text, values) /\ getMessage(own) # None
      BY <1>3, <1>4, <1>6, <2>3, RewrittenRecord
    <3>2. /\ result.record # None
          /\ result.lines = <<redact_text(getMessage(own), values)>>
      <4> HIDE DEF result
      <4> QED BY <1>3, <1>5, <3>1, OneHandler DEF values
    <3>3. redact_text(getMessage(own), values) = redact_text(text, values)
      BY <1>3, <3>1, Masks
    <3> HIDE DEF result, text
    <3> QED BY <2>3, <3>2, <3>3
  <2> QED BY <2>1, <2>2, <2>3
<1> DEFINE tail == [i \in DOMAIN result.lines |-> [of |-> n, text |-> result.lines[i]]]
<1> HIDE DEF result
<1>9. /\ text = None => tail = << >>
      /\ text # None => tail = <<[of |-> n, text |-> redact_text(text, values)]>>
  <2> DEFINE line == redact_text(text, values)
  <2> HIDE DEF line, text
  <2>1. ASSUME result.lines = << >> PROVE tail = << >>
    BY <2>1
  <2>2. ASSUME result.lines = <<line>> PROVE tail = <<[of |-> n, text |-> line]>>
    BY <2>2
  <2> QED BY <1>8, <2>1, <2>2 DEF line
<1>10. written' = written \o tail
  BY <1>1 DEF tail
<1> HIDE DEF tail
<1> QED BY <1>1, <1>2, <1>3, <1>8, <1>9, <1>10 DEF values, first, n

\* A call that raises writes nothing,
LEMMA RaisingKeeps ==
    ASSUME LoggingInv, NEW record \in Records, Emit(record), getMessage(record) = None
    PROVE  RecordsInv'
<1>0. configured' = configured /\ configured # << >>
  BY EmitWrites DEF LoggingInv
<1>1. PICK n : n = Len(emitted) + 1
  OBVIOUS
<1>2. PICK known \in [Sessions -> SUBSET Values] :
        emitted' = Append(emitted, [record |-> record, registered |-> known])
  BY EmitWrites DEF LoggingInv, SetupInv
<1>3. raised' = raised \cup {n} /\ written' = written \o << >>
  BY <1>1, EmitWrites DEF LoggingInv
<1>4. RecordsInv
  BY DEF LoggingInv
<1>5. written' = written
  BY <1>3, <1>4 DEF RecordsInv
<1>6. /\ emitted' \in Seq(Calls)
      /\ DOMAIN emitted' = DOMAIN emitted \cup {n} /\ n \notin DOMAIN emitted
      /\ emitted'[n].record = record
      /\ \A m \in DOMAIN emitted : emitted'[m] = emitted[m]
  <2> DEFINE call == [record |-> record, registered |-> known]
  <2>1. call \in Calls /\ call.record = record
    BY DEF Calls
  <2> HIDE DEF call
  <2>2. emitted' = Append(emitted, call) /\ emitted \in Seq(Calls)
    BY <1>2, <1>4 DEF RecordsInv, call
  <2> QED BY <1>1, <2>1, <2>2
<1>7. ASSUME NEW m \in DOMAIN emitted'
      PROVE  /\ m \in raised' <=> getMessage(emitted'[m].record) = None
             /\ m \notin raised' => \E i \in DOMAIN written' : written'[i].of = m
  <2>1. CASE m = n
    BY <1>3, <1>6, <2>1
  <2>2. CASE m # n
    BY <1>3, <1>4, <1>5, <1>6, <2>2 DEF RecordsInv
  <2> QED BY <2>1, <2>2
<1>8. ASSUME NEW i \in DOMAIN written'
      PROVE  LET m == written'[i].of
             IN /\ m \in DOMAIN emitted' \ raised'
                /\ written'[i].text = redact_text(getMessage(emitted'[m].record), emitted'[m].registered[configured'[1]])
  BY <1>0, <1>3, <1>4, <1>5, <1>6 DEF RecordsInv
<1>9. /\ raised' \subseteq DOMAIN emitted'
      /\ written' \in Seq([of: Nat, text: Seq(Tokens)])
      /\ \A i, j \in DOMAIN written' : i < j => written'[i].of < written'[j].of
  BY <1>3, <1>4, <1>5, <1>6 DEF RecordsInv
<1> QED BY <1>0, <1>6, <1>7, <1>8, <1>9 DEF RecordsInv

\* and any other writes one line after the others.
LEMMA WritingKeeps ==
    ASSUME LoggingInv, NEW record \in Records, Emit(record), getMessage(record) # None
    PROVE  RecordsInv'
<1>0. configured' = configured /\ configured # << >>
  BY EmitWrites DEF LoggingInv
<1>1. PICK n : n = Len(emitted) + 1
  OBVIOUS
<1>2. PICK known \in [Sessions -> SUBSET Values] :
        /\ emitted' = Append(emitted, [record |-> record, registered |-> known])
        /\ known = registered
  BY EmitWrites DEF LoggingInv, SetupInv
<1> DEFINE values == known[configured[1]]
<1>2a. values \in SUBSET Values /\ values = registered[configured[1]]
  BY <1>2, EmitWrites DEF LoggingInv
<1> HIDE DEF values
<1>3. PICK text : text = redact_text(getMessage(record), values)
  OBVIOUS
<1>4. raised' = raised /\ written' = written \o <<[of |-> n, text |-> text]>>
  BY <1>1, <1>3, <1>2a, EmitWrites DEF LoggingInv
<1>5. RecordsInv
  BY DEF LoggingInv
<1>6. text \in Seq(Tokens)
  BY <1>3, <1>2a, EmittedPass, Formats, Masks
<1>7. /\ emitted' \in Seq(Calls)
      /\ DOMAIN emitted' = DOMAIN emitted \cup {n} /\ n \in Nat
      /\ \A m \in DOMAIN emitted : m < n /\ emitted'[m] = emitted[m]
      /\ emitted'[n].record = record /\ emitted'[n].registered = known
  <2> DEFINE call == [record |-> record, registered |-> known]
  <2>1. call \in Calls /\ call.record = record /\ call.registered = known
    BY DEF Calls
  <2> HIDE DEF call
  <2>2. emitted' = Append(emitted, call) /\ emitted \in Seq(Calls)
    BY <1>2, <1>5 DEF RecordsInv, call
  <2> QED BY <1>1, <2>1, <2>2
<1>8. PICK N : N = Len(written) + 1
  OBVIOUS
<1>9. /\ written' \in Seq([of: Nat, text: Seq(Tokens)])
      /\ DOMAIN written' = DOMAIN written \cup {N} /\ N \in Nat
      /\ written'[N].of = n /\ written'[N].text = text
      /\ \A i \in DOMAIN written : i < N /\ written'[i] = written[i]
  <2> DEFINE line == [of |-> n, text |-> text]
  <2>1. line \in [of: Nat, text: Seq(Tokens)] /\ line.of = n /\ line.text = text
    BY <1>6, <1>7
  <2> HIDE DEF line
  <2>2. written' = written \o <<line>> /\ written \in Seq([of: Nat, text: Seq(Tokens)])
    BY <1>4, <1>5 DEF RecordsInv, line
  <2> QED BY <1>8, <2>1, <2>2
<1>10. ASSUME NEW m \in DOMAIN emitted'
       PROVE  /\ m \in raised' <=> getMessage(emitted'[m].record) = None
              /\ m \notin raised' => \E i \in DOMAIN written' : written'[i].of = m
  <2>1. CASE m = n
    <3>1. n \notin raised'
      BY <1>4, <1>5, <1>7 DEF RecordsInv
    <3> QED BY <1>7, <1>9, <2>1, <3>1
  <2>2. CASE m # n
    <3>1. m \in DOMAIN emitted /\ emitted'[m] = emitted[m]
      BY <1>7, <2>2
    <3>2. m \notin raised => \E i \in DOMAIN written : written[i].of = m
      BY <1>5, <3>1 DEF RecordsInv
    <3> QED BY <1>4, <1>5, <1>9, <3>1, <3>2 DEF RecordsInv
  <2> QED BY <2>1, <2>2
<1>11. ASSUME NEW i \in DOMAIN written'
       PROVE  LET m == written'[i].of
              IN /\ m \in DOMAIN emitted' \ raised'
                 /\ written'[i].text = redact_text(getMessage(emitted'[m].record), emitted'[m].registered[configured'[1]])
  <2>1. CASE i = N
    <3>1. n \in DOMAIN emitted' \ raised'
      BY <1>4, <1>5, <1>7 DEF RecordsInv
    <3> QED BY <1>0, <1>3, <1>7, <1>9, <2>1, <3>1 DEF values
  <2>2. CASE i # N
    <3>1. i \in DOMAIN written /\ written'[i] = written[i]
      BY <1>9, <2>2
    <3>2. PICK m : m = written[i].of
      OBVIOUS
    <3>3. /\ m \in DOMAIN emitted /\ m \notin raised
          /\ written[i].text = redact_text(getMessage(emitted[m].record), emitted[m].registered[configured[1]])
      BY <1>5, <3>1, <3>2 DEF RecordsInv
    <3>4. m \in DOMAIN emitted' /\ emitted'[m] = emitted[m] /\ m \notin raised'
      BY <1>4, <1>7, <3>3
    <3>5. written'[i].of = m
      BY <3>1, <3>2
    <3>6. written'[i].text = redact_text(getMessage(emitted'[m].record), emitted'[m].registered[configured'[1]])
      BY <1>0, <3>1, <3>3, <3>4
    <3> QED BY <3>4, <3>5, <3>6
  <2> QED BY <2>1, <2>2
<1>12. ASSUME NEW i \in DOMAIN written', NEW j \in DOMAIN written', i < j
       PROVE  written'[i].of < written'[j].of
  <2>1. i \in DOMAIN written /\ i \in Nat
    BY <1>5, <1>9, <1>12 DEF RecordsInv
  <2>2. CASE j = N
    <3>1. written[i].of \in DOMAIN emitted
      BY <1>5, <2>1 DEF RecordsInv
    <3> QED BY <1>7, <1>9, <2>1, <2>2, <3>1
  <2>3. CASE j # N
    BY <1>5, <1>9, <1>12, <2>1, <2>3 DEF RecordsInv
  <2> QED BY <2>2, <2>3
<1>13. raised' \subseteq DOMAIN emitted'
  BY <1>4, <1>5, <1>7 DEF RecordsInv
<1> QED BY <1>0, <1>7, <1>9, <1>10, <1>11, <1>12, <1>13 DEF RecordsInv

\* Each element of a sequence over S is in S.
LEMMA MemberOfSeq == ASSUME NEW S, NEW q \in Seq(S), NEW i \in DOMAIN q PROVE q[i] \in S
OBVIOUS

\* Whoever configures, registers or logs, in any order: one handler, the first
\* session's, and one line for each record that can be formatted.
THEOREM LoggingInvariance == Spec => []LoggingInv
<1>1. Init => LoggingInv
  BY DEF Init, LoggingInv, SetupInv, RecordsInv
<1>2. LoggingInv /\ [Next]_vars => LoggingInv'
  <2> SUFFICES ASSUME LoggingInv, [Next]_vars PROVE LoggingInv'
    OBVIOUS
  <2>1. ASSUME NEW s \in Sessions, configure(s) PROVE LoggingInv'
    <3>1. /\ filters' = IF filters = << >> THEN <<s>> ELSE filters
          /\ handlers' = IF handlers = << >> THEN <<<<s>>>> ELSE handlers
          /\ configured' = Append(configured, s)
          /\ UNCHANGED <<registered, emitted, written, raised>>
      BY <2>1 DEF configure, HandlersAfter
    <3>2. configured \in Seq(Sessions)
      BY DEF LoggingInv, SetupInv
    <3>3. configured' \in Seq(Sessions) /\ configured' # << >>
          /\ configured'[1] = IF configured = << >> THEN s ELSE configured[1]
      BY <3>1, <3>2
    <3>4. filters' = <<configured'[1]>> /\ handlers' = <<<<configured'[1]>>>>
      <4>1. CASE configured = << >>
        BY <3>1, <3>3, <4>1 DEF LoggingInv, SetupInv
      <4>2. CASE configured # << >>
        <5>1. filters = <<configured[1]>> /\ handlers = <<<<configured[1]>>>>
          BY <4>2 DEF LoggingInv, SetupInv
        <5>2. filters # << >> /\ handlers # << >>
          BY <5>1
        <5> QED BY <3>1, <3>3, <4>2, <5>1, <5>2
      <4> QED BY <4>1, <4>2
    <3>5. SetupInv'
      BY <3>1, <3>3, <3>4 DEF LoggingInv, SetupInv
    <3>6. RecordsInv'
      <4>1. RecordsInv /\ configured' # << >>
        BY <3>3 DEF LoggingInv
      <4>2. \A i \in DOMAIN written : configured'[1] = configured[1]
        <5>1. \A i \in DOMAIN written : written[i].of \in DOMAIN emitted
          BY <4>1 DEF RecordsInv
        <5>2. emitted = << >> => DOMAIN emitted = {}
          OBVIOUS
        <5> QED BY <3>3, <4>1, <5>1, <5>2 DEF RecordsInv
      <4> QED BY <3>1, <4>1, <4>2 DEF RecordsInv
    <3> QED BY <3>5, <3>6 DEF LoggingInv
  <2>2. ASSUME NEW s \in Sessions, NEW value \in Values, register(s, value) PROVE LoggingInv'
    <3>1. SetupInv'
      BY <2>2 DEF register, LoggingInv, SetupInv
    <3>2. RecordsInv'
      BY <2>2 DEF register, LoggingInv, RecordsInv
    <3> QED BY <3>1, <3>2 DEF LoggingInv
  <2>3. ASSUME NEW record \in Records, Emit(record) PROVE LoggingInv'
    <3>1. SetupInv'
      BY <2>3 DEF Emit, LoggingInv, SetupInv
    <3>2. RecordsInv'
      BY <2>3, RaisingKeeps, WritingKeeps
    <3> QED BY <3>1, <3>2 DEF LoggingInv
  <2>4. CASE UNCHANGED vars
    BY <2>4 DEF vars, LoggingInv, SetupInv, RecordsInv
  <2> QED BY <2>1, <2>2, <2>3, <2>4 DEF Next
<1> QED BY <1>1, <1>2, PTL DEF Spec

\* The root logger, the registries and the histories keep their types.
THEOREM LoggingTypeCorrect == Spec => []TypeOK
<1>1. LoggingInv => TypeOK
  <2> SUFFICES ASSUME LoggingInv PROVE TypeOK
    OBVIOUS
  <2>1. configured # << >> => configured[1] \in Sessions
    BY DEF LoggingInv, SetupInv
  <2>2. /\ filters \in {<< >>} \cup {<<s>> : s \in Sessions}
        /\ handlers \in {<< >>} \cup {<<<<s>>>> : s \in Sessions}
    BY <2>1 DEF LoggingInv, SetupInv
  <2>3. \A i \in DOMAIN written : /\ written[i].of \in DOMAIN emitted
                                  /\ written[i].text \in Seq(Tokens)
    <3>1. RecordsInv
      BY DEF LoggingInv
    <3>2. written \in Seq([of: Nat, text: Seq(Tokens)])
      BY <3>1 DEF RecordsInv
    <3>3. ASSUME NEW i \in DOMAIN written
          PROVE  /\ written[i].of \in DOMAIN emitted
                 /\ written[i].text \in Seq(Tokens)
      <4>1. written[i].of \in DOMAIN emitted
        BY <3>1 DEF RecordsInv
      <4>2. written[i] \in [of: Nat, text: Seq(Tokens)]
        BY <3>2, MemberOfSeq
      <4>3. written[i].text \in Seq(Tokens)
        BY <4>2
      <4> QED BY <4>1, <4>3
    <3> QED BY <3>3
  <2> QED BY <2>2, <2>3 DEF TypeOK, LoggingInv, SetupInv, RecordsInv, Calls
<1> QED BY <1>1, LoggingInvariance, PTL

\* However many sessions configure the root logger and whatever is logged, a
\* record is written once and in order, or its call raises and writes nothing.
THEOREM RecordsAlwaysWrittenOnce == Spec => []RecordsAreWrittenOnce
<1>1. LoggingInv => RecordsAreWrittenOnce
  <2> SUFFICES ASSUME LoggingInv PROVE RecordsAreWrittenOnce
    OBVIOUS
  <2>1. RecordsInv
    BY DEF LoggingInv
  <2>2. \A i \in DOMAIN written : i \in Nat /\ written[i].of \in Nat
    BY <2>1 DEF RecordsInv
  <2>3. ASSUME NEW i \in DOMAIN written, NEW j \in DOMAIN written, i < j
        PROVE  written[i].of <= written[j].of
    <3>1. written[i].of < written[j].of
      BY <2>1, <2>3 DEF RecordsInv
    <3>2. written[i].of \in Nat /\ written[j].of \in Nat
      BY <2>2
    <3> QED BY <3>1, <3>2
  <2>4. ASSUME NEW n \in DOMAIN emitted, getMessage(emitted[n].record) = None
        PROVE  Cardinality(LinesOf(n)) = 0
    <3>1. LinesOf(n) = {}
      BY <2>1, <2>4 DEF RecordsInv, LinesOf
    <3> QED BY <3>1, FS_EmptySet
  <2>5. ASSUME NEW n \in DOMAIN emitted, getMessage(emitted[n].record) # None
        PROVE  Cardinality(LinesOf(n)) = 1
    <3>1. PICK i \in DOMAIN written : written[i].of = n
      BY <2>1, <2>5 DEF RecordsInv
    <3>2. ASSUME NEW j \in DOMAIN written, written[j].of = n PROVE j = i
      <4>1. ~(j < i) /\ ~(i < j)
        BY <2>1, <2>2, <3>1, <3>2 DEF RecordsInv
      <4> QED BY <2>2, <4>1
    <3>3. LinesOf(n) = {i}
      BY <3>1, <3>2 DEF LinesOf
    <3> QED BY <3>3, FS_Singleton
  <2>6. \A n \in DOMAIN emitted : n \in raised <=> getMessage(emitted[n].record) = None
    BY <2>1 DEF RecordsInv
  <2> QED BY <2>3, <2>4, <2>5, <2>6 DEF RecordsAreWrittenOnce
<1> QED BY <1>1, LoggingInvariance, PTL

\* A line is its message, in which all that the first session to configure had
\* registered by then is masked, and nothing that no session had registered;
\* it does not depend on the logger that the record came from.
THEOREM LinesAlwaysRedactedAlike == Spec => []LinesAreRedactedAlike
<1>1. LoggingInv => LinesAreRedactedAlike
  <2> SUFFICES ASSUME LoggingInv PROVE LinesAreRedactedAlike
    OBVIOUS
  <2>1. RecordsInv
    BY DEF LoggingInv
  <2>2. ASSUME NEW i \in DOMAIN written
        PROVE  LET call == emitted[written[i].of]
               IN /\ call.registered[configured[1]]
                       \in SUBSET UNION {call.registered[s] : s \in Sessions}
                  /\ written[i].text
                       = redact_text(getMessage(call.record), call.registered[configured[1]])
    <3>1. /\ written[i].of \in DOMAIN emitted
          /\ written[i].text = redact_text(getMessage(emitted[written[i].of].record),
                                  emitted[written[i].of].registered[configured[1]])
      BY <2>1 DEF RecordsInv
    <3>2. configured # << >>
      <4>1. emitted # << >>
        BY <3>1
      <4> QED BY <2>1, <4>1 DEF RecordsInv
    <3>3. configured[1] \in Sessions
      BY <3>2 DEF LoggingInv, SetupInv
    <3> QED BY <3>1, <3>3
  <2> QED BY <2>2 DEF LinesAreRedactedAlike
<1> QED BY <1>1, LoggingInvariance, PTL
=============================================================================
