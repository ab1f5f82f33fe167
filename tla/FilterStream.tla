---------------------------- MODULE FilterStream ----------------------------
(***************************************************************************)
(* What the two filters make of a client's stream: the control protocol,   *)
(* in which 0xFF escapes commands for the modem lines, and TELNET, with    *)
(* its options and subnegotiations. The stream arrives in pieces that are  *)
(* cut anywhere; what the device says leaves in another, among signal      *)
(* reports, or behind the server's negotiation. Bytes are numbers.         *)
(***************************************************************************)
EXTENDS Integers, Sequences, SequencesExt

CONSTANTS
    Settings,   \* the servers tried: see Setting
    Data,       \* bound: the bytes that are data
    Frames,     \* bound: what subnegotiations carry
    MaxTokens,  \* bound: how many things a client says
    MaxSaid     \* bound: how many things it is sent

ESCAPE == 255
RTS_LOW == 0
RTS_HIGH == 1
DTR_LOW == 16
DTR_HIGH == 17
GET_SIGNALS == 192
REPORT_BASE == 128

SE == 240
NOP == 241
SB == 250
WILL == 251
WONT == 252
DO == 253
DONT == 254
IAC == 255
ECHO == 1
LINEMODE == 34

OptionCodes == {WILL, WONT, DO, DONT}

\* What a server is configured to: its protocol, which lines its clients may
\* set, which are reported, by their bits, and which way data may flow.
Setting ==
    [protocol : {"control", "telnet"}, rts : BOOLEAN, dtr : BOOLEAN,
     signals : SUBSET (0 .. 5), canRead : BOOLEAN, canWrite : BOOLEAN]

ASSUME FilterStreamAssumption ==
    /\ Settings \subseteq Setting
    /\ Data \subseteq 0 .. 255 /\ Frames \subseteq Seq(0 .. 255)
    /\ MaxTokens \in Nat /\ MaxSaid \in Nat

VARIABLES
    server,     \* the setting the client meets
    script,     \* what the client says, token by token
    wire,       \* what of it has not been received
    escape,     \* _ctl_escape, _telnet_iac
    state,      \* _telnet_state, 0 for None
    frame,      \* _subnegotiation_frame
    open,       \* whether there is one
    effects,    \* what came of it, in the same tokens
    lines,      \* the modem lines that are on
    said,       \* what was sent to the client, data and reports
    outgoing    \* the stream that carries it

decoder == <<escape, state, frame, open, effects>>
filterVars == <<server, script, wire, decoder, lines, said, outgoing>>

-----------------------------------------------------------------------------
(***************************************************************************)
(* The client, who knows the protocol                                      *)
(***************************************************************************)
Byte(kind, byte) == [kind |-> kind, byte |-> byte]
Option(verb, option) == [kind |-> "option", verb |-> verb, option |-> option]
Frame(payload) == [kind |-> "frame", payload |-> payload]

\* Commands, one that means nothing among them, options and frames.
TokensOf(protocol) ==
    {Byte("data", b) : b \in Data}
    \cup IF protocol = "control"
           THEN {Byte("command", b) :
                   b \in {RTS_LOW, RTS_HIGH, DTR_LOW, DTR_HIGH, GET_SIGNALS, 153}}
           ELSE {Option(WILL, LINEMODE), Option(DONT, ECHO), Byte("command", NOP)}
                \cup {Frame(payload) : payload \in Frames}

Doubled(bytes) ==
    FlattenSeq([i \in 1 .. Len(bytes) |->
                  IF bytes[i] = IAC THEN <<IAC, IAC>> ELSE <<bytes[i]>>])

Encode(token) ==
    CASE token.kind = "data"    -> Doubled(<<token.byte>>)
      [] token.kind = "command" -> <<ESCAPE, token.byte>>
      [] token.kind = "option"  -> <<IAC, token.verb, token.option>>
      [] token.kind = "frame"   -> <<IAC, SB>> \o Doubled(token.payload) \o <<IAC, SE>>

OfKind(tokens, kind) ==
    FlattenSeq([i \in 1 .. Len(tokens) |->
                  IF tokens[i].kind = kind THEN <<tokens[i]>> ELSE <<>>])

EncodeAll(tokens) == FlattenSeq([i \in 1 .. Len(tokens) |-> Encode(tokens[i])])

-----------------------------------------------------------------------------
(***************************************************************************)
(* The control protocol                                                    *)
(***************************************************************************)
Allowed(command) ==
    \/ command \in {RTS_LOW, RTS_HIGH} /\ server.rts
    \/ command \in {DTR_LOW, DTR_HIGH} /\ server.dtr
    \/ command = GET_SIGNALS

\* What a command does to the lines; rts is bit 0 and dtr bit 1.
LinesAfter(on, command) ==
    CASE command = RTS_HIGH -> on \cup {0}
      [] command = RTS_LOW  -> on \ {0}
      [] command = DTR_HIGH -> on \cup {1}
      [] command = DTR_LOW  -> on \ {1}
      [] OTHER              -> on

\* on_received(), for one byte: data is put aside, a command is carried out.
ControlStep(s, byte) ==
    CASE s.escape /\ byte = ESCAPE -> [s EXCEPT !.escape = FALSE, !.clean = Append(@, byte)]
      [] s.escape /\ byte # ESCAPE ->
           [s EXCEPT !.escape = FALSE,
                     !.done = IF Allowed(byte) THEN Append(@, Byte("command", byte)) ELSE @]
      [] ~s.escape /\ byte = ESCAPE -> [s EXCEPT !.escape = TRUE]
      [] OTHER -> IF server.canWrite THEN [s EXCEPT !.clean = Append(@, byte)] ELSE s

-----------------------------------------------------------------------------
(***************************************************************************)
(* TELNET                                                                  *)
(***************************************************************************)
\* _send_data(): to the device, or into the frame.
SendData(s, byte) ==
    CASE s.state = 0  -> [s EXCEPT !.clean = Append(@, byte)]
      [] s.state = SB -> [s EXCEPT !.frame = Append(@, byte)]
      [] OTHER        -> s

\* A frame begins, and one ends; an end without a beginning is a broken peer's.
FrameBegun(s) == [s EXCEPT !.state = SB, !.frame = <<>>, !.open = TRUE]

FrameEnded(s) ==
    [s EXCEPT !.state = 0, !.frame = <<>>, !.open = FALSE,
              !.done = IF s.open THEN Append(@, Frame(s.frame)) ELSE @]

\* _process_iac(): the byte behind an IAC.
ProcessIac(s, byte) ==
    CASE byte \in OptionCodes -> [s EXCEPT !.state = byte]
      [] byte = SB            -> FrameBegun(s)
      [] byte = SE            -> FrameEnded(s)
      [] byte = IAC           -> SendData(s, byte)
      [] OTHER                -> s

\* on_received(), for one byte.
TelnetStep(s, byte) ==
    IF s.escape THEN ProcessIac([s EXCEPT !.escape = FALSE], byte)
    ELSE IF s.state \in OptionCodes THEN
      [s EXCEPT !.state = 0, !.done = Append(@, Option(s.state, byte))]
    ELSE IF byte = IAC THEN [s EXCEPT !.escape = TRUE]
    ELSE SendData(s, byte)

-----------------------------------------------------------------------------
Step(s, byte) ==
    IF server.protocol = "control" THEN ControlStep(s, byte) ELSE TelnetStep(s, byte)

\* on_received(), byte by byte from where it was.
Run(s, piece) ==
    LET after[k \in 0 .. Len(piece)] ==
          IF k = 0 THEN s ELSE Step(after[k - 1], piece[k])
    IN after[Len(piece)]

\* (Mutant: an escape does not outlast the piece it ends.)
ParseAfresh(piece) ==
    Run([escape |-> FALSE, state |-> state, frame |-> frame, open |-> open,
         clean |-> <<>>, done |-> <<>>], piece)

Parse(piece) ==
    Run([escape |-> escape, state |-> state, frame |-> frame, open |-> open,
         clean |-> <<>>, done |-> <<>>], piece)

\* to_serial(), byte by byte.
ToSerial(clean) ==
    IF server.canWrite THEN [i \in 1 .. Len(clean) |-> Byte("data", clean[i])] ELSE <<>>

\* What comes of a piece: commands as they are met, and then the data.
\* (Mutant: the data first.)
DataFirst(s) == ToSerial(s.clean) \o s.done

Outcome(s) == s.done \o ToSerial(s.clean)

\* (Mutant: 0xFF is sent as it is.)
PlainBytes(bytes) == bytes

\* send() of bytes, each 0xFF of them twice.
Escaped(bytes) == Doubled(bytes)

\* send_signal_report(): which of the configured lines are on.
Report(on) == [kind |-> "report", lines |-> on \cap server.signals]

\* SIGNAL_BITS: what a line weighs in a report.
Weight(bit) == <<1, 2, 4, 8, 16, 32>>[bit + 1]

ReportBytes(on) ==
    LET Adds(bit) == IF bit \in on \cap server.signals THEN Weight(bit) ELSE 0
    IN <<ESCAPE, REPORT_BASE + Adds(0) + Adds(1) + Adds(2) + Adds(3) + Adds(4) + Adds(5)>>

\* The lines after each of the commands, but for what the device refuses.
LinesOver(commands, refused) ==
    LET after[i \in 0 .. Len(commands)] ==
          IF i = 0 THEN lines
          ELSE IF i \in refused THEN after[i - 1]
          ELSE LinesAfter(after[i - 1], commands[i].byte)
    IN after

\* What is reported: the lines after each that was not refused.
Told(commands, refused) ==
    LET after == LinesOver(commands, refused)
    IN FlattenSeq([i \in 1 .. Len(commands) |->
                     IF i \in refused THEN <<>> ELSE <<after[i]>>])

Reporting(told) == [i \in 1 .. Len(told) |-> Report(told[i])]
ReportedIn(told) == FlattenSeq([i \in 1 .. Len(told) |-> ReportBytes(told[i])])

\* A piece of the stream arrives. A line that is set is reported to everybody,
\* this client included, unless the device refuses it, or is not there; a request
\* for the lines is answered with those that the commands before it have left.
Receive ==
    \E n \in 1 .. Len(wire) :
      LET s == Parse(SubSeq(wire, 1, n))
          commands == OfKind(s.done, "command")
      IN
      /\ wire' = SubSeq(wire, n + 1, Len(wire))
      /\ escape' = s.escape /\ state' = s.state /\ frame' = s.frame /\ open' = s.open
      /\ effects' = effects \o Outcome(s)
      /\ \E refused \in SUBSET {i \in DOMAIN commands : commands[i].byte # GET_SIGNALS} :
           LET told == Told(commands, refused) IN
           /\ lines' = LinesOver(commands, refused)[Len(commands)]
           /\ said' = said \o Reporting(told)
           /\ outgoing' = outgoing \o ReportedIn(told)
      /\ UNCHANGED <<server, script>>

\* send(): the device says something.
SendToClient ==
    /\ Len(said) < MaxSaid
    /\ server.canRead
    /\ \E b \in Data :
         said' = Append(said, Byte("data", b)) /\ outgoing' = outgoing \o Escaped(<<b>>)
    /\ UNCHANGED <<server, script, wire, decoder, lines>>

\* A line of the device changes, and is reported.
Poll ==
    /\ Len(said) < MaxSaid
    /\ server.protocol = "control"
    /\ \E bit \in 2 .. 5 \cap server.signals :
         lines' = (lines \cup {bit}) \ (lines \cap {bit})
    /\ said' = Append(said, Report(lines'))
    /\ outgoing' = outgoing \o ReportBytes(lines')
    /\ UNCHANGED <<server, script, wire, decoder>>

\* What a TELNET connection begins with: DO LINEMODE and WILL ECHO.
Greeting(protocol) ==
    IF protocol = "telnet" THEN Escaped(<<IAC, DO, LINEMODE>>) \o Escaped(<<IAC, WILL, ECHO>>)
    ELSE <<>>

FilterInit ==
    /\ server \in Settings
    /\ script \in UNION {[1 .. n -> TokensOf(server.protocol)] : n \in 0 .. MaxTokens}
    /\ wire = EncodeAll(script)
    /\ escape = FALSE /\ state = 0 /\ frame = <<>> /\ open = FALSE
    /\ effects = <<>> /\ lines = {}
    /\ said = <<>> /\ outgoing = Greeting(server.protocol)

FilterNext == Receive \/ SendToClient \/ Poll

FilterSpec == FilterInit /\ [][FilterNext]_filterVars

-----------------------------------------------------------------------------
\* What a token is to bring about.
Meant(token) ==
    CASE token.kind = "data"    -> server.canWrite
      [] token.kind = "command" -> server.protocol = "control" /\ Allowed(token.byte)
      [] OTHER                  -> TRUE

MeantOf(tokens) ==
    FlattenSeq([i \in 1 .. Len(tokens) |->
                  IF Meant(tokens[i]) THEN <<tokens[i]>> ELSE <<>>])

\* The tokens that have been received to their end.
Complete ==
    LET bytes == Len(EncodeAll(script)) - Len(wire)
        whole == {k \in 0 .. Len(script) : Len(EncodeAll(SubSeq(script, 1, k))) <= bytes}
    IN SubSeq(script, 1, CHOOSE k \in whole : \A j \in whole : j <= k)

\* However the stream is cut, what was said to the end has been understood: the
\* device has the data, byte for byte, in order and nothing else, every command
\* the client may give was carried out once, in the order of the commands, and
\* so with options, and with subnegotiations, which were heard whole. What comes
\* first of a datum and a command is CommandsFirst's (on_received,
\* _process_control_cmd, _process_iac, to_serial).
StreamUnderstood ==
    \A kind \in {"data", "command", "option", "frame"} :
        OfKind(effects, kind) = OfKind(MeantOf(Complete), kind)

\* Between the kinds: no byte that was said after a command reaches the device
\* before the line has been set, wherever the stream is cut. One that was said
\* before it, and came with it, may reach it after (on_received).
CommandsFirst ==
    LET complete == Complete
        Commands(tokens) == OfKind(MeantOf(tokens), "command")
        Bytes(tokens) == Len(OfKind(tokens, "data"))
    IN
    \A i \in 1 .. Len(effects) : effects[i].kind = "command" =>
      \E k \in 1 .. Len(complete) :
        /\ complete[k].kind = "command" /\ Meant(complete[k])
        /\ Commands(SubSeq(effects, 1, i)) = Commands(SubSeq(complete, 1, k))
        /\ Bytes(SubSeq(effects, 1, i)) <= Bytes(SubSeq(complete, 1, k))

\* The lines that a report has on.
LinesOf(report) ==
    {bit \in 0 .. 5 : ((report - REPORT_BASE) \div Weight(bit)) % 2 = 1}

\* What a client makes of a byte that knows the protocol.
Hear(s, b) ==
    CASE s.escape -> [escape |-> FALSE,
                      items |-> Append(s.items,
                        IF b = ESCAPE THEN Byte("data", ESCAPE)
                        ELSE [kind |-> "report", lines |-> LinesOf(b)])]
      [] ~s.escape /\ b = ESCAPE -> [s EXCEPT !.escape = TRUE]
      [] OTHER -> [s EXCEPT !.items = Append(@, Byte("data", b))]

Understand(bytes) ==
    LET heard[k \in 0 .. Len(bytes)] ==
          IF k = 0 THEN [escape |-> FALSE, items |-> <<>>] ELSE Hear(heard[k - 1], bytes[k])
    IN heard[Len(bytes)].items

\* Behind the greeting, the client can tell data from reports, whatever bytes
\* the device says, and a report is of the configured lines only (send,
\* send_signal_report).
OutputUnderstood ==
    Understand(SubSeq(outgoing, Len(Greeting(server.protocol)) + 1, Len(outgoing))) = said
=============================================================================
