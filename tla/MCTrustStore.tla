---------------------------- MODULE MCTrustStore ----------------------------
(***************************************************************************)
(* Documents with windows around the seconds 4 to 9 after midnight, whole  *)
(* and fractional, in UTC and with an offset, and with each of the faults  *)
(* that the conversions find, in each section, those of JSON shape too.    *)
(* And the calendar their instants are counted in, walked day by day: from *)
(* the year 0 over its first era, and from before the epoch over 2000, a   *)
(* leap year, and 2100, which is none.                                     *)
(***************************************************************************)
EXTENDS TrustStore, Calendar

CONSTANT MaxSecond

Epoch == Date(1970, 1, 1)
East == Zone(1, 1, 30)

At(second, fraction) == Text(Epoch, 0, 0, second, fraction, Utc)
AtEast(second, fraction) == Text(Epoch, 1, 30, second, fraction, East)

StartTexts == {At(4, <<>>), At(4, <<0>>), At(4, <<0, 5>>), AtEast(5, <<9, 9, 9, 9>>)}
EndTexts == {At(8, <<>>), At(8, <<0, 0, 0, 1>>), AtEast(7, <<5>>), At(4, <<>>)}
BadTexts == {[At(4, <<>>) EXCEPT !.wellFormed = FALSE], [At(4, <<>>) EXCEPT !.month = 0],
             [At(4, <<>>) EXCEPT !.month = 2, !.day = 29], [At(4, <<>>) EXCEPT !.zone.minute = 60]}

Window(start, end) == Obj([start |-> Str(start), end |-> end])
Open(start) == Obj([start |-> Str(start)])
Windows == {Open(s) : s \in StartTexts} \union {Window(s, Null) : s \in StartTexts}
               \union {Window(s, Str(e)) : s \in StartTexts, e \in EndTexts}
GoodWindow == Open(At(4, <<>>))
BadWindows == {Open(s) : s \in BadTexts} \union {Window(At(4, <<>>), Str(e)) : e \in BadTexts}
                  \union {Window(At(4, <<>>), Num(8)), Obj([end |-> Null])}

Log(key, window) ==
    Obj([baseUrl |-> Str("url"), hashAlgorithm |-> Str("SHA2_256"),
         publicKey |-> Obj([rawBytes |-> Str(key), keyDetails |-> Str("P256"), validFor |-> window]),
         logId |-> Obj([keyId |-> Str("id")])])
WithHint(log, hint) == Obj(log.obj @@ [checkpointKeyId |-> hint])
FaultyLogs ==
    {Log("k", w) : w \in BadWindows}
    \union {Log(NotBase64, GoodWindow), [Log("k", GoodWindow) EXCEPT !.obj["logId"] = Obj([keyId |-> Str(NotBase64)])],
            WithHint(Log("k", GoodWindow), Str(NotBase64)), WithHint(Log("k", GoodWindow), Null)}

Authority(chain, window) ==
    Obj([subject |-> Obj([organization |-> Str("o"), commonName |-> Str("cn")]), uri |-> Str("url"),
         certChain |-> Obj([certificates |-> Arr([i \in DOMAIN chain |-> Obj([rawBytes |-> Str(chain[i])])])]),
         validFor |-> window])
FaultyAuthorities ==
    {Authority(<<"c">>, w) : w \in BadWindows}
    \union {Authority(<<"c", NotBase64>>, GoodWindow),
            Authority([i \in 1..(MaxCertificatesPerChain + 1) |-> "c"], GoodWindow),
            [Authority(<<"c">>, GoodWindow) EXCEPT !.obj["certChain"] = Obj([certificates |-> Null])]}

\* Serde reads a struct from the list of its fields too.
ListedLog(start) ==
    Arr(<<Str("url"), Str("SHA2_256"), Arr(<<Str("j"), Str("P256"), Arr(<<Str(start)>>)>>), Arr(<<Str("id")>>)>>)

GoodLog == Log("k", GoodWindow)
GoodAuthority == Authority(<<"c", "d">>, GoodWindow)
GoodRoot ==
    Obj([mediaType |-> Str(TrustedRootMediaType), tlogs |-> Arr(<<WithHint(GoodLog, Str("hint"))>>),
         ctlogs |-> Arr(<<GoodLog>>), certificateAuthorities |-> Arr(<<GoodAuthority>>)])
Root(section, members) == Obj((section :> Arr(members)) @@ GoodRoot.obj)

Roots ==
    {GoodRoot, Obj([mediaType |-> Str(TrustedRootMediaType)]),
     [GoodRoot EXCEPT !.obj["mediaType"] = Str("other")], [GoodRoot EXCEPT !.obj["tlogs"] = Null],
     Obj([tlogs |-> Arr(<<GoodLog>>)])}
    \union {Root("tlogs", <<GoodLog, l>>) : l \in {Log("j", w) : w \in Windows} \union FaultyLogs}
    \union {Root("ctlogs", <<l, GoodLog>>) : l \in {Log("j", w) : w \in Windows} \union FaultyLogs}
    \union {Root("ctlogs", <<ListedLog(s)>>) : s \in StartTexts}
    \union {Root("certificateAuthorities", <<GoodAuthority, a>>) :
                a \in {Authority(<<>>, w) : w \in Windows} \union FaultyAuthorities}
    \union {Root("timestampAuthorities", <<a>>) : a \in {GoodAuthority} \union FaultyAuthorities}

AllDocuments ==
    [embedded : {FALSE}, size : {MaxInputBytes}, json : {Ok}, value : Roots]
    \union [embedded : {TRUE}, size : {MaxInputBytes}, json : {Ok}, value : {GoodRoot}]
    \union [embedded : {FALSE}, size : {MaxInputBytes, MaxInputBytes + 1}, json : {"Json", "TooManyJsonNodes"},
            value : {Null}]

AllEvidence == 0..MaxSecond
AllTimestamps == {100 * t : t \in 0..(10 * MaxSecond)}

-----------------------------------------------------------------------------
\* Either a document is parsed, or the calendar is walked beside one that is refused at once.
Standing == date = Epoch /\ days = 0 /\ until = Epoch.year
TooLarge == document.size > MaxInputBytes /\ document.json = "Json"

TrustInit ==
    \/ Standing /\ Init
    \/ Init /\ TooLarge /\ CalendarInit

TrustNext ==
    \/ Next /\ UNCHANGED calendarVars
    \/ pc = "done" /\ NextDay /\ UNCHANGED vars

TrustSpec == TrustInit /\ [][TrustNext]_<<vars, calendarVars>>

FirstYearAndEpoch == {[year |-> 0, days |-> -719528], [year |-> 1969, days |-> -365]}

MCStarts == FirstYearAndEpoch
MCDocuments == AllDocuments
MCEvidence == AllEvidence
MCSctTimestamps == AllTimestamps
=============================================================================
