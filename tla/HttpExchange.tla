---------------------------- MODULE HttpExchange ----------------------------
(***************************************************************************)
(* A CHttpReader and a CHttpWriter used for request after request, as      *)
(* their reset and begin allow (the pools make new ones for each).         *)
(* setData resets the reader and fills its tables, returning early from a  *)
(* request it cannot read; begin resets the writer, setHead, setCookie,    *)
(* write and setBodyLen put the response together in any order, and end    *)
(* forms it.                                                               *)
(*                                                                         *)
(* A request is what the searches of setData find in its text:             *)
(*   command, uri, version: "" where it is empty or not found;             *)
(*   query, body: what lies between '&': <<name, value>>, or <<text>>      *)
(*     without a '=';                                                      *)
(*   heads: <<name, value>>, a value being what lies between ';';          *)
(*   parts: what lies between the boundaries of a multipart body.          *)
(* A value is a number; EncodedAs + n is the form-url-encoded form of n.   *)
(* In the tables each entry bears the number of the request it is from.    *)
(***************************************************************************)
EXTENDS Integers, Sequences

CONSTANTS
    Requests,           (* what clients may send                             *)
    HeadNames, CookieNames, BodyLens,   (* what the application sets         *)
    MaxRequests, MaxSets                (* bounds                            *)

\* Of a text between '&' or ';' there are a name and a value, or no '='.
AreItems(s) ==
    /\ s \in Seq({s[i] : i \in DOMAIN s})
    /\ \A i \in DOMAIN s : Len(s[i]) \in {1, 2} /\ (Len(s[i]) = 2 => s[i][2] \in Nat)
ASSUME HttpExchangeAssumption ==
    /\ Requests # {}
    /\ \A q \in Requests :
           /\ AreItems(q.query) /\ AreItems(q.body)
           /\ q.heads \in Seq({q.heads[i] : i \in DOMAIN q.heads})
           /\ \A i \in DOMAIN q.heads : AreItems(q.heads[i][2])
           /\ q.parts \in Seq({q.parts[i] : i \in DOMAIN q.parts})
           /\ \A i \in DOMAIN q.parts : q.parts[i].value \in Nat

VARIABLES
    served,             (* requests so far                                   *)
    request,
    reader, bOk,
    writer, response,
    stage,              (* "idle", "begun", "ended"                          *)
    sets                (* what the application set for this response        *)

httpVars == <<served, request, reader, bOk, writer, response, stage, sets>>

Empty == <<>>           \* the empty table
EncodedAs == 1000 * 100
FormUrlDecode(v) == v % EncodedAs
Multipart == <<<<-1>>>>     \* multipart/form-data; boundary=...
ToLower(name) == CASE name = "Content-Type" -> "content-type" [] name = "Cookie" -> "cookie" [] OTHER -> name

With(t, n, e) == [x \in DOMAIN t \cup {n} |-> IF x = n THEN e ELSE t[x]]
\* One <<name, what is entered>> after the other, <<>> being passed over.
Entered(t, entries) ==
    LET e[n \in 0 .. Len(entries)] ==
            IF n = 0 THEN t
            ELSE IF entries[n] = <<>> THEN e[n - 1]
            ELSE With(e[n - 1], entries[n][1], entries[n][2])
    IN e[Len(entries)]
\* parseValues, parseCookies: what has no '=' is passed over.
Table(items, k) ==
    Entered(Empty, [i \in DOMAIN items |->
        IF Len(items[i]) = 1 THEN <<>> ELSE <<items[i][1], <<k, FormUrlDecode(items[i][2])>>>>])

NewReader == [command |-> "", uri |-> Empty, heads |-> Empty, cookies |-> Empty, values |-> Empty,
              files |-> Empty, fileName |-> ""]
\* reset leaves the command and the files.
ResetReader_KeepsCookies(r) == [NewReader EXCEPT !.command = r.command, !.files = r.files, !.cookies = r.cookies]
ResetReader(r) == [NewReader EXCEPT !.command = r.command, !.files = r.files]

\* The head: the first multipart Content-Type gives the boundary and is not
\* entered; a line without a name ends setData.
IsBoundary(h) == h = <<"Content-Type", Multipart>>
FirstIn(s, P(_)) == LET at == {i \in DOMAIN s : P(s[i])}
                    IN IF at = {} THEN Len(s) + 1 ELSE CHOOSE i \in at : \A j \in at : i <= j
Nameless(h) == h[1] = ""
Boundary(q) == FirstIn(q.heads, IsBoundary)
HeadTable(q, k) ==
    Entered(Empty, [i \in 1 .. FirstIn(q.heads, Nameless) - 1 |->
        IF i = Boundary(q) THEN <<>> ELSE <<ToLower(q.heads[i][1]), <<k, q.heads[i][2]>>>>])

\* The cookies of the head as it was entered, of the last Cookie line.
Cookies(heads, k) == Table(IF "cookie" \in DOMAIN heads THEN heads["cookie"][2] ELSE <<>>, k)

\* parsePostFormData: up to the first part that is no form data with a name and
\* a head of its own; a part with a file name and a type is a file as well.
Breaks(p) == ~p.formData \/ p.name = "" \/ ~p.headEnds
PartsRead(q) == SubSeq(q.parts, 1, FirstIn(q.parts, Breaks) - 1)
IsFile(p) == p.fileName # "" /\ p.type # ""
PartValues(q, k) == [i \in DOMAIN PartsRead(q) |-> <<q.parts[i].name, <<k, FormUrlDecode(q.parts[i].value)>>>>]
PartFiles(q, k) ==
    [i \in DOMAIN PartsRead(q) |->
        LET p == q.parts[i]
        IN IF IsFile(p) THEN <<p.name, <<k, p.value, p.fileName, p.type>>>> ELSE <<>>]
FormData(r, q, k) ==
    [r EXCEPT !.values = Entered(@, PartValues(q, k)), !.files = Entered(@, PartFiles(q, k)),
              !.fileName = IF PartsRead(q) = <<>> THEN @ ELSE q.parts[Len(PartsRead(q))].fileName]

\* setData: what the reader holds afterwards, and what is returned.
Commands == {"GET", "POST", "HEAD"}
WellFormed(q) == q.command \in Commands /\ q.uri # "" /\ q.version # ""
               /\ FirstIn(q.heads, Nameless) > Len(q.heads)
ValuesText(q) == CASE q.command = "GET" -> q.query [] q.command = "POST" -> q.body [] OTHER -> <<>>
IsForm(q) == q.command = "POST" /\ Boundary(q) <= Len(q.heads)
Filled(r, q, k) ==
    LET commanded == IF q.command \in Commands THEN [ResetReader(r) EXCEPT !.command = q.command] ELSE ResetReader(r)
        named == [commanded EXCEPT !.uri = <<k, q.uri, IF q.command = "HEAD" THEN q.query ELSE <<>> >>]
        headed == [named EXCEPT !.heads = HeadTable(q, k)]
        parsed == [headed EXCEPT !.cookies = Cookies(headed.heads, k), !.values = Table(ValuesText(q), k)]
    IN CASE q.command \notin Commands \/ q.uri = "" -> commanded
         [] q.command \in Commands /\ q.uri # "" /\ q.version = "" -> named
         [] q.command \in Commands /\ q.uri # "" /\ q.version # "" ->
                IF ~WellFormed(q) THEN headed
                ELSE IF IsForm(q) THEN FormData(parsed, q, k)
                ELSE parsed

\* getValue and getCookie: the default, or the value in the width asked for.
Widths == {"unsigned char", "unsigned short", "int", "bool"}
As(width, v) ==
    CASE width = "unsigned char" -> v % 256
      [] width = "unsigned short" -> v % (256 * 256)
      [] width = "int" -> v
      [] width = "bool" -> IF v = 0 THEN 0 ELSE 1
Get(table, name, width, default) == IF name \in DOMAIN table THEN As(width, table[name][2]) ELSE default

NewWriter == [heads |-> Empty, cookies |-> Empty, body |-> <<>>, bodyLen |-> 0]
\* begin leaves the heads.
Begun(w) == [NewWriter EXCEPT !.heads = w.heads]

-----------------------------------------------------------------------------
HttpInit ==
    /\ served = 0 /\ request = CHOOSE q \in Requests : TRUE
    /\ reader = NewReader /\ bOk = FALSE
    /\ writer = NewWriter /\ response = NewWriter
    /\ stage = "idle" /\ sets = 0

\* setData, and begin for the response.
SetData(q) ==
    /\ stage # "begun" /\ served < MaxRequests
    /\ served' = served + 1 /\ request' = q
    /\ reader' = Filled(reader, q, served + 1) /\ bOk' = WellFormed(q)
    /\ writer' = Begun(writer) /\ stage' = "begun" /\ sets' = 0
    /\ UNCHANGED response

AppSets(w) ==
    /\ stage = "begun" /\ sets < MaxSets /\ sets' = sets + 1
    /\ writer' = w
    /\ UNCHANGED <<served, request, reader, bOk, response, stage>>
SetHead(n) == AppSets([writer EXCEPT !.heads = With(@, n, <<served, sets>>)])
\* insert: the first value of a cookie stays.
SetCookie(n) == AppSets([writer EXCEPT !.cookies = IF n \in DOMAIN @ THEN @ ELSE With(@, n, <<served, sets>>)])
Write == AppSets([writer EXCEPT !.body = Append(@, <<served, sets>>)])
SetBodyLen(n) == AppSets([writer EXCEPT !.bodyLen = n])

\* end: the length set, or that of the body.
End ==
    /\ stage = "begun" /\ stage' = "ended"
    /\ response' = [writer EXCEPT !.bodyLen = IF @ # 0 THEN @ ELSE Len(writer.body)]
    /\ UNCHANGED <<served, request, reader, bOk, writer, sets>>

HttpNext ==
    \/ (\E q \in Requests : SetData(q))
    \/ (\E n \in HeadNames : SetHead(n)) \/ (\E n \in CookieNames : SetCookie(n))
    \/ Write \/ (\E n \in BodyLens : SetBodyLen(n)) \/ End
HttpSpec == HttpInit /\ [][HttpNext]_httpVars

-----------------------------------------------------------------------------
\* After request upon request, read or given up half way: each name gives the
\* last value this request has for it, or else the default, in the range of the
\* type asked for; nothing of an earlier request is left but its files, which
\* this one's of the same name replace; and the response holds what was set for
\* it and the heads of earlier ones.
Given(q) == ValuesText(q) \o (IF IsForm(q) THEN [i \in DOMAIN PartsRead(q) |-> <<q.parts[i].name, q.parts[i].value>>]
                              ELSE <<>>)
IsFor(i, n) == Len(i) = 2 /\ i[1] = n
NamesIn(items) == {i[1] : i \in {j \in {items[k] : k \in DOMAIN items} : Len(j) = 2}}
LastFor(items, n) == items[CHOOSE k \in DOMAIN items :
                        IsFor(items[k], n) /\ \A j \in k + 1 .. Len(items) : ~IsFor(items[j], n)][2]
ReaderStandsAlone ==
    /\ \A t \in {reader.heads, reader.cookies, reader.values} : \A n \in DOMAIN t : t[n][1] = served
    /\ DOMAIN reader.values = IF bOk THEN NamesIn(Given(request)) ELSE {}
    /\ \A n \in DOMAIN reader.values : reader.values[n][2] = FormUrlDecode(LastFor(Given(request), n))
    /\ ~bOk => reader.cookies = Empty
    /\ \A n \in DOMAIN reader.files :
        reader.files[n][1] = served <=>
            bOk /\ IsForm(request)
                /\ \E i \in DOMAIN PartsRead(request) : request.parts[i].name = n /\ IsFile(request.parts[i])
    /\ \A n \in DOMAIN reader.values, d \in {0, 255} :
        /\ Get(reader.values, n, "unsigned char", d) \in 0 .. 255
        /\ Get(reader.values, n, "unsigned short", d) \in 0 .. 256 * 256 - 1
ResponseStandsAlone ==
    stage = "ended" =>
        /\ \A n \in DOMAIN response.cookies : response.cookies[n][1] = served
        /\ \A i \in DOMAIN response.body : response.body[i][1] = served
        /\ response.bodyLen \in BodyLens \cup {Len(response.body)}
HttpOfThisRequest == ReaderStandsAlone /\ (served > 0 => ResponseStandsAlone)
=============================================================================
