--------------------------- MODULE PackageFilters ---------------------------
(***************************************************************************)
(* The package filters: isWholePkg finds where the package at the front of *)
(* the received bytes ends.  A stream of packages arrives cut anywhere;    *)
(* the loop of onTcpRead hands out whole ones.  The HTTP filter searches   *)
(* with strstr, past the end of the data into what the buffer held before. *)
(*                                                                         *)
(* A byte is a number; in HTTP so is each word that the filter looks for,  *)
(* and "Content-Length: n" is the number ContentLength + n.                *)
(***************************************************************************)
EXTENDS Integers, SequencesExt

CONSTANTS
    Filters,            (* \subseteq {"raw", "h2t3", "h2shortt3", "http"}    *)
    Bodies,             (* contents of packages                              *)
    Leftovers,          (* what may lie in the buffer behind the data        *)
    MaxPackages         (* bound                                             *)

\* The largest int and unsigned short, by their bytes.
IntMax == 256 * (256 * (256 * 127 + 255) + 255) + 255
ShortMax == 256 * 255 + 255
\* The length of a package fits its bytes, and an int.
ASSUME PackageFiltersAssumption ==
    /\ Filters \subseteq {"raw", "h2t3", "h2shortt3", "http"}
    /\ Bodies \subseteq Seq(Nat) /\ Leftovers \subseteq Seq(Nat) /\ MaxPackages \in Nat
    /\ \A body \in Bodies :
           /\ "h2t3" \in Filters => Len(body) + 6 <= IntMax
           /\ "h2shortt3" \in Filters => Len(body) + 4 <= ShortMax

VARIABLES
    filter,
    packages,           (* what the peer sends                               *)
    garbled,            (* <<n, where>>: what of package n is wrong; n = 0: nothing *)
    wire,               (* bytes on their way                                *)
    recvBuf, behind,
    handed,             (* what onRead was given                             *)
    invalid             (* isWholePkg answered -2: the connection is closed  *)

packageVars == <<filter, packages, garbled, wire, recvBuf, behind, handed, invalid>>

PkgHead == 2
PkgTail == 3
CR == 13
LF == 10
HTTP == 72
GET == 71
ContentLength == 1000

\* htonl and htons.
LongBytes(n) == <<((n \div 256) \div 256) \div 256, ((n \div 256) \div 256) % 256, (n \div 256) % 256, n % 256>>
ShortBytes(n) == <<n \div 256, n % 256>>

\* How the peer packs a body; HTTP adds the header when there is a body.
Packed(f, body) ==
    CASE f = "raw" -> body
      [] f = "h2t3" -> <<PkgHead>> \o LongBytes(Len(body) + 6) \o body \o <<PkgTail>>
      [] f = "h2shortt3" -> <<PkgHead>> \o ShortBytes(Len(body) + 4) \o body \o <<PkgTail>>
      [] f = "http" ->
            <<IF body = <<>> THEN GET ELSE HTTP, CR, LF>>
            \o (IF body = <<>> THEN <<>> ELSE <<ContentLength + Len(body), CR, LF>>)
            \o <<CR, LF>> \o body

\* What isWholePkg returns and the lengths it sets; pkg is the whole package.
Whole(real, len) == [flag |-> 0, real |-> real, pkg |-> len]
Partial == [flag |-> -1]
Invalid == [flag |-> -2]

Raw(data) == IF data = <<>> THEN Partial ELSE Whole(Len(data), Len(data))

\* ntohs, and ntohl given to an int: the leading one of four bytes holds the sign.
PkgLen(data, w) ==
    IF w = 2 THEN 256 * data[2] + data[3]
    ELSE 256 * (256 * (256 * (IF data[2] >= 128 THEN data[2] - 256 ELSE data[2]) + data[3]) + data[4]) + data[5]

\* A mark, the length of the whole in w bytes, the content, a mark.
Framed_NoTailCheck(data, w) ==
    LET len == PkgLen(data, w)
    IN CASE data = <<>> -> Partial
         [] data # <<>> /\ data[1] # PkgHead -> Invalid
         [] data # <<>> /\ data[1] = PkgHead /\ Len(data) <= w + 1 -> Partial
         [] OTHER -> IF len < w + 2 THEN Invalid
                     ELSE IF len > Len(data) THEN Partial ELSE Whole(len - (w + 2), len)
Framed(data, w) ==
    LET len == PkgLen(data, w)
    IN CASE data = <<>> -> Partial
         [] data # <<>> /\ data[1] # PkgHead -> Invalid
         [] data # <<>> /\ data[1] = PkgHead /\ Len(data) <= w + 1 -> Partial
         [] OTHER -> IF len < w + 2 THEN Invalid
                     ELSE IF len > Len(data) THEN Partial
                     ELSE IF data[len] = PkgTail THEN Whole(len - (w + 2), len) ELSE Invalid
H2T3(data) == Framed(data, 4)
H2ShortT3(data) == Framed(data, 2)

\* strstr: how much of s lies before the first of these places; Len(s) if there is none.
Before(s, places) ==
    IF places = {} THEN Len(s) ELSE CHOOSE i \in places : \A j \in places : i <= j
HeadEnds(s) == {i \in 0 .. Len(s) - 1 : IsPrefix(<<CR, LF, CR, LF>>, SubSeq(s, i + 1, Len(s)))}
LengthFields(s) == {i \in 0 .. Len(s) - 1 : s[i + 1] >= ContentLength}

\* Without an end of the head the filter takes NULL + 4 for it: a distance that
\* no size reaches, but for a buffer that lies across a multiple of 4 GiB.
Http(data, after) ==
    LET mem == data \o after
        head == Before(mem, HeadEnds(mem)) + 4
        field == Before(mem, LengthFields(mem))
        len == head + (IF field < head THEN mem[field + 1] - ContentLength ELSE 0)
    IN IF HeadEnds(mem) # {} /\ len <= Len(data) THEN Whole(len, len) ELSE Partial

IsWholePkg ==
    CASE filter = "raw" -> Raw(recvBuf)
      [] filter = "h2t3" -> H2T3(recvBuf)
      [] filter = "h2shortt3" -> H2ShortT3(recvBuf)
      [] filter = "http" -> Http(recvBuf, behind)
\* getRealPkgData skips the mark and the length.
RealPkgData(pkg) ==
    CASE filter = "h2t3" -> SubSeq(pkg, 6, 5 + IsWholePkg.real)
      [] filter = "h2shortt3" -> SubSeq(pkg, 4, 3 + IsWholePkg.real)
      [] OTHER -> pkg

-----------------------------------------------------------------------------
\* A length below zero, or below that of an empty package.
WrongLength(pkg) ==
    IF filter = "h2t3" THEN ReplaceAt(pkg, 2, 255) ELSE ReplaceAt(ReplaceAt(pkg, 2, 0), 3, 0)
Garbled(pkg) ==
    CASE garbled[2] = "head" -> ReplaceAt(pkg, 1, 0)
      [] garbled[2] = "length" -> WrongLength(pkg)
      [] garbled[2] = "tail" -> ReplaceAt(pkg, Len(pkg), 0)
Sent == [i \in DOMAIN packages |->
            IF i = garbled[1] THEN Garbled(Packed(filter, packages[i])) ELSE Packed(filter, packages[i])]
PackagesInit ==
    /\ filter \in Filters
    /\ packages \in UNION {[1 .. n -> Bodies] : n \in 1 .. MaxPackages}
    /\ garbled \in {<<0, "head">>}
         \cup (IF filter \in {"h2t3", "h2shortt3"} THEN (1 .. Len(packages)) \X {"head", "length", "tail"} ELSE {})
    /\ wire = FlattenSeq(Sent)
    /\ recvBuf = <<>> /\ behind = <<>>
    /\ handed = <<>> /\ invalid = FALSE

\* One recv, of any part of what is on its way.
ReceivePart(n) ==
    /\ ~invalid /\ IsWholePkg.flag = -1
    /\ n <= Len(wire)
    /\ recvBuf' = recvBuf \o SubSeq(wire, 1, n) /\ wire' = SubSeq(wire, n + 1, Len(wire))
    /\ behind' \in Leftovers
    /\ UNCHANGED <<filter, packages, garbled, handed, invalid>>

\* A turn of the loop over the packages.
HandOut ==
    /\ IsWholePkg.flag = 0
    /\ LET n == IsWholePkg.pkg
       IN /\ handed' = Append(handed, RealPkgData(SubSeq(recvBuf, 1, n)))
          /\ recvBuf' = SubSeq(recvBuf, n + 1, Len(recvBuf))
    /\ UNCHANGED <<filter, packages, garbled, wire, behind, invalid>>

CloseInvalid ==
    /\ ~invalid /\ IsWholePkg.flag = -2
    /\ invalid' = TRUE
    /\ UNCHANGED <<filter, packages, garbled, wire, recvBuf, behind, handed>>

PackagesNext == (\E n \in 1 .. Len(wire) : ReceivePart(n)) \/ HandOut \/ CloseInvalid
PackagesSpec == PackagesInit /\ [][PackagesNext]_packageVars

-----------------------------------------------------------------------------
\* However the stream is cut and whatever lies behind it, the packages handed out
\* are those sent, whole and in order - of a raw stream the bytes -, up to the
\* first whose marks or length are wrong; only that one is taken for invalid, and none that
\* has arrived is held back.
Expected == IF filter = "http" THEN [i \in DOMAIN packages |-> Packed("http", packages[i])] ELSE packages
Ungarbled == IF garbled[1] = 0 THEN Len(packages) ELSE garbled[1] - 1
PackagesAsSent ==
    /\ IF filter = "raw" THEN IsPrefix(FlattenSeq(handed), FlattenSeq(packages))
       ELSE IsPrefix(handed, SubSeq(Expected, 1, Ungarbled))
    /\ invalid => Len(handed) = Ungarbled /\ garbled[1] # 0
    /\ IsWholePkg.flag = -1 /\ Len(handed) < Ungarbled /\ filter # "raw" =>
           Len(recvBuf) < Len(Packed(filter, packages[Len(handed) + 1]))
    /\ wire = <<>> /\ IsWholePkg.flag = -1 => recvBuf = <<>>
=============================================================================
