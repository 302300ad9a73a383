-------------------------------- MODULE Brand --------------------------------
(***************************************************************************)
(* The EXE self-check and registration of HS/Link: SETCRC.C, the build     *)
(* tool, appends the copyright text and an unregistered 'lvp' packet to    *)
(* HSLINK.EXE, sums the CRCs of the file's text in TEXT_CRC_SIZE chunks    *)
(* and plugs CRCOF of that sum into the EXE header; HSUID.C, at every      *)
(* start of HSLINK, reads the lvp back from the end of the file, sums the  *)
(* CRCs of the same text and bumps the stored CRC for a damaged lvp or a   *)
(* password that does not match the user number; local_userid is the      *)
(* user number only when the two agree.  brand_new_user (HSLINK (BRAND)   *)
(* uid pw) rewrites the lvp.                                               *)
(*                                                                         *)
(* calculate_CRC is abstracted to what it is computed over: a sum of chunk *)
(* CRCs is the list of chunks (offset, length) together with the modified  *)
(* bytes that fall inside them, and two sums are equal exactly when these  *)
(* are (CRC collisions are not modelled).  File offsets keep the 16-bit    *)
(* width of 'unsigned' where the code stores them in one.                  *)
(***************************************************************************)
EXTENDS Integers, Sequences, FiniteSets

CONSTANTS Linked,        \* sizes of HSLINK.EXE as linked, before SETCRC
          LVP,           \* sizeof(lvp)
          HEADER,        \* EXE_HEADER_SIZE
          COPYRIGHT,     \* strlen(copyright) in initialize_lvp
          TEXT_CRC_SIZE, \* bytes per calculate_CRC call
          Uids           \* user numbers a brand may carry (0: unregistered)

UWIDTH == 65536          \* unsigned is 16 bits wide

VARIABLES exe,           \* HSLINK.EXE: [size, pcrc, lvp, dirty]
          signed,        \* SETCRC has been run on it
          proper,        \* proper_CRC: [crc, bumps] (bumps: the ++s)
          text,          \* text_CRC as computed by determine_local_userid
          lvp,           \* the lvp in memory after determine_local_userid
          started        \* HSLINK has determined the local user id

vars == <<exe, signed, proper, text, lvp, started>>

\* An lvp: its user number, whether its password matches that number, and
\* whether it is scrambled by CYPHER_LVP.  Bytes read from anywhere else
\* are Garbage.
Lvp(u, ok, scr) == [uid |-> u, pwok |-> ok, scrambled |-> scr, real |-> TRUE]
Lvps == {Lvp(u, ok, s) : u \in Uids, ok \in BOOLEAN, s \in BOOLEAN}
Garbage == [uid |-> 0, pwok |-> FALSE, scrambled |-> FALSE, real |-> FALSE]

TypeOK ==
    /\ exe.size \in Nat /\ exe.dirty \subseteq 0..exe.size
    /\ exe.lvp \in {l \in Lvps : l.scrambled}
    /\ signed \in BOOLEAN /\ started \in BOOLEAN
    /\ proper.bumps \in 0..2
    /\ lvp \in Lvps \cup {Garbage}

-----------------------------------------------------------------------------
\* CYPHER_LVP scrambles the lvp in place; applied twice it restores it.
Cypher(l) == [l EXCEPT !.scrambled = ~@]

\* The chunks of a 'while (count) { i = min(TEXT_CRC_SIZE, count);
\* count -= i; i = _read(fd, buf, i); crc += calculate_CRC(buf, i); }'
\* loop reading from offset pos of a file of the given size; _read stops
\* at the end of the file.
RECURSIVE Chunks(_, _, _)
Chunks(pos, count, size) ==
    IF count = 0 THEN <<>>
    ELSE LET i == IF TEXT_CRC_SIZE > count THEN count ELSE TEXT_CRC_SIZE
             got == IF pos + i <= size THEN i
                    ELSE IF pos < size THEN size - pos ELSE 0
         IN <<<<pos, got>>>> \o Chunks(pos + got, count - i, size)

\* The sum of calculate_CRC over the chunks, as what it depends on.
CrcSum(f, cs) ==
    [chunks |-> cs,
     dirty  |-> {o \in f.dirty :
                   \E k \in 1..Len(cs) : cs[k][1] <= o /\ o < cs[k][1] + cs[k][2]}]

\* SETCRC main(): initialize_lvp appends the copyright and the scrambled
\* '[UNREGISTERED]' lvp (user 0); get_file_crc sums the text between the
\* header and the lvp ('p' is a long); insert_crc stores CRCOF of the sum.
InitializeLvp(f) == [f EXCEPT !.size = @ + COPYRIGHT + LVP,
                              !.lvp = Lvp(0, TRUE, TRUE)]

GetFileCrc(f) == CrcSum(f, Chunks(HEADER, f.size - LVP - HEADER, f.size))

InsertCrc(f, crc) == [f EXCEPT !.pcrc = crc]

Setcrc ==
    /\ ~signed
    /\ LET f == InitializeLvp(exe)
       IN exe' = InsertCrc(f, GetFileCrc(f))
    /\ signed' = TRUE
    /\ UNCHANGED <<proper, text, lvp, started>>

\* Mutant (see PROJECT.json).
DetermineNoHeaderSkip(f) ==
    LET crcpos == (f.size - LVP) % UWIDTH
        l == IF crcpos = f.size - LVP THEN Cypher(f.lvp) ELSE Garbage
        bad(b) == IF b THEN 0 ELSE 1
        ok == l.real /\ ~l.scrambled
    IN [text  |-> CrcSum(f, Chunks(HEADER, crcpos, f.size)),
        lvp   |-> l,
        proper |-> [crc |-> f.pcrc,
                    bumps |-> bad(ok) + bad(ok /\ l.pwok)]]

\* determine_local_userid: 'crcpos' is an unsigned holding the offset of
\* the lvp (file size minus sizeof(lvp)); the lvp is read from there and
\* unscrambled, proper_CRC is loaded from the header, crcpos is reduced by
\* the header bytes read, and the text up to crcpos is summed.  A damaged
\* lvp and a password that does not match its user number each bump
\* proper_CRC.
DetermineLocalUserid(f) ==
    LET crcpos == (f.size - LVP) % UWIDTH
        l == IF crcpos = f.size - LVP THEN Cypher(f.lvp) ELSE Garbage
        bad(b) == IF b THEN 0 ELSE 1
        ok == l.real /\ ~l.scrambled
    IN [text  |-> CrcSum(f, Chunks(HEADER, (crcpos - HEADER) % UWIDTH, f.size)),
        lvp   |-> l,
        proper |-> [crc |-> f.pcrc,
                    bumps |-> bad(ok) + bad(ok /\ l.pwok)]]

\* Start of HSLINK with an ordinary first argument: brand_detected finds
\* no (BRAND) key and calls determine_local_userid.
BrandDetected ==
    /\ signed
    /\ LET d == DetermineLocalUserid(exe)
       IN proper' = d.proper /\ text' = d.text /\ lvp' = d.lvp
    /\ started' = TRUE
    /\ UNCHANGED <<exe, signed>>

\* Mutant (see PROJECT.json).
BrandNewUserNoCypher(u, pwok) ==
    /\ signed
    /\ LET f == [exe EXCEPT !.lvp = Lvp(u, pwok, FALSE)]
           d == DetermineLocalUserid(f)
       IN /\ exe' = f
          /\ proper' = d.proper /\ text' = d.text /\ lvp' = d.lvp
    /\ started' = TRUE
    /\ UNCHANGED signed

\* HSLINK (BRAND) uid pw: brand_new_user builds the lvp for the user
\* number and password and scrambles it; only if _open(exe, O_RDWR) gives
\* fd > 0 (it fails on a read-only or locked EXE) does it write the lvp
\* over the last sizeof(lvp) bytes (seeking with a long).  Either way it
\* then calls determine_local_userid on the file as it now is.
BrandNewUser(u, pwok) ==
    /\ signed
    /\ \E opened \in BOOLEAN :
       LET f == IF opened THEN [exe EXCEPT !.lvp = Lvp(u, pwok, TRUE)] ELSE exe
           d == DetermineLocalUserid(f)
       IN /\ exe' = f
          /\ proper' = d.proper /\ text' = d.text /\ lvp' = d.lvp
    /\ started' = TRUE
    /\ UNCHANGED signed

\* local_userid(): the user number only if proper_CRC == CRCOF(text_CRC).
LocalUserid ==
    IF proper.bumps = 0 /\ proper.crc = text THEN lvp.uid ELSE 0

-----------------------------------------------------------------------------
\* Someone patches one byte of the text of the signed EXE (a virus, a
\* crack) between two runs of HSLINK; offsets just after the header and just before the lvp.
Tamper ==
    /\ signed
    /\ \E o \in {HEADER, exe.size - LVP - 1} :
         exe' = [exe EXCEPT !.dirty = @ \cup {o}]
    /\ started' = FALSE
    /\ UNCHANGED <<signed, proper, text, lvp>>

Init ==
    /\ exe \in [size : Linked, pcrc : {"none"}, lvp : {Lvp(0, TRUE, TRUE)},
                dirty : {{}}]
    /\ signed = FALSE /\ started = FALSE
    /\ proper = [crc |-> "none", bumps |-> 0] /\ text = "none"
    /\ lvp = Lvp(0, TRUE, FALSE)

Next ==
    \/ Setcrc \/ BrandDetected
    \/ \E u \in Uids, ok \in BOOLEAN : BrandNewUser(u, ok)
    \/ Tamper

Spec == Init /\ [][Next]_vars

-----------------------------------------------------------------------------
(* Properties.                                                             *)

\* The text between the EXE header and the lvp has not been modified.
Untampered == exe.dirty = {}

\* What the self-check is for: after HSLINK starts, local_userid is the
\* user number of the last brand exactly when the EXE is untouched since
\* SETCRC signed it and the brand's password matches; otherwise it is 0
\* (unregistered: no chat, no registration notice).
RegisteredIffGenuine ==
    started =>
        LocalUserid = IF Untampered /\ exe.lvp.pwok THEN exe.lvp.uid ELSE 0
====
