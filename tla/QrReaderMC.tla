----------------------------- MODULE QrReaderMC -----------------------------
(***************************************************************************)
(* QrReader with texts of the program, address and port, and with longer   *)
(* ones for the parts of encode() that those do not reach.                 *)
(***************************************************************************)
EXTENDS QrReader

RECURSIVE Decimal(_)
Decimal(n) ==
  (IF n < 10 THEN <<>> ELSE Decimal(n \div 10)) \o <<Characters[1 + (n % 10)]>>

AddressAndPort(ip, port) ==
  Decimal(ip[1]) \o <<".">> \o Decimal(ip[2]) \o <<".">> \o Decimal(ip[3])
    \o <<".">> \o Decimal(ip[4]) \o <<":">> \o Decimal(port)

UnknownAddress == <<"?", ".", "?", ".", "?", ".", "?", ":", "5", "0", "0", "0">>
Cycle(length) == [i \in 1 .. length |-> Characters[1 + ((7 * i) % 45)]]

\* Of 9 to 21 characters: the shortest, odd and even lengths, the longest
\* text of version 1 and the longest text there is.
ProgramTexts ==
  { AddressAndPort(<<1, 1, 1, 1>>, 1),
    AddressAndPort(<<10, 0, 0, 2>>, 5000),
    AddressAndPort(<<192, 168, 1, 5>>, 5000),
    AddressAndPort(<<192, 168, 100, 20>>, 5000),
    AddressAndPort(<<192, 168, 100, 200>>, 5000),
    AddressAndPort(<<255, 255, 255, 255>>, 65535),
    UnknownAddress }

\* Letters and signs; the longest texts of version 3, one block, and version 4,
\* two blocks; a text that no version takes.
OtherTexts == { Cycle(30), Cycle(61), Cycle(90), Cycle(361) }

MCTexts == ProgramTexts \cup OtherTexts
=============================================================================
