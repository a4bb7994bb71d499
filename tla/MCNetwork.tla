------------------------------ MODULE MCNetwork ------------------------------
(* Code for the run of IpHost and NetApps: what a host does to get on the     *)
(* network, and the services on top of TCP and UDP, one of them in a          *)
(* behaviour. The networks: the router is the DHCP server; another machine is,*)
(* and becomes the gateway; another machine is and names the router.          *)
EXTENDS IpHost, TLC

CONSTANTS BLOCK, Transfers, TFTP_BLOCK, Downloads, MaxDownloads, COMMAND_BUFFER_SIZE, COMMAND_BUFFER_COUNT,
          HISTORY_SIZE, TelnetFuncList, StoredFiles, Typings, HtmlPages, WebFiles, Requests, MaxRequests,
          Sessions, MaxTransfers

VARIABLES ftp, tftp, telnet, http, console, service, onHost

Apps == INSTANCE NetApps

Router  == [server |-> "gw",  relay |-> "0",  dns |-> "srv"]
Server  == [server |-> "srv", relay |-> "0",  dns |-> "srv"]
Relayed == [server |-> "srv", relay |-> "gw", dns |-> "srv"]
AllSites == {Router, Server, Relayed}

Transfer(send, user, opens, size, length) ==
    [send |-> send, user |-> user, name |-> "file", opens |-> opens, size |-> size, length |-> length]
AllTransfers ==
    { Transfer(FALSE, "guest", TRUE, size, length) : size \in {3, 9}, length \in {0, 1, 2, 4} }
    \cup { Transfer(TRUE, "PlasmaSend", TRUE, size, 0) : size \in {0, 1, 2, 3} }
    \cup { Transfer(TRUE, "guest", TRUE, 1, 0), Transfer(FALSE, "guest", FALSE, 2, 2), Transfer(FALSE, "guest", TRUE, 2, 2),
           [Transfer(TRUE, "PlasmaSend", TRUE, 1, 0) EXCEPT !.name = "/flash/web"] }

AllDownloads == [exists : {TRUE}, length : 0..5, size : 1..6] \cup [exists : {FALSE}, length : {1}, size : {1}]

Words == <<"c">> :> "cat" @@ <<"p">> :> "cp" @@ <<"d">> :> "rm" @@ <<"x">> :> "exit" @@ <<"r">> :> "run"
TheFiles == <<"s">> :> <<"d", " ", "f", "\n", "u">> @@ <<"f">> :> <<"q">> @@ <<"g">> :> <<"nul">>
Up == <<"escape", "[", "A">>
Down == <<"escape", "[", "B">>
Left == <<"escape", "[", "D">>
AllTypings ==
    { << <<"a", "b", "\n">>, <<"b", "\n">>, Up \o Up \o <<"c", "\n">>, Up \o <<"\n">> >>,
      << <<"a">>, <<"backspace", "nul">>, <<"a", "\n", "b">>, Up \o Down \o <<"c">> \o Left \o <<"e", "\n">> >>,
      << <<"a", "\n">>, <<"b", "\n">>, Up \o Up \o Up \o Up \o <<"\n">>, <<" ", "a", "\n">> >>,
      << <<"IAC", "a">>, <<"\r", "\n">>, <<"a", "b", "\r", "\n">>, <<"b", "escape">>, Up \o <<"\r", "\n">> >>,
      << <<"c", " ", "f", " ", ">", "g", "\n">>, <<"p", " ", "g", " ", "f", "\n">>, <<"r", " ", "s", "\n">>, <<"v", "\n">> >>,
      << <<"p", " ", "s", " ", "g", "\n">>, <<"r", " ", "g", "\n">>, <<"c", " ", "<", "f", "\n">>, <<"x", "\n">>, <<"b", "\n">> >> }

Page(name, type, length) == [name |-> name, type |-> type, length |-> length]
AllPages == << Page(<<"/", "H">>, "", 3), Page(<<"/", "F">>, "", 2), Page(<<"/", " ">>, "", 5),
               Page(<<"/", "o", " ">>, ".htm", 4), Page(<<"/", "h", " ">>, ".html", 6),
               Page(<<"/", "g", " ">>, ".gif", 7), Page(<<"/", "c">>, "callback", 0) >>
File(name, dir, type) == [name |-> name, dir |-> dir, type |-> type, length |-> 8]
AllFiles == { File(<<"w">>, "/web/", ".htm"), File(<<"w">>, "/flash/web/", ".htm"),
              File(<<"x">>, "/flash/web/", ".gif"), File(<<"y">>, "/web/", "") }
AllPaths == { <<"/", n, " ", "v">> : n \in {"H", "F", "o", "h", "g", "c", "w", "x", "y", "z"} }
            \cup {<<"/", " ", "v">>, <<"/", "w">>, <<"/", "v">>}
AllRequests == [get : {TRUE}, path : AllPaths] \cup [get : {FALSE}, path : {<<"/", "o", " ", "v">>}]

-----------------------------------------------------------------------------
MCInit == /\ Init /\ Apps!Init
          /\ \/ onHost = TRUE /\ service = "console" /\ http.useFiles
             \/ onHost = FALSE /\ site = Router
MCNext == \/ onHost /\ Next /\ UNCHANGED <<onHost, ftp, tftp, telnet, http, console, service>>
          \/ ~onHost /\ Apps!Next /\ UNCHANGED <<onHost, h, air, site, query, used>>
MCVars == <<vars, ftp, tftp, telnet, http, console, service, onHost>>

\* The fairness of the part that runs: steps are taken, while a service is busy.
\* A step that changes something is one of MCNext, which is not computed again.
MCSpec == MCInit /\ [][MCNext]_MCVars /\ ([]<>(h.broken \/ (~onHost /\ ~Apps!Busy)) \/ []<><<TRUE>>_MCVars)

-----------------------------------------------------------------------------
(* The properties of the two parts; SetupRight, FramesKept and QueryEnds are   *)
(* those of IpHost as they are.                                                *)

\* The host holds a lease again and again (DhcpRetrySeconds).
LeasesCome == []<>~onHost \/ LeaseComes

\* The contents that FTP, TFTP, HTTP and the console bring are those of the file,
\* up to the size that was asked for, and they come once (FtpdSender, FtpCallback,
\* TftpCallback, HttpServer, ConsoleTransferDone).
ContentsRight ==
    ~onHost => Apps!TransferRight /\ Apps!EndsOnce /\ Apps!TftpRight /\ Apps!HttpRight /\ Apps!StoredRight

\* The history of telnet shows the lines that were entered, and the terminal the
\* line that is being edited (TelnetGetLine, TelnetServerCallback).
HistoryRight == ~onHost => Apps!HistoryRight /\ Apps!EchoRight

\* An accepted transfer ends, and the thread of a session that was closed. What
\* is said of the states here stays true, so that both are TransferEnds and
\* SessionEnds of NetApps.
ServicesEnd == []<>( \/ onHost
                     \/ /\ service = "ftp" /\ Apps!Accepted => Apps!TransferEnded
                        /\ telnet.state # "IP_TCP" => Apps!SessionEnded )
=============================================================================
