-------------------------------- MODULE Http --------------------------------
(* The web server of the Plasma kernel (http.c): which page a request gets,   *)
(* and what is written for it, on one connection. A name is a sequence of     *)
(* symbols; a text is its length. A request is one segment: IPRead returns it *)
(* whole.                                                                     *)
EXTENDS Integers, Sequences, SequencesExt, FiniteSetsExt

CONSTANTS HtmlPages,      \* [name, length, type]: length, in the table or, if that is 0, of the text
          WebFiles,       \* the files of /web and /flash/web: [name, dir, length, type]
          Requests,       \* what arrives: [get, path]; get: it starts with "GET /"
          MaxRequests     \* bound: calls of HttpServer

VARIABLE http

\* What a name ends in (type, found with strstr) is ".html", ".htm", ".gif",
\* something else, or "callback" for a page that is a function; the home page is "/ ".
HOME == <<"/", " ">>

\* The pages whose name the request starts with
Pages(path) == { i \in DOMAIN HtmlPages : IsPrefix(HtmlPages[i].name, path) }

\* A file's name goes up to the first blank, if there is one.
FileName(path) ==
    LET blank == SelectInSeq(path, LAMBDA c : c = " ")
    IN  SubSeq(path, 2, IF blank = 0 THEN Len(path) ELSE blank - 1)

\* Header and footer (pages 1 and 2) go around a ".htm" page and the home page.
IsFramed(page) == page.type = ".htm" \/ page.name = HOME

Texts(page) ==
    IF IsFramed(page) THEN <<HtmlPages[1].length, page.length, HtmlPages[2].length>> ELSE <<page.length>>

Total(texts) == FoldLeft(LAMBDA n, t : n + t, 0, texts)

Kind(page) == IF IsFramed(page) \/ page.type = ".html" THEN "html"
              ELSE IF page.type = ".gif" THEN "gif" ELSE "binary"

Response(status, kind, length, body) ==
    [status |-> status, kind |-> kind, length |-> length, body |-> body]

PageResponse_bare(page) == Response(200, Kind(page), page.length, Texts(page))
PageResponse(page) == Response(200, Kind(page), Total(Texts(page)), Texts(page))

NoLength == -1
FileKind(file) == CASE file.type \in {".htm", ".html"} -> "html" [] file.type = ".gif" -> "gif" [] OTHER -> "binary"
FileResponse(file) == Response(200, FileKind(file), NoLength, <<file.length>>)

Empty == Response(404, "html", 0, <<>>)

\* A file that is not a page: of /web before /flash/web, if HttpInit allows files.
FileFound(useFiles, name) ==
    LET files == IF useFiles THEN { f \in WebFiles : f.name = name } ELSE {}
        web   == { f \in files : f.dir = "/web/" }
    IN  IF files = {} THEN Empty ELSE FileResponse(CHOOSE f \in (IF web = {} THEN files ELSE web) : TRUE)

\* IPWrite writes nothing to a socket that is closed; IPClose
Answer(x, response) ==
    [x EXCEPT !.sent = IF x.open THEN Append(@, response) ELSE @, !.open = FALSE]

\* The first page of the table, else a file. A function answers itself: the
\* socket stays as it is.
HttpServer(x, request) ==
    LET page == HtmlPages[Min(Pages(request.path))]
    IN  IF ~request.get THEN x
        ELSE IF Pages(request.path) = {} THEN Answer(x, FileFound(x.useFiles, FileName(request.path)))
        ELSE IF page.type = "callback" THEN [x EXCEPT !.called = @ + 1]
        ELSE Answer(x, PageResponse(page))

\* The callback of the connection and of its end, when there is nothing to read
NoRequest == [get |-> FALSE, path |-> <<>>]

\* asked counts the calls, called those of a page's function.
HttpInit == \E useFiles \in BOOLEAN :
    http = [useFiles |-> useFiles, open |-> TRUE, asked |-> 0, called |-> 0, sent |-> <<>>, request |-> NoRequest]
HttpNext == \E request \in Requests \union {NoRequest} :
    /\ http.asked < MaxRequests
    /\ http' = [HttpServer(http, request) EXCEPT !.request = request, !.asked = @ + 1]
=============================================================================
