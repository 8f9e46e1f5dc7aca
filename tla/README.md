# A TLA+ model of the stock exchange

This directory models the five programs of the repository (`client.cpp`,
`serverM.cpp`, `serverA.cpp`, `serverP.cpp`, `serverQ.cpp`), the packaged
release of them, and the practice programs their poll loop and sockets come
from; it checks the models with TLC on small instances and proves their safety
properties and refinements with TLAPS for all values of the constants.
`PROJECT.json` lists components, runs, mutants, the source lines behind every
definition, findings, hazards and theorems.

    tlc -workers 2 -config Orderly.cfg MCExchange     # one run
    tlapm ExchangeProofs.tla                          # one module of proofs

## 1. The system

Clients talk TCP with Server M; Server M talks UDP with the three back-end
servers. Among these five programs nothing else communicates, and no state is
shared. The practice programs stand each by itself, except that the two talkers
send to port 42110, which is Server P's (`udp_talker.cpp:16`,
`UDPtalkerTest.cpp:17`, `serverP.cpp:20`); `udp_listener` listens on 4950
(`udp_listener.cpp:16`), where no program of the repository sends.

| Component | State it keeps | Operations | Talks to |
|---|---|---|---|
| Server M `operationType` | nothing between requests; the locals of the request in hand | login, position, quote, buy, sell; profit, average price, encryption | every other program |
| Server M poll loop | descriptor table | accept, recv, close, serve one request | clients |
| Server A | table user -> encrypted password, read once | check credentials | M |
| Server Q | price list and current price index of each stock | quote one, quote all, move a stock to its next price | M |
| Server P | portfolio of each user, a vector of positions | report, check a sell, retrieve a position *with its index*, write a position back *at that index* | M |
| Client | the name logged in, the command in hand | login, quote, position, buy, sell, Y/N, exit | M |
| Start of each program | its descriptors | socket, setsockopt, bind or connect, listen, over the addresses of getaddrinfo | the kernel |
| Data files (A, P, Q) | the table being read | one line at a time | the file system |
| Tables as text (M, client) | fields counted, row in hand | read `quote;...;end` and `position;...;end` | |
| `testPollServer` (chat) | descriptor table | accept, recv, send to all others, close | its clients |
| `MainServerExp` (echo) | descriptor table, one buffer | accept, recv, send back, close | its clients |
| `TestServer`, `TestClient` | child processes, errno | accept, fork, greet, collect children from a signal handler | each other |
| `udp_talker`, `UDPtalkerTest` | nothing | send one datagram | Server P |
| `udp_listener` | one buffer | print one datagram | programs from elsewhere only |
| Packaged release | as the five programs | as the five programs, and M tells P of a declined purchase | |

What is hard in it:

* **Server M is one thread.** It carries a request out to its end, with up to
  four blocking receives in it, one of which waits for a person.
* **UDP replies are told apart only by their order.** `UDPrecv` looks at neither
  sender nor type. One reply too many or too few shifts all later ones.
* **State is read, a person is asked, and then it is used.** The price, the
  shares and the vector index of a position are all read before the question
  and used after it.
* **Clients die.** TCP reports that to M as an empty answer, an error or a
  SIGPIPE, depending on who had sent what.
* **Message boundaries.** Two TCP messages received at once are read as one;
  `sleep(1)` keeps `PASS` and the quote apart.
* **Numbers.** Average prices are divided, printed with two decimals and written
  back; quantities are ints, may be zero or negative and may overflow.

* **The scan walks a table that changes under it.** `accept` appends, `close`
  moves the last entry into the hole, and `revents` is what poll said before.
* **A signal handler runs between any two steps** of the forking server, and
  signals are not counted.
* **System calls fail** at the start of a program, and each copy of the loop
  does something else about it.

What makes each part correct:

* *Conversation M-P, M-Q, M-A*: one question or reply under way, of the type M
  will parse (`OneConversation`).
* *Server P*: an index still means what it meant (`FreshIndex`); one position
  per stock (`OnePositionPerStock`); positions have shares and a price
  (`SoundPositions`); nothing is oversold (`NoOversell`); averages are averages
  (`SellKeepsAverage`, `BuyAveragesBetween`).
* *Server Q*: an order that is closed moves its stock on (`OrdersMoveTime`), and
  nothing moves it between the question and the trade (`FreshOffer`).
* *Server M*: the trade carried out is the one that was ordered
  (`TradeAsOrdered`), the person asked is the person served (`AskedIsServed`),
  with their permission (`OnlyWithPermission`); gains combine figures of one
  moment (`GainIsCurrent`).
* *Client*: it is somebody whose password was accepted (`Authenticated`), is
  told what it ordered (`ResultIsTheOrder`), and is always answered
  (`NobodyForgotten`, `EveryRequestAnswered`); where it is not, that is one of
  four known ways (`NobodyIsLostBut`).
* *The whole*: an abstract brokerage (`ImplementsBrokerage`).
* *Poll loop*: the table lists everybody once (`TableIsSound`), what was reported
  still holds (`ReportsHold`), nobody is passed over for long (`BoundedBypass`)
  or for ever (`EveryoneIsServed`).
* *Chat and echo*: everybody hears the others, once and in order
  (`EveryoneHearsTheOthers`, `SendLoopEnds`); an echo starts with what was said
  (`EchoIsHeard`).
* *Forking server*: children are collected (`NoZombieForgotten`), errno is kept
  (`ErrnoIsAccepts`), clients get an answer (`EveryoneIsAnswered`).
* *Starts*: a program works or says why not, and leaks nothing
  (`WorksOrSaysSo`, `NothingLeaks`).
* *Data*: files and tables are read as they were written (`FilesAreRead`,
  `TableAsSent`), codes can be read back (`CanBeReadBack`), a text taken from a
  datagram is of that one, whoever sent it (`TextIsOneDatagram`).
* *Release*: it implements the exchange (`ImplementsExchange`).

## 2. The modules

    Pricing          money arithmetic, int overflow
      Wire           the five sockets, TCP connections, message types
        AuthServer  QuoteServer  PortfolioServer  MainServer  Client
          Exchange          the programs composed, Init, Next, TypeOK
            ExchangeProps   properties, refinement, fairness
              MCExchange    instances for TLC
              ExchangeProofs > ConversationProofs > DialogueProofs > TradeProofs
              Release       the packaged release; MCRelease
                RefinementProofs   extends TradeProofs, too
    Brokerage        what the exchange promises; BrokerageProofs

    PollLoop         the scan and its table
      ChatServer     testPollServer; MCChat
      EchoServer     MainServerExp
    ForkServer       TestServer and TestClient
      MCLoops        PollLoop, ChatServer or ForkServer
      LoopProofs     the same three
    DataFile         lines and words
      MembersFile  QuotesFile  PortfoliosFile
        StartUp      the three together
    Caesar           passwordEncrypt
    OpenSocket       how twelve programs come by their sockets
    TableText        the two tables as text
    Talkers          datagrams of anybody: udp_listener, listen_pkts of Server P
      MCParts        StartUp, Caesar, OpenSocket, TableText, Talkers, EchoServer
      PartsProofs    the same six

**Pricing** (`avgBuyPrice`, `avgBuyPriceNew`, `profitCalc` of serverM.cpp). A
double that holds a price is an integer number of units, `Cent` of them in one
cent; `RoundCent` is what printing with `setprecision(2)` does, `RoundDiv` what
printing a quotient with six decimals does, `NaN` what 0.0/0.0 yields. `Wrap` is
int addition in the build, modulo 2\*IntMax+2.

**Wire**. `toA`, `toQ`, `toP`, `toM` are the datagrams waiting at each UDP
socket, in order: the sockets are on one host, so datagrams between two of them
are neither lost nor reordered; the order between *different* senders to
Server M is whatever the interleaving makes it. `c2m[c]` and `m2c[c]` hold the
TCP messages waiting at either end. A receive takes everything waiting, and
only the first message of what it took can be parsed. `conn[c]` is what M's end
of the connection would do next:

| `conn` | meaning |
|---|---|
| `open` | both ends up |
| `fin` | the client closed with nothing unread: recv returns 0 |
| `reset` | it closed with unread data: recv returns an error, once |
| `broken` | M has sent to a gone client, or taken that error: the next send raises SIGPIPE |
| `closed` | M has closed |

**AuthServer, QuoteServer, PortfolioServer**. One action per message type of
`process_data`, each from the receive to the send. Positions of Server P are
sequences, an index is that of C++ (from 0, -1 for none); `updateStock` is three
actions (new, replace, remove). `PFallsOff` is the end of `process_data`
without a `return`: the string that main then compares and sends is
uninitialized, so it may equal NOCHANGE, be sent as junk or end the process.

**MainServer**. `mpc` names the blocking call M is in, and one action runs from
one blocking call to the next:

| `mpc` | waits in | | `mpc` | waits in |
|---|---|---|---|---|
| `poll` | poll | | `sell_check` | UDPrecv, P's check |
| `auth` | UDPrecv, A | | `sell_held` | UDPrecv, P's position |
| `portfolio`, `prices` | UDPrecv, P then Q | | `sell_sleep` | sleep(1) |
| `quote`, `offer` | UDPrecv, Q | | `buy_answer`, `sell_answer` | TCPrecv, Y or N |
| `buy_held` | UDPrecv, P's position | | `update` | UDPrecv, P's result |

`dead` is the end of the process (SIGPIPE, or `stod("NA")` throwing). `desync`
is M after it took a reply of another type than the one it waits for; what it
does then depends on the text it misreads, and the model does not follow it.
The other variables are the locals still to be read: `cur` and `req` (client and
request), `offer`, `verdict`, `pos`, `confirmation`. Everything M sends between
two blocking calls is sent in one action. No other program can tell the
difference: the receiver of each datagram is another process, which sees its
own queue grow by the same datagrams in the same order, at a later moment than
the first of them at most.

**Client**. `cpc` is `login`, `prompt` or `confirm` while the client waits for
its person and `auth`, `show`, `valid`, `offer` or `result` while it waits in
`recvString` (`offer`, too, between the verdict and the quote of a sell).
`CLeave` is `exit` or the death of the process, anywhere.

**Exchange** composes the programs, each action leaving the others' variables
alone, and states `TypeOK`. **ExchangeProps** states everything else.

**Brokerage** is what the exchange promises with the five programs forgotten: an
order is placed, is agreed to if covered, is filled exactly, and is closed, which
moves its stock to the next price; one order at a time. The refinement maps the
shares to Server P's positions (`Holdings`), the clock to Server Q's indices plus the
updates on their way there (`Clock`, `Ticks`), and the order to what M is serving
(`Deal`, with `Stage` read off `mpc` and the reply under way).

**PollLoop** (`main`, `add_to_pfds`, `del_from_pfds` of serverM.cpp; the two
practice servers have the same code). `pfds` is the table with the `revents` of
each entry, `i` the index of the scan, from 0. `PollReturns` sets every
`revents`; the scan then passes, accepts, serves or drops one entry per step, so
an entry that `del_from_pfds` moves into the slot just scanned is passed over
(`PassedOver`), and the history variable `skips` counts how often in a row.
A descriptor is named by the client at its other end: a client connects, writes,
closes and may connect again. What a request does is MainServer's; here `Serve`
is one step.

**ChatServer** adds to it the send loop of testPollServer.cpp, one step per entry
of the table: `send` waits while a client has `Capacity` messages unread, the
first send to a client that has left is answered with a reset and the next one
raises SIGPIPE. `said`, `joined` and `got` are history. **EchoServer** adds the
buffer of MainServerExp.cpp, byte by byte, with whatever the stack held at first.

**ForkServer**: `pc` is what main does next, `hpc` what the SIGCHLD handler does
next, `pending` whether the signal is (one bit, as in the kernel). `Fork` needs a
free process number and fails without one.

**DataFile** gives the three parsers a line: the sequence of the words between
its blanks, so two blanks in a row have the empty word between them. `MembersFile`,
`QuotesFile` and `PortfoliosFile` have one action per line and per outcome
(`stod` and `stoi` throw on a word that is no number). Their properties compare
the table that results with the file, not with the parser.

**OpenSocket** writes the loop over addresses once; each program is a sequence of
records that say what it does when getaddrinfo, setsockopt, bind, listen or every
address fails. **TableText** likewise writes the four readers of the two tables
once, with a record for each. **Caesar** is one step per character.

**Talkers** has the two programs that take a datagram of unknown origin for a C
string: `udp_listener`, which prints one and ends, and `listen_pkts` of Server P,
byte by byte. `packets` is the set of all that was sent, with the port it was
sent to; `Arrives` delivers any of them any number of times in any order, and
only to the program that has bound that port. `TalkerSends` and `TestSends` send
to Server P's port; `OtherSends` stands for every other program and sends any
bytes, `EndByte` included, to either port. The listener's buffer starts as
anything, Server P's is cleared for each call.

**Release** puts the actions of Exchange together as the release's programs call
them; its own are `RelBuyDenied`, in which Server M sends P `N;buy`, and
`RelSilent`, by which its Server P does not answer that. The refinement takes the
`N;buy` messages out of P's queue (`WithoutBuyDenied`).

**MCParts and MCLoops** put several small models into one run each: `part` (or
`server`) says which of them moves, chosen once and for all in the initial state,
while the others rest in an initial state. Such a run checks each model as if it
were alone; nothing is claimed of several moving at once, and no two of them
share a variable (PollLoop's table under ChatServer apart, which extends it).

### Not modelled, and why

* Numbers of shares that `stoi` cannot read: README f) says they break the
  programs. Stocks named `all`, `end` or `NA`.
* What a client does after M has ended (`recvString` runs off its end).
* The client's socket number in every message: no program reads it. Texts,
  logging, screen layout; the check of the length of a name.
* Names are lower-cased at two places, by A and P: `Lower` is idempotent, so one
  application stands for both.
* Ties when a double is printed: the model rounds half up.
* `buf[nbytes]` with nbytes = -1 writes before the buffer: taken to do no harm.
* Lost datagrams between the five programs (one host) and restarts of a server
  (no program restarts one, and none writes anything to disk).
* Datagrams of other programs in a running exchange. Exchange takes Server M and
  the back-end servers to hear only each other, although a talker's text would
  run off the end of Server P's `process_data`; what Server P reads then is in
  Talkers, what Server M makes of the answer is not modelled.
* A ';' in a name or a password, which Server M takes for a field boundary: names
  and passwords are single values. What slips when a field too many is counted is
  in TableText.
* Numbers that `stoi` or `stod` read in part ("5x"): a word is a number or is not.
* `realloc` failing, which the code does not look at, and poll returning an error,
  on which it ends.
* The other copies of the programs (`ee450_Kawakami_Justin`,
  `ee450_kawakami_justin`, the outer directory of `test_unzip`): byte-identical to
  the files at the top, except for prints that are commented out.

## 3. The runs

| Run | Instance | Shows |
|---|---|---|
| `orderly` | 2 clients on one account (one may try a wrong password for bob), S1 with two prices and S2 with one, a portfolio with both stocks and an average off the cent, lots of 2, nobody leaves | replies, permission, indices, positions, prices and averages are right; the exchange implements Brokerage. 560 038 states |
| `rough` | 2 clients, one may be killed at any moment; answers other than Y and N; typing ahead; a client slower than sleep(1); a member without portfolio; lots of -1, 0 and 1, IntMax = 1, so that every second share overflows | what survives all that and the ends of M and P: types, the conversation with P, the question asked, the trade as ordered, no overselling; and the only four ways to be left waiting with nothing under way. 3 380 588 states |
| `live` | 2 clients, one stock, every command | with fairness: every request is answered, every order moves time. 162 373 states |
| `release` | the release, as rough as `rough` with lots of 1; at most one datagram more than needed at Server P (`MaxQueue`) | it does what the version at the top does. 468 504 states |
| `loops` | Server M: 3 clients, table with room for 2, a queue of 2. Chat server: 2 of the clients, 3 messages. Forking server: 3 callers, 2 process numbers | the scan, the send loop and the signal handler; under fairness nobody waits for ever. 201 361 states |
| `chat` | 4 clients (interchangeable: SYMMETRY), 3 connections, 2 messages, 1 unread message per client | everyone is sent what the others say, while clients come, leave and do not read, and accept fails. 2 383 679 states |
| `parts` | files: see below. Sockets: 12 programs, 3 addresses, every call failing. Encryption: every password of one or two of 64 characters and those of members.txt. Tables: 2 rows of stocks some of which are named `end` and `NA`. Echo: 2 clients, a buffer of 2 bytes, 3 bytes unread. Datagrams: 2 different packets of up to 2 bytes (`EndByte` among them), 2 at most waiting at a port, a buffer of 2 at the listener and of 3 at Server P | each part by itself. 5 793 754 states |

Bounds, and why they are enough. In the instances of Exchange Cent = 10, so that
half cents exist and a rounding is seen at small numbers; two prices for S1, so
that time is seen to move and to wrap; `MaxHeld`, the position a person still
trades up to, and `MaxPrice`, the average beyond which nobody trades on, limit
only what people *type*, never what a program does. Two clients are all there can
be in a conflict: M serves one, the other can only wait in its queue. Lots of 2
against holdings of 1 and 2 give: nothing held, sell exactly all, sell too many.
A held stock at vector position 2 makes removal shift an index.

In PollLoop three clients are the fewest where an entry can be passed over twice,
and a table with room for two has to double. In ChatServer three connections have
two receivers of one message, one of which may leave; `MaxSaid` messages are said
at most. `Queue`, `MaxUnread`, `Capacity` and `MaxOpen` are limits the kernel has
too, with other numbers. `MaxOpen` is reached in `chat`, so that accept fails; in
`loops` it is not, for EveryoneIsServed is about those who can be connected.
In ForkServer three callers and two process numbers make fork fail. In Talkers
`MaxSent` bounds the different packets and `MaxWaiting` those waiting at a port;
a packet may arrive any number of times, and a buffer of 2 (where a packet is cut
off) and one of 3 (where two bytes fit) are both there. In EchoServer `MaxHeard`
bounds what is received.

The files are every members.txt of two lines of three words; every quotes.txt of
three and every portfolios.txt of four out of nine kinds of line each, with a
blank too many, without a number, with a word that is no number, empty.

Five runs refute something the repository says of itself (`findings`):

| Run | What the repository says | What the code does |
|---|---|---|
| `multiplex` | README.md:7, every client can interact | M waits for one person's Y/N with the poll loop stopped |
| `permission` | README.md:13, only with the user's permission | a client that is gone reads as not-N, which is taken for Y |
| `gone` | serverM.cpp:942, the loop never ends | SIGPIPE on the second send to a client that left ends M |
| `udp_socket` | serverM.cpp:192, the socket for incoming datagrams | when no address can be bound, the number of a closed descriptor is returned, which the TCP listener gets next |
| `blank_user` | serverP.cpp:55 and :71, user names are the keys | a line is: a blank behind the name belongs to the key, as in the release's portfolios.txt |

The models show more disagreements, for which there is no run: a sell writes back
the average rounded to the cent (serverM.cpp:779), where README.md:13 speaks of
buying only; selling 0 shares is confirmed as a buy (serverP.cpp:312);
`position_FAIL` (README.md:54) is built in a variable that goes out of scope; at
the top, though not in the release, a declined purchase is not forwarded
(README.md:36); the second answer to the Y/N question is sent unchecked
(client.cpp:286); MainServerExp sends to the one it says it excepts
(MainServerExp.cpp:212); and SIGPIPE ends the chat server as it ends M.

`orderly` assumes that nobody leaves and that lots are positive; `rough` drops
both and keeps the properties that do not need them. The assumptions are
constants: `PacedTyping` (no command is typed while an N is still unread, which M
would swallow with it), `SleepSuffices` (M's one second is enough for the client
to take `PASS`), `Typed` (an answer other than Y and N makes Server P run off its
function), `Quitters`, `Shares`. `rough` sets all of them the other way, and lets a
member without a portfolio trade. So what `orderly` and `live` say of answers
(`NobodyForgotten`, `EveryRequestAnswered`) is said without these cases, and in
`rough` people do wait in vain. `NobodyIsLostBut` says when: M reads an N together
with the command typed behind it, a client reads `PASS` and the quote as one text,
somebody buys who has no portfolio, or orders no shares. Without any one of the four
TLC finds a step that leaves somebody waiting. What the theorems
suppose of an instance has a name in ExchangeProps: `SoundStart` (somebody sells or
buys at least one share, and no order can exceed IntMax) and `OrderlyInstance` (also,
people type Y or N, clients stay and members have portfolios). TLC evaluates
`OrderlyInstances` of MCExchange on every run in which nobody leaves (`orderly`,
`live`, `multiplex`): those are such instances, so the theorems are about them too.

CHECK_DEADLOCK is FALSE where the system may stop: when M or P has ended, when an
empty position sold to zero gets an empty reply, when a chat server has ended or
all has been said, when a part has done its work.

### Fairness

*Exchange.* `ServersRun`: weak fairness of each server's step, since each server
is a loop around a blocking receive and a datagram that is there stays there; the
same for a client that has something to read. Strong fairness of `ServeStep(c)`:
M turns to other clients in between, so c's turn is not continuously enabled;
`EveryoneIsServed` of run `loops` is the reason it comes all the same.
`PeopleAnswer` (weak fairness of Y/N) is a separate assumption, used only where a
property says "as long as people answer". Nobody is assumed to type commands.

*MCLoops.* `MainGoesOn`: weak fairness of the loop as a whole, one process that waits
only in poll as long as each request returns (`Serve` is one step). In serverM.cpp a
request may wait in `TCPrecv` for a person (line 543), who may never answer: run
`multiplex` shows that then the loop stops, so `EveryoneIsServed` rests on
`PeopleAnswer`, too. Nothing is assumed of which entry the loop serves, for that is
the order of the table. `ChatGoesOn`: the same for the chat server, and that people
read what they are sent. `ForkGoesOn`: the kernel runs every process and delivers
a pending signal (weak); main's step is strongly fair because a handler that is
called again and again takes main's turn away each time.

## 4. What is proved

For all values of the constants, unless a premise is named: any number of clients,
users, stocks and prices, any quantities, anything typed, clients that leave
anywhere; any size of table, any limits. Every invariant, every safety property of
steps and both refinements of the runs of section 3 that are expected to hold have a
theorem.

### The exchange

Each module rests on the invariants of the one before.

**ExchangeProofs: Server P's indices.** `ConversationWithP` proves `IndexInv`, the
inductive invariant. What one wants is `FreshIndex`: when an update reaches Server P,
its index still denotes the stock, though a person thought about it in between. That
alone is not inductive; the reason it holds is the conversation:

1. `OneQuestion`: a question in Server P's queue (anything but a Y/N) is the
   last entry, and M is in a receive from P.
2. `OneReply`: a reply of Server P on its way to M is the only one, and then no
   question is in P's queue.
3. `ValidReply`, `ValidPos`, `ValidUpdate`: an index, in a reply, in M's hands
   while it waits for a seller's answer, or in an update, describes the
   portfolio as it is now: that stock is at that index, or for -1 nowhere.

By 1 and 2, when Server P changes the portfolio, that update was all there was
between it and M: no index is left that the change could falsify. In any other
step the portfolio stays, and indices are only copied: from the vector into the
reply (`getStockFacts`), into `pos`, into the update (`UpdatePFacts`). The two
steps in which M takes a reply (`HeardP`) give 1 and 2 back for the next
question. Types are carried along (`ServerTypeOK`), because `getStock` and
`updateStock` need the index in the vector. Once M is lost (`dead`, `desync`) it
asks nothing more, and what is under way stays as valid as it was.
`IndexStaysFresh` and `ServersTypeCorrect`, which includes that Server Q's index
stays inside its price list, follow.

* `PositionsStayUnique`: if portfolios.txt lists no stock twice for a user,
  nobody ever holds a stock twice. A new position is appended only with index -1,
  which is valid, so the stock is nowhere in the vector.
* `TradesAreAsOrdered`: `OrderInv` follows one order. The retrieve is for the
  request being served, the reply and `pos` are what `getStock` would answer *now*,
  so the update makes the position what is held now plus or minus what was ordered.

**ConversationProofs: the three servers.** `AuthInv` and `QuoteInv` say of Servers A
and Q what 1 and 2 say of P, and `PortInv` which kind of question each wait of M has.

* `NobodyWaitsInVain`: whenever M is in a receive from a server, a question is at
  that server or its reply is on the way, as long as Server P runs and has sent no
  junk.
* `OffersStayFresh`: the price in the offer stays the one at Server Q. Only M's
  updates move it, M sends one when an order is over, and by `QuoteInv` it is taken
  before the next quote.
* `SalesAreCovered` (stocks unique at the start): `checkStock` read the last
  position of the stock, `getStock` reads the first; they are one by
  `PositionsStayUnique`. `Covered` carries the verdict of the check to the update.

**DialogueProofs: a client and Server M.** `DialogueHolds` proves `DialogueInv`: of
each connection it says where the client is, where M is and what is between them.
Either M does not serve the client and there is its request, or the reply to it, or
nothing (`Rest`); or M serves it and the client waits for what M is about to send,
or has answered what M is about to read (`Serve`). One that has said N may have typed
its next command already (`Declined`). A client that has left is promised nothing.

* `TypesAreKept`, `WhoIsAskedIsServed`, `MembersAreAuthenticated`: `TypeOK`,
  `AskedIsServed`, `Authenticated`.
* `UpdatesArePermitted`, `GainsAreCurrent`, `ConversationsAreSingle`, where people
  type Y or N (`Typed` a subset of them) and clients stay (`Quitters` empty). Then M
  and P never end and nothing is ever misread (`Undisturbed`). Both premises are
  needed: run `permission` shows an update without permission and run `gone` the end
  of M when a client leaves, and an answer that is neither Y nor N makes Server P run
  off its function.

**TradeProofs: what a trade does.** `TradeInv` says that an update on its way is what
M would compute from the portfolio and the prices of *this* moment.

* `NobodyIsForgotten`, where nobody types before M has read the last line
  (`PacedTyping`), no number typed is zero, and who can log in has a portfolio. Each
  premise is needed, because M reads two lines as one, answers an order for no
  shares with an empty text, and drops the order of a user without portfolio.
  `Remembered` follows the request: at M's socket, in its hands, or answered; one
  that M dropped was never a member's (`SaidNo`).
* `NobodyIsLost`, without those premises and for clients that leave: `NobodyIsLostBut`.
  Nothing is lost but where M returns to poll without a word to its client or a client
  takes more than one message. By `DialogueInv` the rest follows: one that said N has
  gone on to the prompt, so it waits again only if its next command is behind the N
  (`JustSaidNo`); Server P's empty answer means no shares (`NothingOfNone`); and for a
  buyer whom P does not know there is no portfolio (`BuyerIsUnknown`).
* `PositionsStaySound` and those below suppose `SoundStart`. Shares are bounded
  because a person orders only what takes a position to `MaxHeld` at most. But
  several clients may look before the first of their orders is carried out, so the
  bound that is inductive counts them: `Account` allows `MaxHeld` shares, and as many
  again for each client that has no purchase of that stock under way. Placing an
  order lowers the bound (and finds `MaxHeld` at most); carrying it out raises it by
  what may be added.
* `ResultsAreTheOrders`: `updateStock` infers operation and number from the old and
  the new quantity, and M passes that on. Without overflow the inference is right
  (`ResultFits`), and the result goes to the client whose order it is (`ResultHere`).
* `SellsKeepTheAverage`, `BuysAverageBetween`: by `TradeInv` and lemmas about
  `RoundCent`, `RoundDiv` and `avgBuyPriceNew` over the integers.

**RefinementProofs.** `ExchangeIsABrokerage : Spec => ImplementsBrokerage`, for an
`OrderlyInstance`. `Calm` is everything known by then, with `Requested` (every
request is one the abstract customers may place) and `DealIs` (what `Deal` is at
each place of M's program). Every step is a step of Brokerage or leaves `Holdings`,
`Clock` and `Deal` alone:

| Step of the code | Step of Brokerage |
|---|---|
| M reads an order (`MTransact`) | `Place` |
| M reads the approval (`MBuyApproved`, `MSellApproved`) | `Agree` |
| Server P writes the position (`updateStock`, its three ways) | `Fill` |
| M reads the refusal or the verdict against, or passes on the result (`MBuyDenied`, `MSellDenied`, `MSellRefused`, `MSellUnknown`, `MResult`) | `Close` |
| any other | none |

Server Q's update is none of them: the abstract clock has counted the datagram
since M sent it, which is why a person cannot see an old price.

`ReleaseIsAnExchange : RelSpec => ImplementsExchange` and `AnswersReachP` (an answer
given to Server M is in Server P's queue at once, the declined purchase too; only
proved, no run checks it), for any instance. The two programs differ in Server P's queue only: an action that does not
touch it is the same in both, and one that does commutes with `WithoutBuyDenied`,
which keeps the order of what is left when the queue grows at its end or loses its
head. The one step that is not the exchange's is P's silence on `N;buy`, which
becomes a stutter. `RelInv` carries which datagrams can be in that queue and that M
waits for a buyer's answer only with a purchase in hand.

**BrokerageProofs**: `TypeCorrect`, `AgreedStaysCovered`. Shares in the abstract
service never go below zero. `TypeOK` is not inductive (filling a sale subtracts),
`TypeOK /\ AgreedIsCovered` is. The theorems assume `BrokerageAssumption`, which TLC
evaluates for the exchange's instances (`OrdersOfABrokerage`).

### The loops (LoopProofs)

**`TableStaysSound`, `ReportsStayTrue`, `BypassIsBounded`.** The inductive invariant
has the table (each entry once, within its room), the reports (an entry ahead of the
scan that poll reported is still ready: only the scan itself takes that away, and it
does so at its own index), and `SkipsInv`: who is not in the table has not been
passed over. For the bound, each pass moves an entry from the end to the scan's
place, at least one nearer the front, so place plus passes never exceeds the number
of clients; that there is a place left for whoever is appended is the pigeonhole
principle, since somebody who waits to be accepted is not in the table.

**`EveryoneIsTold`** (chat server). Its steps are steps of the poll loop
(`ChatStepIsLoopStep`), so the table is sound under the send loop too. `ChatInv` then
compares what each client has got with the messages of the others since it joined
(`ByOthers`); of the message being sent, the entries before the loop's index have it
and those behind do not. Nobody is accepted or dropped while the send loop runs.

**`NoZombieIsForgotten`, `ErrnoStaysAccepts`, `OneConnectionIsHeld`** (forking
server). An ended child always has a signal pending or a handler about to call
waitpid, because the handler goes on until waitpid finds nobody; `saved` holds what
main's errno was whenever the handler runs; main never holds a connection beyond the
one in hand.

### The parts (PartsProofs)

* `StartsOrSaysSo`, `StartsWithoutLeaks`: `SocketInv` says for each place of the loop
  over addresses which descriptors are open and what the variable that holds one is
  worth.
* `TablesAreAsSent`: `ReadSoFar` says how many fields the reader has counted and that
  the rows read are the first rows sent, for tables of any length.
* `EchoesAreHeard`: each byte of the buffer is of the last message that was long
  enough to write it (`BufferIsOld`).
* `OneDatagramIsTaken`: `TalkInv` says that whatever waits at a port was sent there,
  and relates each buffer to the one datagram read into it.
* `PasswordsStayApart`: what has been encrypted can be read back, so two passwords
  never have one code. The invariant says of every character of the code which
  character it is of.
* `FilesAreServed`: `FilesInv` says that the table is what the lines read so far
  amount to. For portfolios.txt that includes the user under construction, who is
  put into the map only when the next one begins or the file ends (`Stored`,
  `NobodyYet`), and a position list that is defined by recursion on the lines
  (`PositionsOf`).

### Assumptions and limits

Assumptions: those of the modules' ASSUME statements, each evaluated by TLC on the
runs. Lower is idempotent on Names, the encryption is a function, price lists are not
empty and hold naturals, the portfolios are well-formed, NA is not a stock, a number,
a request or an order (`NoneAssumption`); there are finitely many clients, the
listener is none of them, the table has room for one; lines are sequences of words,
and writing a word in small letters does not make it empty (`WordsAssumption`,
`FilesAssumption`). Further premises are stated in the theorems. The bounds
`MaxHeld`, `MaxPrice`, `MaxSaid`, `MaxHeard`, `MaxSent` and `MaxWaiting` are constants
like the others: the theorems hold for all values of them.

Facts about recursive functions (`Total`, `WithoutBuyDenied`, `ByOthers`,
`PositionsOf`) are proved by least counterexample: the library's `WFMin` gives the
least n at which a formula fails, and the definition at n leads to n - 1. The
induction theorems themselves take an operator as parameter, which the installed
provers cannot instantiate.

Only model-checked: liveness (`EveryRequestAnswered`, `OrdersMoveTime`,
`EveryoneIsServed`, `SendLoopEnds`, `EveryoneIsAnswered`), since this prover does
not treat fairness or ENABLED.

## 5. Mutants

Each property of each passing run has a mutant: a definition is replaced by one
with a plausible bug, kept beside it in the module under "Mutant of", and TLC
must then find the property violated. Examples: an index counted from 1, a quote
and a tick sent together, both questions to Server P at once, a refused sell that
is not reported, a check that is off by one share, a table entry copied after the
count is taken down, events of a new entry left as they were, one waitpid per
signal, the last user of a file not put into the map.

## 6. The plan

Done: all modules of section 2, the runs, and a proof of every safety property and
refinement the runs check. Left:

1. Say of the release what ExchangeProofs and its successors say of the exchange.
   That `RelSpec` implies the exchange's `Spec` under the substitution is proved
   (`ReleaseIsAnExchange`), but tlapm cannot use a theorem through an INSTANCE with a
   substitution of variables, so each corollary needs the instanced invariant
   restated.
2. Shorter proofs: the frame lemmas of ConversationProofs, DialogueProofs and
   TradeProofs (what an action of another program leaves alone) repeat a pattern.
