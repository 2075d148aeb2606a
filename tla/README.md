# dust.poker in TLA+

dust.poker plays no-limit hold'em between up to six browsers with a Compact
contract on a Midnight chain as the only channel and the only referee
(`docs/adr/0001`). The contract, `contracts/deal.compact`, holds the stakes,
runs the mental-poker deal, checks every bet, ranks nothing it is not shown a
proof of, and pays. Everything else is a client of it. This directory models
the contract whole and most of its clients, checks them with TLC on small
instances and proves the properties that matter most of the contract, the
browsers and the page, for every table, with TLAPS.

## Inventory

| Component | State | Operations | Talks to |
|---|---|---|---|
| **Table contract**, `contracts/deal.compact` | seats, stacks, escrow; the deal (phase, deadline, street, bets, pot); locked deck, keys, shares, scores; the next deck's preparation | 19 circuits: `join`, `stand_up`, `buy_in`, `leave`, `start_deal`, `post_key`, `shuffle`, `post_next_key`, `shuffle_next`, `expire_next`, `shares`, `release`, `show`, `act`, `act_out`, `show_hand`, `settle`, `expire`, `settle_abort` | called by anybody, atomically; reads the block's clock |
| Hand scoring, `score5` in the contract, `src/poker/hand.ts`, `src/ui/hand.ts` | none | rank five cards, find the best five of seven, say what they are | `show_hand` asserts the score |
| Payout reference, `src/poker/payout.ts` | none | pots and payments from totals, folds and scores | named by `settle` as what it does |
| Contract client, `contracts/client.ts` | none | witnesses: card shares, splits, best five; what a client can open | answers the circuits' witness calls |
| Owed steps, `src/referee/rules.ts` | none | `owed`, `legal`, `actionStep`, `canShow`, `outcome`, `tableFrom` over a ledger | both referees |
| Live referee, `src/live/referee.ts` | last snapshot, `pending`, `lastSent`, `busy`, `pushed`, deck keys and where they are kept | `start`, `tick`, `read`, `step`, `send`, `act`, `show`, a reload | chain snapshots in, transactions out |
| Practice referee, `src/referee/contract.ts`, `src/poker/bot.ts` | the contract in memory, every seat, one timer | deals, drives owed steps and bots, auto check-or-fold, buys back in | the compiled contract |
| Chain access, `src/live/{chain,indexer,wallet}.ts` | websocket and its backoff; what the wallet said | snapshot, watch with reconnect, prove, submit, connect | indexer, node, wallet |
| Table set-up, `src/live/{live,ledger}.ts` | a call's progress; the table's circuits and authority | deploy in parts, check, join | chain through the wallet |
| Menu, profiles, creator, `src/ui/{menu,profiles,creator}.ts` | plates and the one in use, wallet, the look being chosen | add, take down, activate, connect, deploy, join, practice | set-up; resolves to an entry |
| Room, controls, scene, `src/room.ts`, `src/scene/{table-view,chips,rail}.ts`, `src/ui/actions.ts` | characters loading, entrance, cards in flight and in hand, chips, the raise named | enter, sit down, publish, animate, click | referee's publications |
| House band, `src/scene/lounge.ts` | bars scheduled | schedule, mute | the wall clock |
| Harness and proof gate, `contracts/harness.ts`, `scripts/prove-deal.ts` | a script's place | three deals of fixed calls | the contract |
| Prover, bridge, builds, spikes, hall and avatars' geometry | - | proving, building, rendering | - |

What is hard in this system, and where:

* **Interleaving.** A transaction is atomic, so the contract's concurrency is
  the order of whole calls: `settle` against `expire`, `leave` and
  `expire_next` against a deal and its abort, the next deck prepared while a
  deal is played. A browser adds its awaits: a tick awaits a snapshot and a
  submission while pushes, clicks and the other browsers come in; a character
  loads while you walk in; two joins are computed for one seat.
* **Stale copies.** A transaction is proved on the last snapshot and lands on a
  later state, or in a later deal.
* **Time.** Every step has a deadline; a caller states a clock the block must
  agree with within a slack; a late bet draws a time bank.
* **Missed steps.** A player may stop at any point: `expire`, `settle_abort`
  and `expire_next` must leave the books balanced and somebody to blame.
* **Arithmetic.** Side pots, odd chips, forfeits split among any number of
  players, blinds that put a seat all in, ranks packed in base 15.
* **Secrecy.** Which shares are on the ledger when somebody still has a
  decision to make.
* **Restarts.** A page that reloads picks its deck keys up from storage; a
  deploy stops half way.

`PROJECT.json` lists every hazard at its line with the properties that watch it.

What makes each component correct: the contract owes exactly what it holds,
keeps hands private and the board closed until released, gives each decision to
someone who has one, always has a deadline while dealing, names who missed it,
and lets a deal whose players answer end. A client owes what the contract takes
and knows whatever it waits for; a browser never forgets a deck key the chain
knows and never holds a step back for good; Practice never stops; payouts and
hand scorers agree with their references; the scene shows how a deal ended; an
address handed out is a playable table's and whoever enters for money sits
where the chain says; a subscription never goes deaf while it is retried.

## Modules

The contract, each extending the one before:

| Module | Models |
|---|---|
| `SeatVectors` | the pure circuits over six seats: `first_in`, `next_round`, `order_of`, `sum_u`, ... A `Vector<6, Boolean>` is a set of seats |
| `DealLedger` | constants, ledger fields, constructor, reading circuits and assertions |
| `Seating`, `NextDeck`, `Dealing`, `Betting`, `Settlement` | the circuits, one action each |
| `DealContract` | the table: every circuit, called by anyone in any order, and the block's clock |
| `DealProperties` | what the table promises |
| `TableCustody` | the abstract specification: who may gain and lose money at which moment. `DealProperties` states that the contract implements it, `CustodyProofs` proves it |

Its clients:

| Module | Models |
|---|---|
| `HandRank` | `score5` twice, `evaluate`, `bestFive`, `describe`; no state |
| `Payout` | `settle` of `payout.ts`, `splits` and the forfeits' division of `client.ts` |
| `OwedSteps` | `rules.ts` as operators of a ledger record |
| `ActionBar` | the raise named on the bar and on the headset's rail, told of every publication whichever of them is seen |
| `ClientRules` | the ledger as a client reads it, the circuit each step and bet stands for, and the properties between rules and contract |
| `LiveReferee` | browsers over one chain: copies, ticks, pushes, jobs, keys, the store, sockets, transactions in flight, faults |
| `TableView`, `Chips` | what the scene shows of a publication |
| `PracticeReferee` | the deal contract run in the page, its timers, bots and clicks |
| `TableOpening` | `deployInParts`, `isOurs`, `joinOn`, as calls side by side |
| `Wallet`, `Creator`, `Menu` | what a wallet's word is checked for, the looks loading in any order, plates and buttons |
| `IndexerWatch` | the subscription's life |
| `Room` | the page from the menu to the table, composing `Menu`, `PracticeReferee` and `IndexerWatch` |
| `Lounge` | the house band on several pages |
| `Harness` | the proof gate's three deals against the contract |

`SeatedTable` and `MC*` hold initial states, bounds and instances for TLC;
the theorems are in `SeatVectorsProofs` (turn order, counting and sums),
`DealProofs` (types, deadlines, budgets, time banks), `CustodyProofs` (the
books, the refinement and the side pots), `BettingProofs`, `CardProofs` (the
deck, and who can read what, when), `ClientProofs` (what a client is told),
`LiveProofs` (what a browser keeps) and `PageProofs`.

One circuit is one action that changes the ledger fields the circuit changes,
under the same names. A circuit's asserts are its action's guard, often an operator of
its own (`act_asserts`): a failed call changes nothing, and the rest of the action is
assignments, so a call can be made exactly when its asserts hold. That is what lets
`OwedAccepted`, `RailAgrees` and `AlwaysScheduled` say that a call is accepted without
`ENABLED`, and be proved. A circuit called inside another (`begin_prep` in `start_deal`,
`close_street` in `act`) is an operator used in the caller's action, never a
step of its own. In the page, JavaScript runs to completion: an action ends
where the code awaits something that lasts, lets the event loop in, or leaves a
timer to fire. Definitions called `Mutant: ...` in a comment are the plausible
bugs the checks are tried against; nothing of the model uses them.

How data is abstracted:

* A player is a model value that stands for their secrets; a key point is the
  player who knows its secret, so `owner_check` and `key_check` are equalities.
  They differ exactly as in the code: a seat's owner can change while a key
  stays. Where a player's keys must be told apart (`LiveReferee`,
  `PracticeReferee`) a key is a number, `posted` says which one is behind the
  point on the chain.
* A transaction carries what its circuit read of the ledger it was proved on and
  somebody else's step may change: other seats' keys and shares as counts, as far
  as the circuit's fold looks (`reads`). It takes effect where that reads the
  same, and fails otherwise.
* A page tells two ledgers apart, or takes a change for none (`"unseen"`), as the
  128 bytes it compares happen to fall. Only a change within a deal is missed: a
  new deal empties the maps of shares, which shows in the length.
* A locked deck is the set of seats that have mixed it, a joint key the set of
  (seat, key) pairs summed in it; decryption shares are pairs (position, seat).
  A card is readable to whoever sees all shares but their own. The elliptic
  curve, the permutations and the proofs themselves are not modelled: a proof
  holds exactly when its circuit's assertions do.
* A hand's rank is an input of `show_hand` from a small set of scores; how it
  is computed is `HandRank`'s, apart from the table.
* Witnessed values that the circuit's assertions pin (shares and odd chips of a
  split, the level a seat reached) are computed directly; `PayoutsAgree` and the
  harness compare them with what the client's witnesses compute.
* `escrow` is tokens received less tokens sent; it is no field of the contract
  but the chain's balance of it. `time` is the block's clock.
* A table being opened is its set of circuits, the authority's counter and
  whether it is locked; a character is a number, an address a wallet gives is
  right or wrong in its kind, its network or its checksum.

## Runs

| Run | Instance | Question |
|---|---|---|
| `headsup` | two players, an empty table, one deal, the whole of `Spec` | types, books, custody (the refinement), held seats, deadlines, private hole cards, whom an abort blames, that somebody's client knows what the table waits for; every circuit in every order, expiries included |
| `threehanded` | two or three players with every stack from 1 to 4, one deal, everyone answers | whose turn, closed streets, what the board shows, what the controls offer, three divisions of the pot, fair side pots, and that the deal ends |
| `pipeline` | two players and a newcomer over two deals, with departures, evictions and aborts; and one heads-up deal at fine instants, hole shares in any batches | the next deck's keys and mixing, what a client owes is accepted; stated clocks, budgets, the time bank, the clock a player sees, share counts |
| `hands` | every pattern of five cards over 2 to 6 and the ace, in every order; two pages of the band across two hours' changes; the gate's three deals | scorers agree, order hands and name them; pages play together; the gate runs every circuit |
| `live` | two browsers with small or bigger stacks, one deal and the opening of the next, steps that conflict, and one refused or lost transaction, dropped socket, reload or unnoticed change | no key the chain knows is forgotten, a reload loses nothing, the deals play out unless a turn is never shown |
| `page` | one page from the menu through a table opened and joined, or two Practice deals against a bot | Practice never stops and the scene tells what happened; addresses handed out are playable, whoever enters for money is seated; the creator shows the choice; a closed socket is opened again |
| `abort_stuck`, `pot_stuck`, `wrong_key`, `board_early`, `blind_awaited`, `late_key` | the instances above (`MCClock`, `MCThreeHanded`, `MCPipeline`, `MCLive`) | the findings below |

`pipeline` and `hands` each hold machines that share nothing, told apart by the
initial state: by the clock's instant in one (`MCClock` is the fine one, which two
of the findings use by itself), by `part` in the other.

**Bounds.** Every bound is named in its MC module and its `.cfg`.

* *Chips and seats.* Stakes are scaled down (the contract's 80 to 200 chips
  become 1 to 5), the blinds of 1 and 2 are not, which keeps every relation
  that matters: stacks shorter than, equal to and longer than the big blind,
  raises short of and beyond the minimum, unequal all-ins at two levels. A stack
  of 1 is a table after earlier deals; `SeatedInit` begins there because a new
  table's `MIN_BUY_IN` cannot be that short. Three seats give two side-pot
  levels and a folded contributor; six differ only in how many of each there
  are, which is what the proofs are for. Only the gate's deals use the real
  stakes.
* *Time.* Instants are chosen around the budgets: within the slack, past the act
  clock, past the bank, past every deadline.
* *Deals.* Deals hand over to each other through the next deck and the keys
  only, which two deals (`MaxDeals`) exercise. `PartialShares = FALSE` posts all
  hole shares at once; the fine clock of `pipeline` allows any batches, where
  `CountsMatchShares` is checked. In `pipeline` bets are folds: the money is
  `headsup`'s. `threehanded` leaves the seats and the next deck alone: those
  circuits change nothing of a deal in progress, which `headsup` and `SeatsHeld`
  show. `headsup` uses the symmetry of the players, and its one temporal
  property, a refinement without fairness, is a safety property.
* *Browsers.* `live` follows the second deal until its hole cards are out, one
  fault per behaviour. A player to act may fold at any moment, or call once the
  next deck is ready. With two chips each the call puts both all in: hands are
  tabled and a deal runs its whole course of steps. With three the flop is
  released by both and then seen, until somebody folds. Steps conflict at both
  tables: keys, shares and shows at the small one, releases at the big one. All
  faults are tried at the small table, unnoticed changes alone at the big one;
  the show of cards is followed for bob at the small one when nothing else went
  wrong. A push is taken up with the block it tells of. Two kinds of trouble are
  actions of `LiveReferee` but not faults of this run: a refused bet (`"bets"`)
  stops the rail, divergence 1 below, and a transaction that lands in a later
  deal (`"late"`) is finding 6.
* *The page.* `Followed`: the room is followed for one plate with the default
  character, after no or one call; `Undisturbed`: while the creator is open
  nothing else goes on; `Settling`: cards land and characters come before a bet.
  Two characters, three loads of them, two calls, three edits, four circuits
  whose keys take one or two of a transaction's two units, two networks. Chips
  are scaled as the stakes are. A real pile holds 200 chips, worth some 3,600; a
  Practice winner's stack may exceed that after about eighteen buy-backs, when
  the felt shows less than it holds.
* *Hands and band.* Six values hold every pattern of equal neighbours and both
  kinds of straight, the wheel's ace included, and suits matter only as being
  all the same. The band's hour is twelve units with three bar lengths, timers
  up to two units late, sums a unit off (`Hair`).

Deadlock checking is off where the system stops by itself: every instance stops
when its deals, its clock or its clicks are used up.

**Fairness.** `PlayersRespond` (`DealEnds`) is one weak fairness condition over
all owed steps and bets of the players and the two settlements: while some such
call is possible, some such call eventually happens. The live referee justifies
it: each client polls, sends what its seat owes, and retries. It says nothing of
any one player, nothing of who starts a deal, comes or goes, and is used with a
clock that does not run out. `LiveFairness` (`DealsPlayOut`) is weak fairness of
each browser and its network (timers fire, submissions end, sockets reopen,
transactions land or fail) and of each player making up their mind; faults,
unnoticed changes among them, have none. It is `live` that shows the first
assumption is what the code provides, but for a turn that is never shown.
`MCPage` (`PracticeGoesOn`) has weak fairness of the room (frames, loads) and of
the Practice referee's timers; none of clicks, the menu or the socket.

**Assumptions.** Timers fire before the deadline they were set for; a poll does
not overtake a push; the audio clock runs with the wall clock; a transaction
in flight lands in the deal it was made for (finding 6 drops this); the indexer
and the prover answer truthfully.

## What implements what

* `KeepsCustody` (run `headsup`, theorem `CustodyKept`): `DealContract` implements `TableCustody`, nineteen
  circuits and an `Init` against six kinds of movement of money. The mapping
  takes a claim to be the stack and the bond of an occupied seat, a stake to be
  the total bet while a deal is on. `Evict` is where it bites: the settlement of
  an abort returns bets, shares bond and bets with odd chips and sends a stack
  home, all in one step that may neither lose a chip nor touch anybody else's.
* `OwedAccepted`, `WaitedFor` and `RailAgrees`: `rules.ts` and the contract are
  two copies of one set of preconditions. What a client owes the contract takes,
  what the contract waits for a client owes, and the rail offers exactly the bets
  that are accepted, no raise below its range or above it. All three leave out a
  player dealt in under somebody else's key (`locked_out`, finding 3), who can neither
  fold nor post, and the settlements that findings 1 and 2 make impossible
  (`unpayable`).
* `ScoreAgrees` and `PayoutsAgree`: circuits against their references.

## What is proved

All for any set of players, any stakes satisfying `StakesAssumption`, any
inputs, and any clock readings after the epoch.

The contract, from `Spec`:

* `TypeCorrect` (`DealProofs`): `Spec => []TypeOK`. Not a formality here:
  stacks, bets, totals, banks and payments are `Nat`, so it says that no
  circuit ever needs the refusal of an unsigned subtraction. `TypeOK` is not
  inductive. A raise to t commits `t - bet[s]`, natural only because nobody has
  more in than the bet to match; the invariant is `TypeInv`, that fact
  (`BetsCovered`) added. One lemma per action, under it one step per group of
  fields it can change.
* `DeadlineCorrect` (`DealProofs`): a deal in progress always has a deadline
  and nothing else does. Inductive with `TypeInv`: each circuit either leaves
  phase and deadline alone, starts a running phase with a positive deadline, or
  stops the deal and clears it; the work is in whose bank is added, which must be a
  seat's.
* `BudgetCorrect` and `BankCorrect` (`DealProofs`): every deadline leaves its
  step the whole budget from the block on, and banks are drawn by their owner's
  late action alone. Action properties, from `TypeInv` and one lemma per circuit:
  a stated clock may be ahead of the block or behind it by the slack, and `due`
  has to make up for that.
* `BooksBalance` and `SeatsHeld` (`CustodyProofs`): the tokens held are the
  stacks and bonds of occupied seats and the bets of a deal in progress, and
  nobody in a deal loses their seat. Since the books count occupied seats only,
  they balance only if chips never move to or from an empty one, so the
  invariant `BooksInv` adds that whoever acts, mixes or is blamed is in the
  deal (`RolesInDeal`) and nobody outside it has bets in. `expire` needs
  `DeadlineCorrect`: between deals it would otherwise bring a settled pot back.
  `SplitConserves` is the lemma the forfeits rest on: quotient and remainder
  add up to what there was to share, odd chips included.
* `CustodyKept` (`CustodyProofs`): the refinement of `TableCustody`, one lemma per
  circuit saying which of its actions the circuit is, or that it moves no money.
  `BooksInv` is not enough: `Divide` and `Evict` need a pot with something in it,
  which is the big blind's from the start, so `PotOpen` adds it, with the two
  players a prepared deck is always for.
* `SidePotsFair` (`CustodyProofs`): `ShowdownFair`, about a step of `settle`.
  A winner's payment is a sum over the pot's levels, each a slice of what
  everyone put in between two totals. `Telescope` says that the slices up to a
  level add up to everybody's chips below it; it is proved without induction over
  the levels, from a least counterexample among six. A winner takes slices of levels
  not above their own total, which caps the payment; the best hand's part of each is no less
  than it put in there, since those it shares with put in as much (`WinnersSlice`).
* `PotsDivide` (`BettingProofs`): `OnlyOverfoldedSticks`, a part of `PayoutsAgree`, that `settle`'s check of the
  pot fails for the folded player of finding 2 and for nobody else. Each layer goes out
  whole to the level's winners (`EqualShares`, `LevelPaidOut`), the sums over
  seats and levels are exchanged (`SumExchange`), and by `Telescope` the layers come to
  what everyone put in up to the highest live total (`PotDivides`). Nothing of the
  arithmetic asks how the hands rank.
* `DecisionOwed` and `StreetsMatched` (`BettingProofs`). Neither is inductive.
  The turn passes to the next seat that *can* bet (`first_clockwise`), not to
  the next that *owes* a bet, and the street closes when nobody owes: that this never hands
  the turn to somebody who is done is `TurnInOrder`, those who owe an action are
  met, going round from whose turn it is, before those who do not. `TurnPassed` is
  the lemma that keeps it. `Matched`, `EarlierMatched` and `BlindsOpen` carry
  what everyone has put in across streets and blinds.
* `PreparationOrdered` and `DeckSound` (`CardProofs`): the next deck's keys and
  mixing come in order, and a deal's deck is locked and mixed by exactly its
  players. The second needs the first, for a deck taken over from the last deal,
  and an account of `post_key` and `shuffle` for one made now; `KeyAdded` is the
  step both rest on.
* `HolesPrivate`, `BoardPrivate`, `CountsTrue`, `ShowdownComplete` and
  `OwerNamed` (`CardProofs`). The contract never looks at the set of shares when
  it moves a deal on, only at counters, so the invariant `ShareInv` ties each
  counter to the shares it counts (`SharesCounted`), the counters to the phase (`HolesIn`,
  `BoardIn`, `ScoresCounted`), and says which shares are still missing while the
  betting can go on (`OwnHolesKept`, `LaterStreetsKept`). `StepOwed` and `SomeoneOwes`
  then give `expire` a seat to name. That secrecy holds when a player goes all in
  and posts ahead (`act_out`) is where `BettingInv` is needed: only those who can
  still bet have to be silent.
* `FirstClockwise` (`SeatVectorsProofs`, with the lemmas about selection,
  counting and sums): the turn order picks a member of the seats it is given, the
  nearest one. `SharesAdded` (`CardProofs`): what a batch of shares does to a
  seat's shares and their number.

What clients are told of it (`ClientProofs`), also from `Spec`:

* `SomebodyOwes`: `WaitedFor`. `ShareInv` says what is missing in each phase; the
  seat it is missing from is one `rules.ts` calls on, counted as a client counts
  it, from its copy of the ledger.
* `ClockKeepsItsWord`: `ClockHonest`. The client works back from the deadline and
  the bank to the moment the bank starts; that this is the contract's `act_by`
  is `TurnClock`, which every handing over of the turn keeps.
* `NoStepRefused`: `OwedAccepted`, for the steps of the deal and of the next deck
  (`DealStepTaken`, `PrepStepTaken`). `rules.ts` tests a few fields for each step; that
  the rest of the circuit's asserts hold then is what `ShareInv` says of a phase. For
  `settle` it takes the division of the pot (`PotsDivide`) and that the witness
  `splits` of `client.ts` is one the circuit takes (`SplitsFit`, `WinnersFound`), for
  `settle_abort` that of a forfeit (`ForfeitFits`).
* `PotsAgree`: `PayoutsAgree`. Seat by seat and level by level the reference's share is
  the circuit's (`LevelShared`, with the reference's counts over sets turned into the
  circuit's over six seats by `SeatsCounted`); by `PotsDivide` what it adds at the end is
  nothing, or the chips finding 2 is about. `Payout` sums over one seat per level and not
  over a set of levels so that this needs no induction.
* `RailHonest`: `RailAgrees`. What the rail offers follows from `TurnInOrder` and
  `BetsCovered`; which circuit it names from the stack; and that BET is said exactly
  where nobody has bet takes `RailInv`: a bet on a later street is never smaller than
  its least raise, and a street before any bet asks for the big blind.

Browsers (`LiveProofs`), from `BrowsersSpec`: any number of the browsers of
`LiveReferee` at a table where all of them sit, any stacks, any stakes, any
number of deals, and any faults. `MCLive` is a small instance of it.

* `KeysStay` and `StoreSuffices`: `KeysKept` and `ReloadLosesNothing`, under the
  hypothesis that no transaction lands in a later deal than its own (`"late"` is
  not a fault), without which finding 6 refutes both. `KeysInv` follows a key
  through every copy of it: the page's, the store's, those a step under way or a
  transaction in flight was proved with, the ledgers read, pushed and still to
  be taken up. A copy may be of an older deal than the chain's; what has to hold
  is that each is no older than the one before it (`MayRead`), and that a key
  carried over from the preparation is recognised after a reload by the phase. A
  change may go unnoticed at any time within a deal: no key rotates there
  (`MissKeys`).
* `BrowsersPlay`: every step of `BrowsersSpec` is a step of `Spec`'s `Next` or leaves
  the contract alone; late transactions, which refute the two theorems above, are
  allowed. What was proved against a stale copy lands as a call of its player's seat
  with arguments the circuit takes (`SentBet`, `StepsAreCalls`), or not at all.
* `LiveTableSound`: so the contract's invariants hold there: the escrow backs the
  books, hole cards stay private, and what a deal waits for somebody's client owes.
  `BrowsersSpec` does not start where `Spec` does, its players are seated already, so
  each invariant is proved to hold first of any table not yet dealt at
  (`FreshTable` in `DealProofs`), of which the constructor's is one (`EmptyTable`).

The page (`PageProofs`), from `RoomSpec`: menu, room, Practice game, clicks and
socket in any order, without the bounds `MCPage` puts on their interleaving.

* `SubscriptionLives`: `NeverDeaf`, with a socket's states.
* `LastChoiceShown`: `CreatorShowsChoice`. Loads carry a number; the last
  choice is awaited by the load with the highest one or has been met
  (`ChoiceMet`), whatever else ends before or after.
* `SeatedForMoney`: `EntrySeated`. A call holds what it read before its awaits;
  `OpeningInv` says what of that is still true of the chain when it goes on: a
  table found playable stays so, a seat found ours stays ours, a transaction that
  went into a block took exactly the seat it was computed for.
* `CardsInHand`: `EveryoneHoldsCards`. The seats with cards in hand are the
  characters there from the moment you sit down (`HandsInv`), and the dealer's
  throw has a seat for each of its places, `EveryPlaceTaken`: a counting argument
  about going round the table from any button.
* `PracticePlays`: `RoomSpec => Spec`. The deal run in the page is a behaviour of
  the contract, so every theorem about the contract holds of it too. Most of it is
  what the referee carries from one timer to the next (`PracticeOrder`): a step
  left to do is for a seat that is taken, a raise named on either bar is a number
  (`ControlFits`), and every call a step makes is one its player makes as themselves
  (`StepsAreCalls` and `BetsAreCalls` in `ClientProofs`).
* `WinnersNamed`: `WinnersTakeThePot`. From a deal's start the page remembers what
  every stack was (`game.before`); until the deal is over a stack and what it has in
  the pot add up to that, and then the pot has gone to players still in
  (`PotFollowed`), so the difference the scene shows is what was won.
* `NothingRefused`: `AlwaysScheduled`. That a referee which waits has the one timer
  set that the table waits for is `TimerInv`: it depends on the phase the last call has
  brought about (`ChainMoves`). That no call is refused needs more than `NoStepRefused`
  and `RailHonest`, which are about what a client would do now: a list of steps is read once
  and run to its end whatever happens between (`StepLeft`: what is left of it is always
  what the seat still owes of the next deck); buttons are pressed as they were last drawn,
  with an amount chosen then (`ButtonsTrue`: a bet that leaves the turn leaves them stale,
  and they are dark again before it comes back, `TurnMoves`); and a proof is made with the
  key the page holds (`KeysFollowed`: through rotations, and a deal that takes the
  prepared keys over or drops them).
* `SceneTold`: `SceneToldTheDeal`, while somebody bets under the hypothesis `FeltFits`
  that every pile has room for its chips, which the real ones lack only in very long games
  (see the bounds); then `PileWorth` says that a pile is worth its amount, and the pot,
  bets and stacks on the felt come to the escrow less the bonds. What the scene shows once a
  timer is set is the ledger as it is (`ViewTold`), however often a card was shown since.
  That a finished deal has everything open that it should is `EndInv` of
  `CardProofs`: a deal of the page is not aborted, so it ends with every hole share
  posted, and after a showdown every share of the board.

These four assume `Nat \subseteq Amounts`, and with `InputsAssumption` that
`Amounts` is `Nat`. `Amounts` is no parameter of the code: it is which numbers
`Spec` tries for a buy-in or a raise, where the circuit takes any; a run has a few
of them, a theorem that the page only makes calls the contract knows needs all.

Invariants were checked by TLC on the runs' instances before they were proved,
except `EntryInv`, whose sequence of calls TLC cannot enumerate. Each inductive
proof has one lemma per action that disturbs its invariant and lets those that
leave its variables alone go in one step.

Only model-checked, and why:

* liveness (`DealEnds`, `DealsPlayOut`, `PracticeGoesOn`): beyond the prover;
* `HandRank` (`ScoreAgrees`, `ScoreOrdersHands`, `HandNamed`): searches and folds over
  sequences, which would need induction over data;
  `AddressIsPlayable` likewise, whose deploy adds its parts up with a fold;
* `BandTogether` and `GateRunsEveryCircuit`, which are about fixed scripts and a clock
  with rounding.

## Findings

1. **A fully shown deal can be lost** (`abort_stuck`). Once every score is in,
   `expire` may still be called before `settle`; it records
   `first_without_score() = NONE` as the offender, and then neither `settle`
   (phase) nor `settle_abort` (no offender) can ever run. The same happens to a
   pot nobody can pay (2): its only way out is closed too.
2. **A pot that cannot be paid** (`pot_stuck`). `settle` pays level by level of
   the live players; a folded player's chips above every live total belong to
   no level, and `pot not conserved` fails for good. `payout.ts` gives them to
   the last winner. It takes a fold facing only smaller all-ins, or a big blind
   folding into them. A Practice game of three or more stops at it too.
3. **A newcomer dealt into somebody else's key** (`wrong_key`). `start_deal`
   uses the prepared deck when its *seats* are present; a player who left and
   one who joined in the same seat look alike, and the newcomer owes shares
   they cannot make.
4. **The board is readable early** (`board_early`). An all-in carries shares
   for the whole board, so the last player to decide facing it can read every
   later card. `BoardUnread` is what does hold: it never happens to anyone who
   could still face a bet from another.
5. **A blind can leave an all-in player owing a release** (`blind_awaited`).
   All-ins made by `act_out` bring their shares, those made by `start_deal`
   cannot.
6. **A prepared key nobody holds** (`late_key`). A `post_next_key` that lands
   after the next deal started, or was sent before its page read of it, leaves
   the chain with a key the browser no longer prepares; in that deck its player
   can post no share and forfeits.

Observed while modelling, without a run of their own:

*Contract and rules.* Three-handed, a lone big blind facing only shorter
all-ins is asked to act although nothing it does but folding matters.
`docs/protocol/dealing.md` is behind the code (a `CLOCK_SLACK` of 20, `sit` for
`join`). Nothing a player runs calls `expire` or `expire_next` (only
`scripts/prove-deal.ts` does), so a vanished player stops a live table until
somebody calls them by hand. `owed` gives `settle_abort` to the lowest occupied
seat, which may be the vanished offender's own; its comment says the first in
the deal. A newcomer in a seat whose preparation deadline has passed can be
evicted at once by `expire_next` and lose the bond. SHOW is offered after an
abort that came before any card was dealt (`rules.ts:72`). `outcome` names a
newcomer who joined during the deal as winner of their buy-in
(`rules.ts:149-162`), and nobody at all after a reload at "done".

*Live referee.* (1) After a refused bet nothing shows the table again: the rail
stays empty until the ledger changes (`live/referee.ts:121-124`); and while a
bet is in flight a change of the ledger shows it again. (2) Release situations
repeat from street to street (`:229-232`), so a player all in by the blind is
held back by up to the retry's 90 s. (3) `read` tells states apart by their
length and first and last 64 bytes (`:154`), and a change that looks like none
publishes nothing: a player whose turn began with it has no rail until the
ledger changes again, which it does not while everybody waits for that player.
`DealsPlayOut` leaves this case out by name (`TurnMissed`); without it `live`
finds the deal that stops. Every other unnoticed change is made good: the step
owed is sent all the same. (4) Preparation steps are sent
again when the deal's own turn moves. Two players' steps proved on one ledger
conflict where a circuit reads the count the other's moves: keys, hole shares,
the release of a street, tabled hands. The second fails on the chain, and is
sent again only when the situation changes or the retry's 90 s are over
(`reads`, `Land` and `past` in `LiveReferee`). (5) `names`
keeps a seat's name when another player takes it (`:162`). Neither `stop` is
ever called by the page.

*Page.* A refused or lost update leaves a table half open, its signing key
gone. Clicking Practice while "Taking a seat" is pending leaves a seat on the
chain unattended. Two Deploys open two tables. The creator stays over the room
if a join completes while it is open. A model that fails to load leaves the old
character on the plinth while the saved look has the new one. A character that
loads into an empty live seat after the first publication stays visible until
the next (`room.ts:310`). A hidden tab skips the entrance's middle stages, and
the room never seats you if your own character fails. After an indexer `error`
the socket stays open with no subscription; polling goes on. Raises named on a
bar are not reset when `legal` stays non-null, and a hidden rail can be clicked
with the mouse. A Practice page asleep past its timer's deadline throws in it
and leaves none set. A finished deal shows the pot beside the winner's grown
stack. `describe` calls the wheel ace high and its straight flush a royal one
(`ui/hand.ts:92-100`).

*Band and gate.* Pages may double a bar where an hour changes
(`lounge.ts:256-257`), the audio clock of a page that slept lags the wall, and
throttled timers schedule bars in the past. `prove-deal.ts:38` expects one
winner and fails on a split pot.

## Plan

Done: the contract, its clients but for what is listed below, the refinement,
the theorems above, that the tables of the page and of the browsers play by the
contract.

What holds of `Spec` holds of the Practice table by `PracticePlays`, custody too. The
table of `BrowsersSpec` starts with its players seated, so `TableCustody`, which starts
with no tokens, would have to start from any backed table before it could be claimed there.

## Not modelled

The prover and the curve arithmetic are taken to do what they claim: a proof
holds when its circuit's assertions do. The bridge wallet, the local opponent,
builds and spikes are tools outside the program. Hall, bar and avatar geometry,
text and textures have no state a property could be about; the house staff are
posed and touch nothing. Of components listed as partly modelled: serialisation,
Bech32m's arithmetic and the local test chain; the band's notes drawn at random;
the deck's shuffle in `cards.ts`; the headset switch (the bar and the rail may
be used at any time); error wording and styling. In Practice the model names the
winners a few preparation steps later than `contract.ts:276-280` does, with the
same stacks. `PROJECT.json` has each with its reason.

## Running

    tlc -workers 2 -config MCHeadsUp.cfg MCHeadsUp
    tlapm CustodyProofs.tla
