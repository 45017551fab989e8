------------------------------ MODULE MCState -------------------------------
(***************************************************************************)
(* The components that keep state of their own, each alone: what the       *)
(* server holds in memory and in files (AdminApi, NonceStore,              *)
(* SurveyKeyFile, SurveyCache, VersionCheck, TxSender, MinterFunds) and    *)
(* what its pages hold in the browser (PhraseReveal, WalletPage,           *)
(* ClaimPage, StudentView, AdminPage, RoleForm, SubmissionForm,            *)
(* SurveyDesk, AwardForm).  They share no variable, so one run explores    *)
(* them all: Init picks the part the behaviour is about, and x1, x2, ...   *)
(* are that part's variables, in the order its module declares them.       *)
(***************************************************************************)
EXTENDS AdminApi, TLC

CONSTANTS
  Links, Calls,
  Nothing, NoProc, Unread, Rejected, Server,
  a, b, known, drawn, link

\* Finitely many at work; what stands for nothing or for no answer is none,
\* and a wallet drawn here is one nobody knew.
ASSUME MarksAssumption ==
  /\ IsFiniteSet(Requests) /\ IsFiniteSet(Calls) /\ NoProc \notin Requests
  /\ Unread \notin Nat /\ Rejected \notin Nat /\ Unread # Rejected
  /\ Nothing \notin Nat \union Requests \union {a, b, known, drawn}
  /\ drawn \notin {a, known}

VARIABLES
  part,
  x1, x2, x3, x4, x5, x6, x7, x8, x9, x10, x11, x12, x13

Nonces == INSTANCE NonceStore WITH
  Procs <- Requests, NoProc <- NoProc, Links <- Links, MaxWrites <- 3, file <- x1,
  cache <- x2, lock <- x3, pc <- x4, op <- x5, seen <- x6, held <- x7, grants <- x8,
  unsaved <- x9

Keys == INSTANCE SurveyKeyFile WITH
  Procs <- Requests, Surveys <- {1, 2}, MaxVersion <- 4, MaxKeys <- 3, keys <- x1,
  version <- x2, readable <- x3, made <- x4, cache <- x5, cacheVersion <- x6,
  reading <- x7, unsaved <- x8

List == INSTANCE SurveyCache WITH
  Surveys <- {1}, Fills <- Requests, Ttl <- 2, FillTime <- 1, MaxTime <- 5, now <- x1,
  chain <- x2, changedAt <- x3, cachedSurveys <- x4, cacheExpiry <- x5, started <- x6,
  got <- x7

Version == INSTANCE VersionCheck WITH
  Recheck <- 2, ReadTime <- 2, Centi <- 125, MaxCalls <- 2, MaxTime <- 7, now <- x1,
  upgradedAt <- x2, support <- x3, calls <- x4

Sender == INSTANCE TxSender WITH
  Procs <- {Server}, Calls <- Calls, Unread <- Unread, Rejected <- Rejected,
  MaxNonce <- 4, mined <- x1, pool <- x2, base <- x3, delta <- x4, at <- x5,
  nonce <- x6, lost <- x7

Funds == INSTANCE MinterFunds WITH
  Writes <- Requests, Floor <- 3, FeeCap <- 1, TipCap <- 1, MaxFee <- 2,
  MaxBalance <- 5, Cooldown <- 2, balance <- x1, base <- x2, tip <- x3, at <- x4,
  offer <- x5, warned <- x6, polled <- x7, status <- x8

View == INSTANCE StudentView WITH
  Wallets <- {a}, NoWallet <- Nothing, Requests <- Requests, MaxPoints <- 1,
  points <- x1, awards <- x2, stored <- x3, ready <- x4, wallet <- x5, total <- x6,
  history <- x7, found <- x8, request <- x9

Roles == INSTANCE RoleForm WITH
  Wallets <- {a, b}, Mine <- a, Minter <- a, Labels <- {}, Blank <- Nothing,
  Fetches <- Requests, Saves <- {1}, admins <- x1, known <- x2, labels <- x3,
  list <- x4, fetch <- x5, view <- x6, role <- x7, editing <- x8, save <- x9

Mark == INSTANCE SubmissionForm WITH
  Wallets <- {a, b}, Nothing <- Nothing, Others <- {1}, submitted <- x1, result <- x2,
  search <- x3, dialog <- x4, action <- x5, other <- x6

Phrase == INSTANCE PhraseReveal WITH
  Fingers <- Requests, Words <- {1, 2}, Nobody <- 0, Callbacks <- 1 .. 3, HoldTime <- 2,
  expanded <- x1, pressing <- x2, asked <- x3, running <- x4, holdStart <- x5,
  holdRaf <- x6, open <- x7, hidden <- x8, showAll <- x9, revealed <- x10,
  hideTimer <- x11, clipboard <- x12, clipTimer <- x13

Setup == INSTANCE WalletPage WITH
  Tabs <- Requests, Drafts <- {drawn}, Known <- {known}, Accounts <- {a},
  NoWallet <- Nothing, Positions <- {1, 2}, VerifyCount <- 1, storage <- x1,
  account <- x2, made <- x3, typed <- x4, wallet <- x5, dialog <- x6, step <- x7,
  pendingWallet <- x8, verifyIndices <- x9, keyRevealed <- x10, connecting <- x11,
  claimReturn <- x12

Claim == INSTANCE ClaimPage WITH
  Pages <- Requests, Links <- {link}, Wallets <- {known, a, b}, Accounts <- {a, b},
  Claims <- Requests, Nothing <- Nothing, link <- x1, wallet <- x2, selected <- x3,
  currentStep <- x4, loading <- x5, error <- x6, signing <- x7, waiting <- x8,
  claim <- x9, served <- x10, spent <- x11, paid <- x12

Page == INSTANCE AdminPage WITH
  Wallets <- {a, b}, Nobody <- Nothing, wallet <- x1, admins <- x2, adminCheck <- x3,
  lookups <- x4, checkOf <- x5, authenticated <- x6, authFailed <- x7, loggedOut <- x8,
  authStep <- x9, authFor <- x10, cookie <- x11, call <- x12, leaving <- x13

Desk == INSTANCE SurveyDesk WITH
  Ids <- {1, 2}, None <- Nothing, MaxCalls <- 2, server <- x1, before <- x2,
  rotated <- x3, surveys <- x4, dialog <- x5, busy <- x6, step <- x7, freshMode <- x8,
  formId <- x9

Award == INSTANCE AwardForm WITH
  Addresses <- {a, b}, Blank <- Nothing, Surveys <- {1}, NoSurvey <- 0, active <- x1,
  paid <- x2, picked <- x3, address <- x4, lookups <- x5, preview <- x6,
  previewLoading <- x7, step <- x8

state == <<part, x1, x2, x3, x4, x5, x6, x7, x8, x9, x10, x11, x12, x13>>

\* The admin API rests in one state while another part moves.
AdminRests ==
  /\ now = 0 /\ admins = {Minter} /\ lostAt = [w \in Wallets |-> Never]
  /\ roleCache = [w \in Wallets |-> [value |-> FALSE, at |-> Never]]
  /\ message = [s \in Signatures |-> Unsigned]
  /\ usedUntil = [s \in Signatures |-> Never] /\ sessions = {}
  /\ at = [r \in Requests |-> "idle"] /\ job = [r \in Requests |-> NoJob]
  /\ asked = [r \in Requests |-> 0] /\ answer = [r \in Requests |-> "none"]
  /\ admitted = [s \in Signatures |-> 0]

SumInit ==
  \/ part = "admin api" /\ Init
     /\ x1 = 0 /\ x2 = 0 /\ x3 = 0 /\ x4 = 0 /\ x5 = 0 /\ x6 = 0 /\ x7 = 0 /\ x8 = 0 /\ x9 = 0 /\ x10 = 0 /\ x11 = 0 /\ x12 = 0 /\ x13 = 0
  \/ /\ AdminRests
     /\ \/ part = "nonces" /\ Nonces!Init
            /\ x10 = 0 /\ x11 = 0 /\ x12 = 0 /\ x13 = 0
        \/ part = "keys" /\ Keys!Init
            /\ x9 = 0 /\ x10 = 0 /\ x11 = 0 /\ x12 = 0 /\ x13 = 0
        \/ part = "list" /\ List!Init
            /\ x8 = 0 /\ x9 = 0 /\ x10 = 0 /\ x11 = 0 /\ x12 = 0 /\ x13 = 0
        \/ part = "version" /\ Version!Init
            /\ x5 = 0 /\ x6 = 0 /\ x7 = 0 /\ x8 = 0 /\ x9 = 0 /\ x10 = 0 /\ x11 = 0 /\ x12 = 0 /\ x13 = 0
        \/ part = "sender" /\ Sender!Init
            /\ x8 = 0 /\ x9 = 0 /\ x10 = 0 /\ x11 = 0 /\ x12 = 0 /\ x13 = 0
        \/ part = "funds" /\ Funds!Init
            /\ x9 = 0 /\ x10 = 0 /\ x11 = 0 /\ x12 = 0 /\ x13 = 0
        \/ part = "points" /\ View!Init
            /\ x10 = 0 /\ x11 = 0 /\ x12 = 0 /\ x13 = 0
        \/ part = "roles" /\ Roles!Init
            /\ x10 = 0 /\ x11 = 0 /\ x12 = 0 /\ x13 = 0
        \/ part = "mark" /\ Mark!Init
            /\ x7 = 0 /\ x8 = 0 /\ x9 = 0 /\ x10 = 0 /\ x11 = 0 /\ x12 = 0 /\ x13 = 0
        \/ part = "phrase" /\ Phrase!Init
        \/ part = "wallet" /\ Setup!Init
            /\ x13 = 0
        \/ part = "claim" /\ Claim!Init
            /\ x13 = 0
        \/ part = "admin page" /\ Page!Init
        \/ part = "desk" /\ Desk!Init
            /\ x10 = 0 /\ x11 = 0 /\ x12 = 0 /\ x13 = 0
        \/ part = "award" /\ Award!Init
            /\ x9 = 0 /\ x10 = 0 /\ x11 = 0 /\ x12 = 0 /\ x13 = 0

SumNext ==
  /\ UNCHANGED part
  /\ \/ part = "admin api" /\ Next /\ UNCHANGED <<x1, x2, x3, x4, x5, x6, x7, x8, x9, x10, x11, x12, x13>>
     \/ /\ UNCHANGED vars
        /\ \/ part = "nonces" /\ Nonces!Next /\ UNCHANGED <<x10, x11, x12, x13>>
           \/ part = "keys" /\ Keys!Next /\ UNCHANGED <<x9, x10, x11, x12, x13>>
           \/ part = "list" /\ List!Next /\ UNCHANGED <<x8, x9, x10, x11, x12, x13>>
           \/ part = "version" /\ Version!Next /\ UNCHANGED <<x5, x6, x7, x8, x9, x10, x11, x12, x13>>
           \/ part = "sender" /\ Sender!Next /\ UNCHANGED <<x8, x9, x10, x11, x12, x13>>
           \/ part = "funds" /\ Funds!Next /\ UNCHANGED <<x9, x10, x11, x12, x13>>
           \/ part = "points" /\ View!Next /\ UNCHANGED <<x10, x11, x12, x13>>
           \/ part = "roles" /\ Roles!Next /\ UNCHANGED <<x10, x11, x12, x13>>
           \/ part = "mark" /\ Mark!Next /\ UNCHANGED <<x7, x8, x9, x10, x11, x12, x13>>
           \/ part = "phrase" /\ Phrase!Next
           \/ part = "wallet" /\ Setup!Next /\ UNCHANGED <<x13>>
           \/ part = "claim" /\ Claim!Next /\ UNCHANGED <<x13>>
           \/ part = "admin page" /\ Page!Next
           \/ part = "desk" /\ Desk!Next /\ UNCHANGED <<x10, x11, x12, x13>>
           \/ part = "award" /\ Award!Next /\ UNCHANGED <<x9, x10, x11, x12, x13>>

SumSpec == SumInit /\ [][SumNext]_<<vars, state>>

Permuted == Permutations(Requests) \union Permutations(Links)

-----------------------------------------------------------------------------
(* Properties, of the modules that define them.                            *)

\* Types of all parts.
TypesOK ==
  /\ TypeOK
  /\ part = "nonces" => Nonces!TypeOK
  /\ part = "keys" => Keys!TypeOK
  /\ part = "list" => List!TypeOK
  /\ part = "version" => Version!TypeOK
  /\ part = "sender" => Sender!TypeOK
  /\ part = "funds" => Funds!TypeOK
  /\ part = "points" => View!TypeOK
  /\ part = "roles" => Roles!TypeOK
  /\ part = "mark" => Mark!TypeOK
  /\ part = "phrase" => Phrase!TypeOK
  /\ part = "wallet" => Setup!TypeOK
  /\ part = "claim" => Claim!TypeOK
  /\ part = "admin page" => Page!TypeOK
  /\ part = "desk" => Desk!TypeOK
  /\ part = "award" => Award!TypeOK

\* A claim link is handed to one claim at a time.
HandedOnce == part = "nonces" => Nonces!HandedOnce

\* A nonce cache under the file's version is the file's, and a refused link
\* was handed out.
CacheCoherent == part = "nonces" => Nonces!CacheCoherent /\ Nonces!RefusedHasCause

\* The nonce file implements the register of consumed links.
RegisterSpec ==
  /\ part = "nonces" => Nonces!Register!Init
  /\ [][part = "nonces" => Nonces!RegisterStep]_state

\* A write of the key file changes one survey's key.
KeysAreKept == [][part = "keys" => Keys!OtherKeysStay]_state

\* The cached list and the cached version are of late, and what is called on
\* the contract fits its version.
CachedIsRecent ==
  /\ part = "list" => List!ListIsRecent
  /\ part = "version" => Version!UpgradeIsSeen /\ Version!PathFits

\* Transactions of one process get nonces that fit, and cannot spend the
\* minter's floor; a low balance is warned about and shown.
SendingIsSafe ==
  /\ part = "sender" => Sender!NoncesFit
  /\ part = "funds" => Funds!FloorHolds /\ Funds!LowIsWarned /\ Funds!PromiseIsKept

\* A claim the page calls successful was paid; the list after a role change
\* shows it; what is confirmed is what the dialog was opened for.
StepsFitTheScreen ==
  [][/\ part = "claim" => Claim!PaidWhenShown
     /\ part = "roles" => Roles!ListedAfterChange
     /\ part = "mark" => Mark!AskedAsOpened]_state

\* What a page shows is so: words are covered when they should be, a wallet
\* that was created had its words checked, the banner of the template dialog
\* names the survey it is about, the total of points covers the history.
ScreensAreTrue ==
  /\ part = "phrase" => Phrase!WordsAreCovered
  /\ part = "wallet" => Setup!SavedWasVerified
  /\ part = "desk" => Desk!BannerIsTrue
  /\ part = "points" => View!TotalCoversHistory

\* An answer about another wallet than the page's decides nothing.
LateAnswersCountForNothing ==
  /\ part = "admin page" => Page!DashboardOfAdmin
  /\ part = "award" => Award!PreviewIsOfTheAddress
=============================================================================
