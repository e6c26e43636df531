-------------------------------- MODULE Enrich --------------------------------
(***************************************************************************)
(* The crawl of a business's own pages for who runs it: the homepage, the  *)
(* few pages worth opening in the order they are worth it, what the pages  *)
(* say together, and a bought check of the address guessed for the owner.  *)
(***************************************************************************)
EXTENDS Integers, Sequences, FiniteSets, SequencesExt, FiniteSetsExt

CONSTANTS
  Paths, HintRank,    \* the pages a homepage may link to and their place in PAGE_HINTS (0: none)
  Contents,           \* what a page may hold (MCRules)
  SignNames,          \* who the name above the door names: {} or {n}
  MAX_EXTRA_PAGES,
  GUESSES             \* addresses inferred for a name

VARIABLES site, sign, queue, pages, opened, phase, out, asked
vars == <<site, sign, queue, pages, opened, phase, out, asked>>

\* A site links to pages in the order of its homepage; a page it links to may not answer.
Hinted == { p \in Paths : HintRank[p] # 0 }
Sites == [links : SetToAllKPermutations(Paths), home : Contents, page : [Hinted -> Contents], live : SUBSET Hinted]
Nobody == [name |-> {}, role |-> {}]
EMPTY_ENRICHMENT == [owner |-> Nobody, ownerEmail |-> {}, hiring |-> {}, scrapedEmail |-> FALSE, pagesFetched |-> 0]

Init ==
  /\ site \in Sites /\ sign \in SignNames
  /\ queue = <<>> /\ pages = <<>> /\ opened = {} /\ phase = "home" /\ out = EMPTY_ENRICHMENT /\ asked = 0

\* Mutant: the pages are opened as they are linked.
InLinkOrder(links) == SelectSeq(links, LAMBDA p : p \in Hinted)
Sooner(links, p, q) ==
  LET At(page) == CHOOSE i \in DOMAIN links : links[i] = page
  IN HintRank[p] < HintRank[q] \/ (HintRank[p] = HintRank[q] /\ At(p) < At(q))
\* The k-th has k - 1 before it.
ByRank(links) ==
  LET hinted == ToSet(links) \cap Hinted
  IN [k \in 1..Cardinality(hinted) |->
       CHOOSE p \in hinted : Cardinality({ q \in hinted : Sooner(links, q, p) }) = k - 1]
candidatePages(links) == SubSeq(ByRank(links), 1, Min({MAX_EXTRA_PAGES, Len(ByRank(links))}))

ReadHome ==
  /\ phase = "home"
  /\ \/ /\ phase' = "pages" /\ pages' = <<site.home>> /\ queue' = candidatePages(site.links)
        /\ out' = [out EXCEPT !.pagesFetched = 1]
     \/ phase' = "done" /\ UNCHANGED <<pages, queue, out>>       \* no homepage: nothing is known
  /\ UNCHANGED <<site, sign, opened, asked>>

ReadPage ==
  /\ phase = "pages" /\ queue # <<>> /\ queue' = Tail(queue)
  /\ opened' = opened \cup {Head(queue)}
  /\ IF Head(queue) \in site.live
     THEN /\ pages' = Append(pages, site.page[Head(queue)])
          /\ out' = [out EXCEPT !.pagesFetched = @ + 1]
     ELSE UNCHANGED <<pages, out>>
  /\ UNCHANGED <<site, sign, phase, asked>>

\* extractOwner: schema or a stated role first, then a practitioner's credentials.
extractOwner(page) ==
  IF page.owner # {} THEN [name |-> page.owner, role |-> {"owner"}]
  ELSE IF page.doctor # {} THEN [name |-> page.doctor, role |-> {"doctor"}] ELSE Nobody
ownerFromCopyright(page) == IF page.footer = {} THEN Nobody ELSE [name |-> page.footer, role |-> {"footer"}]
ownerFromBusinessName == IF sign = {} THEN Nobody ELSE [name |-> sign, role |-> {"sign"}]
detectHiring(page) == page.hiring

\* The first page to name anybody, by its text or else by its footer.
Named(page) == IF extractOwner(page) # Nobody THEN extractOwner(page) ELSE ownerFromCopyright(page)
OwnerOf(read) ==
  LET naming == { i \in DOMAIN read : Named(read[i]) # Nobody } IN
    IF naming = {} THEN ownerFromBusinessName ELSE Named(read[Min(naming)])

Published(read) == \E i \in DOMAIN read : read[i].mail

Assemble ==
  /\ phase = "pages" /\ queue = <<>>
  /\ out' = [out EXCEPT !.owner = OwnerOf(pages), !.scrapedEmail = Published(pages),
                        !.hiring = {\E i \in DOMAIN pages : detectHiring(pages[i])}]
  /\ phase' = IF OwnerOf(pages) # Nobody /\ ~Published(pages) THEN "guess" ELSE "done"
  /\ UNCHANGED <<site, sign, queue, pages, opened, asked>>

\* inferEmails, verifyEmail: guesses are checked one after the other until one is confirmed.
Guess ==
  /\ phase = "guess" /\ asked' = asked + 1
  /\ \/ out' = [out EXCEPT !.ownerEmail = {asked + 1}] /\ phase' = "done"
     \/ phase' = (IF asked + 1 = GUESSES THEN "done" ELSE "guess") /\ UNCHANGED out
  /\ UNCHANGED <<site, sign, queue, pages, opened>>

Next == ReadHome \/ ReadPage \/ Assemble \/ Guess
Spec == Init /\ [][Next]_vars

----------------------------------------------------------------------------

\* The pages are few and slow, so which are opened decides whether anybody is named: no page that
\* was opened was worth less than one the homepage linked to and the crawl ran out of pages for.
BestPagesFirst ==
  phase = "done" /\ opened # {} =>
    \A p \in opened, q \in (ToSet(site.links) \cap Hinted) \ opened : HintRank[p] <= HintRank[q]

\* A guess is bought only for a business that publishes no address anywhere it was read, and an
\* address is given for the owner only when it was one of the guesses that was confirmed.
NeverGuessedInVain ==
  /\ asked > 0 => out.owner # Nobody /\ \A p \in opened \cap site.live : ~site.page[p].mail
  /\ out.ownerEmail # {} => out.ownerEmail = {asked}

\* The words inside the loop over the pages: the footer credit is of lower confidence than a schema
\* Person or a team card, so it only runs once those have failed.
FooterIsLast ==
  phase = "done" /\ out.owner.role = {"footer"} => \A i \in DOMAIN pages : extractOwner(pages[i]) = Nobody
=============================================================================
