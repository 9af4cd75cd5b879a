------------------------- MODULE SellerOrdersProofs -------------------------
(***************************************************************************)
(* Proofs about SellerOrders, for any number of orders, jobs, requests,    *)
(* crashes and failing statements.                                         *)
(***************************************************************************)
EXTENDS SellerOrders, TLAPS

Works(j) == job[j].at \in {"execute", "persist"}
CallsBack(j) == job[j].at \in {"enqueue", "send", "sent"}

Assigned ==
    \A j \in Jobs :
        /\ job[j].at # "idle" => job[j].order \in Orders
        /\ job[j].at = "persist" => job[j].result # "none"

\* Who executes an order has it at "processing", and that keeps others out.
Exclusive ==
    /\ \A j \in Jobs : Works(j) => status[job[j].order] = "processing"
    /\ \A j, k \in Jobs : Works(j) /\ Works(k) /\ job[j].order = job[k].order => j = k

\* What is on its way to a reseller is what the order was settled as, but for
\* a hurried retry.
Truthful ==
    \A j \in Jobs : CallsBack(j) =>
        \/ job[j].result \in Final /\ status[job[j].order] = job[j].result
        \/ /\ job[j].at # "enqueue"
           /\ job[j].result \notin Final /\ job[j].order \in hurried

Accepted ==
    \A j \in Jobs : job[j].at = "sent" /\ job[j].ok /\ job[j].result \in Final =>
        job[j].result \in told[job[j].order]

\* The queue is about settled orders.
QueueSettled ==
    \A o \in Orders :
        /\ callback[o].there => status[o] \in Final
        /\ callback[o].delivered # "no" => callback[o].there

\* A paid validation is bought by the request that inserts the order.
BoughtByInsert ==
    \A o \in Validations \ Irs :
        /\ status[o] = "none" => bought[o] = 0
        /\ \A j \in Jobs : job[j].order = o =>
              /\ job[j].at # "claim"
              /\ job[j].at = "execute" => bought[o] = 0

IInv ==
    /\ TypeOK /\ Assigned /\ Exclusive /\ Truthful /\ Accepted /\ QueueSettled
    /\ BoughtByInsert /\ ValidatedOnce /\ DeliveredMeansTold

-----------------------------------------------------------------------------
\* What a step makes of a job, field by field.
Becomes(j, step, o, result, ok) ==
    /\ \A k \in Jobs \ {j} : job'[k] = job[k]
    /\ job'[j].at = step
    /\ job'[j].order = o
    /\ job'[j].result = result
    /\ job'[j].ok = ok

LEMMA JobGoes ==
    ASSUME TypeOK, NEW j \in Jobs, NEW step \in Steps, Goes(j, step)
    PROVE  /\ job' \in [Jobs -> Job]
           /\ Becomes(j, step, job[j].order, job[j].result, job[j].ok)
<1>1. job \in [Jobs -> Job] /\ job' = [job EXCEPT ![j] = [job[j] EXCEPT !.at = step]]
  BY DEF TypeOK, Goes
<1>2. [job[j] EXCEPT !.at = step] \in Job
  BY <1>1 DEF Job
<1>3. job' \in [Jobs -> Job]
  BY <1>1, <1>2
<1>4. Becomes(j, step, job[j].order, job[j].result, job[j].ok)
  BY <1>1 DEF Becomes, Job
<1> QED
  BY <1>3, <1>4

LEMMA JobStops ==
    ASSUME TypeOK, NEW j \in Jobs, Stops(j)
    PROVE  /\ job' \in [Jobs -> Job]
           /\ Becomes(j, "idle", None, "none", FALSE)
<1>1. Idle \in Job
  BY DEF Idle, Job, Steps
<1>2. job \in [Jobs -> Job] /\ job' = [job EXCEPT ![j] = Idle]
  BY DEF TypeOK, Stops
<1>3. job' \in [Jobs -> Job]
  BY <1>1, <1>2
<1>4. Becomes(j, "idle", None, "none", FALSE)
  BY <1>2 DEF Becomes, Idle
<1> QED
  BY <1>3, <1>4

LEMMA JobSends ==
    ASSUME TypeOK, NEW j \in Jobs, NEW o \in Orders, Sends(j, o)
    PROVE  /\ job' \in [Jobs -> Job]
           /\ Becomes(j, "send", o, status[o], job[j].ok)
<1>1. /\ job \in [Jobs -> Job]
      /\ job' = [job EXCEPT ![j] = [job[j] EXCEPT !.at = "send", !.order = o,
                                                  !.result = status[o]]]
  BY DEF TypeOK, Sends
<1>2. [job[j] EXCEPT !.at = "send", !.order = o, !.result = status[o]] \in Job
  BY <1>1 DEF TypeOK, Job, Steps
<1>3. job' \in [Jobs -> Job]
  BY <1>1, <1>2
<1>4. Becomes(j, "send", o, status[o], job[j].ok)
  BY <1>1 DEF Becomes, Job
<1> QED
  BY <1>3, <1>4

LEMMA RequestStep ==
    ASSUME IInv, NEW j \in Jobs, NEW o \in Orders, Request(j, o)
    PROVE  IInv'
<1>c. PICK step \in {"insert", "look"} :
         job' = [job EXCEPT ![j] = [job[j] EXCEPT !.at = step, !.order = o]]
  BY DEF Request
<1>d. job' \in [Jobs -> Job] /\ Becomes(j, step, o, job[j].result, job[j].ok)
  <2>1. job \in [Jobs -> Job]
    BY DEF IInv, TypeOK
  <2>2. [job[j] EXCEPT !.at = step, !.order = o] \in Job
    BY <2>1 DEF Job, Steps
  <2> QED
    BY <1>c, <2>1, <2>2 DEF Becomes, Job
<1> USE SellerAssumption DEF IInv, Request, orderVars, history
<1>1. TypeOK'
  BY <1>c, <1>d DEF TypeOK, Row, Final, Statuses, Steps
<1>2. Assigned'
  BY <1>c, <1>d DEF Assigned, Steps, Statuses, Becomes
<1>3. Exclusive'
  BY <1>c, <1>d DEF TypeOK, Assigned, Exclusive, Works, Steps, Becomes
<1>4. Truthful'
  BY <1>c, <1>d DEF TypeOK, Assigned, Exclusive, Works, Truthful, CallsBack, Final, QueueSettled, Steps, Becomes
<1>5. Accepted'
  BY <1>c, <1>d DEF TypeOK, Assigned, Accepted, Truthful, CallsBack, Final, Steps, Becomes
<1>6. QueueSettled'
  BY <1>c, <1>d DEF TypeOK, Row, Assigned, Exclusive, Works, Truthful, CallsBack, QueueSettled, Final
<1>7. BoughtByInsert'
  BY <1>c, <1>d DEF TypeOK, Assigned, Exclusive, Works, BoughtByInsert, Steps, Becomes
<1>8. ValidatedOnce'
  BY <1>c, <1>d DEF TypeOK, Assigned, BoughtByInsert, ValidatedOnce
<1>9. DeliveredMeansTold'
  BY <1>c, <1>d DEF TypeOK, Row, Assigned, Exclusive, Works, Truthful, Accepted, QueueSettled, CallsBack, DeliveredMeansTold, Final
<1> QED
  BY <1>1, <1>2, <1>3, <1>4, <1>5, <1>6, <1>7, <1>8, <1>9

LEMMA LookStep ==
    ASSUME IInv, NEW j \in Jobs, Look(j)
    PROVE  IInv'
<1>a. \A step \in Steps : Goes(j, step) =>
        /\ job' \in [Jobs -> Job]
        /\ Becomes(j, step, job[j].order, job[j].result, job[j].ok)
  BY JobGoes DEF IInv
<1>b. Stops(j) => job' \in [Jobs -> Job] /\ Becomes(j, "idle", None, "none", FALSE)
  BY JobStops DEF IInv
<1> USE SellerAssumption DEF IInv, Look, Recheckable, orderVars, history
<1>1. TypeOK'
  BY <1>a, <1>b DEF TypeOK, Row, Final, Statuses, Steps
<1>2. Assigned'
  BY <1>a, <1>b DEF Assigned, Steps, Statuses, Becomes
<1>3. Exclusive'
  BY <1>a, <1>b DEF TypeOK, Assigned, Exclusive, Works, Steps, Becomes
<1>4. Truthful'
  BY <1>a, <1>b DEF TypeOK, Assigned, Exclusive, Works, Truthful, CallsBack, Final, QueueSettled, Steps, Becomes
<1>5. Accepted'
  BY <1>a, <1>b DEF TypeOK, Assigned, Accepted, Truthful, CallsBack, Final, Steps, Becomes
<1>6. QueueSettled'
  BY <1>a, <1>b DEF TypeOK, Row, Assigned, Exclusive, Works, Truthful, CallsBack, QueueSettled, Final
<1>7. BoughtByInsert'
  BY <1>a, <1>b DEF TypeOK, Assigned, Exclusive, Works, BoughtByInsert, Steps, Becomes
<1>8. ValidatedOnce'
  BY <1>a, <1>b DEF TypeOK, Assigned, BoughtByInsert, ValidatedOnce
<1>9. DeliveredMeansTold'
  BY <1>a, <1>b DEF TypeOK, Row, Assigned, Exclusive, Works, Truthful, Accepted, QueueSettled, CallsBack, DeliveredMeansTold, Final
<1> QED
  BY <1>1, <1>2, <1>3, <1>4, <1>5, <1>6, <1>7, <1>8, <1>9

LEMMA InsertStep ==
    ASSUME IInv, NEW j \in Jobs, Insert(j)
    PROVE  IInv'
<1>a. \A step \in Steps : Goes(j, step) =>
        /\ job' \in [Jobs -> Job]
        /\ Becomes(j, step, job[j].order, job[j].result, job[j].ok)
  BY JobGoes DEF IInv
<1> USE SellerAssumption DEF IInv, Insert, orderVars, history
<1>1. TypeOK'
  BY <1>a DEF TypeOK, Row, Final, Statuses, Steps
<1>2. Assigned'
  BY <1>a DEF Assigned, Steps, Statuses, Becomes
<1>3. Exclusive'
  BY <1>a DEF TypeOK, Assigned, Exclusive, Works, Steps, Becomes
<1>4. Truthful'
  BY <1>a DEF TypeOK, Assigned, Exclusive, Works, Truthful, CallsBack, Final, QueueSettled, Steps, Becomes
<1>5. Accepted'
  BY <1>a DEF TypeOK, Assigned, Accepted, Truthful, CallsBack, Final, Steps, Becomes
<1>6. QueueSettled'
  BY <1>a DEF TypeOK, Row, Assigned, Exclusive, Works, Truthful, CallsBack, QueueSettled, Final
<1>7. BoughtByInsert'
  BY <1>a DEF TypeOK, Assigned, Exclusive, Works, BoughtByInsert, Steps, Becomes
<1>8. ValidatedOnce'
  BY <1>a DEF TypeOK, Assigned, BoughtByInsert, ValidatedOnce
<1>9. DeliveredMeansTold'
  <2>1. \A o \in Orders : callback[o].delivered = "yes" => status[o] \in Final
    BY DEF TypeOK, Row, QueueSettled
  <2>2. \A o \in Orders : status[o] \in Final => status'[o] = status[o]
    BY DEF TypeOK, Assigned, Final
  <2> QED
    BY <2>1, <2>2 DEF DeliveredMeansTold
<1> QED
  BY <1>1, <1>2, <1>3, <1>4, <1>5, <1>6, <1>7, <1>8, <1>9

LEMMA ClaimStep ==
    ASSUME IInv, NEW j \in Jobs, Claim(j)
    PROVE  IInv'
<1>a. \A step \in Steps : Goes(j, step) =>
        /\ job' \in [Jobs -> Job]
        /\ Becomes(j, step, job[j].order, job[j].result, job[j].ok)
  BY JobGoes DEF IInv
<1>b. Stops(j) => job' \in [Jobs -> Job] /\ Becomes(j, "idle", None, "none", FALSE)
  BY JobStops DEF IInv
<1> USE SellerAssumption DEF IInv, Claim, Claimable, orderVars, history
<1>1. TypeOK'
  BY <1>a, <1>b DEF TypeOK, Row, Final, Statuses, Steps
<1>2. Assigned'
  BY <1>a, <1>b DEF Assigned, Steps, Statuses, Becomes
<1>3. Exclusive'
  BY <1>a, <1>b DEF TypeOK, Assigned, Exclusive, Works, Steps, Becomes
<1>4. Truthful'
  BY <1>a, <1>b DEF TypeOK, Assigned, Exclusive, Works, Truthful, CallsBack, Final, QueueSettled, Steps, Becomes
<1>5. Accepted'
  BY <1>a, <1>b DEF TypeOK, Assigned, Accepted, Truthful, CallsBack, Final, Steps, Becomes
<1>6. QueueSettled'
  BY <1>a, <1>b DEF TypeOK, Row, Assigned, Exclusive, Works, Truthful, CallsBack, QueueSettled, Final
<1>7. BoughtByInsert'
  BY <1>a, <1>b DEF TypeOK, Assigned, Exclusive, Works, BoughtByInsert, Steps, Becomes
<1>8. ValidatedOnce'
  BY <1>a, <1>b DEF TypeOK, Assigned, BoughtByInsert, ValidatedOnce
<1>9. DeliveredMeansTold'
  <2>1. \A o \in Orders : callback[o].delivered = "yes" => status[o] \in Final
    BY DEF TypeOK, Row, QueueSettled
  <2>2. \A o \in Orders : status[o] \in Final => status'[o] = status[o]
    BY DEF TypeOK, Assigned, Final
  <2> QED
    BY <2>1, <2>2 DEF DeliveredMeansTold
<1> QED
  BY <1>1, <1>2, <1>3, <1>4, <1>5, <1>6, <1>7, <1>8, <1>9

LEMMA ExecuteStep ==
    ASSUME IInv, NEW j \in Jobs, Execute(j)
    PROVE  IInv'
<1>c. PICK result \in Statuses :
         job' = [job EXCEPT ![j] = [job[j] EXCEPT !.at = "persist", !.result = result]]
  BY DEF Execute, Normalized, Statuses, Final
<1>d. job' \in [Jobs -> Job] /\ Becomes(j, "persist", job[j].order, result, job[j].ok)
  <2>1. job \in [Jobs -> Job]
    BY DEF IInv, TypeOK
  <2>2. [job[j] EXCEPT !.at = "persist", !.result = result] \in Job
    BY <2>1 DEF Job, Steps
  <2> QED
    BY <1>c, <2>1, <2>2 DEF Becomes, Job
<1> USE SellerAssumption DEF IInv, Execute, orderVars, history
<1>1. TypeOK'
  BY <1>c, <1>d DEF TypeOK, Row, Final, Statuses, Steps
<1>2. Assigned'
  BY <1>c, <1>d DEF Assigned, Steps, Statuses, Final, Becomes
<1>3. Exclusive'
  BY <1>c, <1>d DEF TypeOK, Assigned, Exclusive, Works, Steps, Becomes
<1>4. Truthful'
  BY <1>c, <1>d DEF TypeOK, Assigned, Exclusive, Works, Truthful, CallsBack, Final, QueueSettled, Steps, Becomes
<1>5. Accepted'
  BY <1>c, <1>d DEF TypeOK, Assigned, Accepted, Truthful, CallsBack, Final, Steps, Becomes
<1>6. QueueSettled'
  BY <1>c, <1>d DEF TypeOK, Row, Assigned, Exclusive, Works, Truthful, CallsBack, QueueSettled, Final
<1>7. BoughtByInsert'
  BY <1>c, <1>d DEF TypeOK, Assigned, Exclusive, Works, BoughtByInsert, Steps, Becomes
<1>8. ValidatedOnce'
  BY <1>c, <1>d DEF TypeOK, Assigned, BoughtByInsert, ValidatedOnce
<1>9. DeliveredMeansTold'
  BY <1>c, <1>d DEF TypeOK, Row, Assigned, Exclusive, Works, Truthful, Accepted, QueueSettled, CallsBack, DeliveredMeansTold, Final
<1> QED
  BY <1>1, <1>2, <1>3, <1>4, <1>5, <1>6, <1>7, <1>8, <1>9

LEMMA PersistStep ==
    ASSUME IInv, NEW j \in Jobs, Persist(j)
    PROVE  IInv'
<1>a. \A step \in Steps : Goes(j, step) =>
        /\ job' \in [Jobs -> Job]
        /\ Becomes(j, step, job[j].order, job[j].result, job[j].ok)
  BY JobGoes DEF IInv
<1>b. Stops(j) => job' \in [Jobs -> Job] /\ Becomes(j, "idle", None, "none", FALSE)
  BY JobStops DEF IInv
<1> USE SellerAssumption DEF IInv, Persist, orderVars, history
<1>1. TypeOK'
  <2>1. job[j].order \in Orders /\ job[j].result \in Statuses \cup {"none"}
    BY DEF TypeOK, Job, Assigned
  <2>2. status' \in [Orders -> Statuses \cup {"none"}]
    BY <2>1 DEF TypeOK
  <2>3. lease' \in [Orders -> {"null", "running", "over"}]
    BY <2>1 DEF TypeOK
  <2>4. job' \in [Jobs -> Job]
    BY <1>a, <1>b DEF Steps
  <2> QED
    BY <2>2, <2>3, <2>4 DEF TypeOK
<1>2. Assigned'
  BY <1>a, <1>b DEF Assigned, Steps, Statuses, Becomes
<1>3. Exclusive'
  BY <1>a, <1>b DEF TypeOK, Assigned, Exclusive, Works, Steps, Becomes
<1>4. Truthful'
  BY <1>a, <1>b DEF TypeOK, Assigned, Exclusive, Works, Truthful, CallsBack, Final, QueueSettled, Steps, Becomes
<1>5. Accepted'
  BY <1>a, <1>b DEF TypeOK, Assigned, Accepted, Truthful, CallsBack, Final, Steps, Becomes
<1>6. QueueSettled'
  BY <1>a, <1>b DEF TypeOK, Row, Assigned, Exclusive, Works, Truthful, CallsBack, QueueSettled, Final
<1>7. BoughtByInsert'
  BY <1>a, <1>b DEF TypeOK, Assigned, Exclusive, Works, BoughtByInsert, Steps, Becomes
<1>8. ValidatedOnce'
  BY <1>a, <1>b DEF TypeOK, Assigned, BoughtByInsert, ValidatedOnce
<1>9. DeliveredMeansTold'
  BY <1>a, <1>b DEF TypeOK, Row, Assigned, Exclusive, Works, Truthful, Accepted, QueueSettled, CallsBack, DeliveredMeansTold, Final
<1> QED
  BY <1>1, <1>2, <1>3, <1>4, <1>5, <1>6, <1>7, <1>8, <1>9

LEMMA EnqueueStep ==
    ASSUME IInv, NEW j \in Jobs, Enqueue(j)
    PROVE  IInv'
<1>a. \A step \in Steps : Goes(j, step) =>
        /\ job' \in [Jobs -> Job]
        /\ Becomes(j, step, job[j].order, job[j].result, job[j].ok)
  BY JobGoes DEF IInv
<1> USE SellerAssumption DEF IInv, Enqueue, orderVars, history
<1>1. TypeOK'
  BY <1>a DEF TypeOK, Row, Final, Statuses, Steps
<1>2. Assigned'
  BY <1>a DEF Assigned, Steps, Statuses, Becomes
<1>3. Exclusive'
  BY <1>a DEF TypeOK, Assigned, Exclusive, Works, Steps, Becomes
<1>4. Truthful'
  BY <1>a DEF TypeOK, Assigned, Exclusive, Works, Truthful, CallsBack, Final, QueueSettled, Steps, Becomes
<1>5. Accepted'
  BY <1>a DEF TypeOK, Assigned, Accepted, Truthful, CallsBack, Final, Steps, Becomes
<1>6. QueueSettled'
  BY <1>a DEF TypeOK, Row, Assigned, Exclusive, Works, Truthful, CallsBack, QueueSettled, Final
<1>7. BoughtByInsert'
  BY <1>a DEF TypeOK, Assigned, Exclusive, Works, BoughtByInsert, Steps, Becomes
<1>8. ValidatedOnce'
  BY <1>a DEF TypeOK, Assigned, BoughtByInsert, ValidatedOnce
<1>9. DeliveredMeansTold'
  BY <1>a DEF TypeOK, Row, Assigned, Exclusive, Works, Truthful, Accepted, QueueSettled, CallsBack, DeliveredMeansTold, Final
<1> QED
  BY <1>1, <1>2, <1>3, <1>4, <1>5, <1>6, <1>7, <1>8, <1>9

LEMMA StatementFailsStep ==
    ASSUME IInv, NEW j \in Jobs, StatementFails(j)
    PROVE  IInv'
<1>a. \A step \in Steps : Goes(j, step) =>
        /\ job' \in [Jobs -> Job]
        /\ Becomes(j, step, job[j].order, job[j].result, job[j].ok)
  BY JobGoes DEF IInv
<1>b. Stops(j) => job' \in [Jobs -> Job] /\ Becomes(j, "idle", None, "none", FALSE)
  BY JobStops DEF IInv
<1> USE SellerAssumption DEF IInv, StatementFails, orderVars, history
<1>1. TypeOK'
  <2>1. troubles' \in 0..Troubles
    BY DEF TypeOK
  <2>2. job' \in [Jobs -> Job]
    BY <1>a, <1>b DEF Steps
  <2> QED
    BY <2>1, <2>2 DEF TypeOK
<1>2. Assigned'
  BY <1>a, <1>b DEF Assigned, Steps, Statuses, Becomes
<1>3. Exclusive'
  BY <1>a, <1>b DEF TypeOK, Assigned, Exclusive, Works, Steps, Becomes
<1>4. Truthful'
  BY <1>a, <1>b DEF TypeOK, Assigned, Exclusive, Works, Truthful, CallsBack, Final, QueueSettled, Steps, Becomes
<1>5. Accepted'
  BY <1>a, <1>b DEF TypeOK, Assigned, Accepted, Truthful, CallsBack, Final, Steps, Becomes
<1>6. QueueSettled'
  BY <1>a, <1>b DEF TypeOK, Row, Assigned, Exclusive, Works, Truthful, CallsBack, QueueSettled, Final
<1>7. BoughtByInsert'
  BY <1>a, <1>b DEF TypeOK, Assigned, Exclusive, Works, BoughtByInsert, Steps, Becomes
<1>8. ValidatedOnce'
  BY <1>a, <1>b DEF TypeOK, Assigned, BoughtByInsert, ValidatedOnce
<1>9. DeliveredMeansTold'
  BY <1>a, <1>b DEF TypeOK, Row, Assigned, Exclusive, Works, Truthful, Accepted, QueueSettled, CallsBack, DeliveredMeansTold, Final
<1> QED
  BY <1>1, <1>2, <1>3, <1>4, <1>5, <1>6, <1>7, <1>8, <1>9

LEMMA PostStep ==
    ASSUME IInv, NEW j \in Jobs, Post(j)
    PROVE  IInv'
<1>c. PICK received \in BOOLEAN, ok \in BOOLEAN :
         /\ ok => received
         /\ job' = [job EXCEPT ![j] = [job[j] EXCEPT !.at = "sent", !.ok = ok]]
         /\ told' = IF received
                    THEN [told EXCEPT ![job[j].order] = @ \cup ({job[j].result} \cap Final)]
                    ELSE told
  BY DEF Post
<1>d. job' \in [Jobs -> Job] /\ Becomes(j, "sent", job[j].order, job[j].result, ok)
  <2>1. job \in [Jobs -> Job]
    BY DEF IInv, TypeOK
  <2>2. [job[j] EXCEPT !.at = "sent", !.ok = ok] \in Job
    BY <2>1 DEF Job, Steps
  <2> QED
    BY <1>c, <2>1, <2>2 DEF Becomes, Job
<1> USE SellerAssumption DEF IInv, Post, orderVars, history
<1>1. TypeOK'
  BY <1>c, <1>d DEF TypeOK, Row, Final, Statuses, Steps
<1>2. Assigned'
  BY <1>c, <1>d DEF Assigned, Steps, Statuses, Becomes
<1>3. Exclusive'
  BY <1>c, <1>d DEF TypeOK, Assigned, Exclusive, Works, Steps, Becomes
<1>4. Truthful'
  BY <1>c, <1>d DEF TypeOK, Assigned, Exclusive, Works, Truthful, CallsBack, Final, QueueSettled, Steps, Becomes
<1>5. Accepted'
  <2>1. \A o \in Orders : told[o] \subseteq told'[o]
    BY <1>c DEF TypeOK
  <2>2. ok /\ job[j].result \in Final => job[j].result \in told'[job[j].order]
    BY <1>c DEF TypeOK, Assigned
  <2>3. \A k \in Jobs : job[k].at = "sent" => job[k].order \in Orders
    BY DEF Assigned
  <2> QED
    BY <1>d, <2>1, <2>2, <2>3 DEF Accepted, Becomes
<1>6. QueueSettled'
  BY <1>c, <1>d DEF TypeOK, Row, Assigned, Exclusive, Works, Truthful, CallsBack, QueueSettled, Final
<1>7. BoughtByInsert'
  BY <1>c, <1>d DEF TypeOK, Assigned, Exclusive, Works, BoughtByInsert, Steps, Becomes
<1>8. ValidatedOnce'
  BY <1>c, <1>d DEF TypeOK, Assigned, BoughtByInsert, ValidatedOnce
<1>9. DeliveredMeansTold'
  BY <1>c, <1>d DEF TypeOK, Row, Assigned, Exclusive, Works, Truthful, Accepted, QueueSettled, CallsBack, DeliveredMeansTold, Final
<1> QED
  BY <1>1, <1>2, <1>3, <1>4, <1>5, <1>6, <1>7, <1>8, <1>9

LEMMA RecordStep ==
    ASSUME IInv, NEW j \in Jobs, Record(j)
    PROVE  IInv'
<1>b. Stops(j) => job' \in [Jobs -> Job] /\ Becomes(j, "idle", None, "none", FALSE)
  BY JobStops DEF IInv
<1> USE SellerAssumption DEF IInv, Record, Recorded, Delivered, Backoff, orderVars, history
<1>1. TypeOK'
  <2>1. \A row \in Row : Recorded(j, row) \in Row
    BY DEF Row
  <2>2. callback' \in [Orders -> Row]
    BY <2>1 DEF TypeOK
  <2> QED
    BY <1>b, <2>2 DEF TypeOK
<1>2. Assigned'
  BY <1>b DEF Assigned, Steps, Statuses, Becomes
<1>3. Exclusive'
  BY <1>b DEF TypeOK, Assigned, Exclusive, Works, Steps, Becomes
<1>4. Truthful'
  BY <1>b DEF TypeOK, Assigned, Exclusive, Works, Truthful, CallsBack, Final, QueueSettled, Steps, Becomes
<1>5. Accepted'
  BY <1>b DEF TypeOK, Assigned, Accepted, Truthful, CallsBack, Final, Steps, Becomes
<1>6. QueueSettled'
  BY <1>b DEF TypeOK, Row, Assigned, Exclusive, Works, Truthful, CallsBack, QueueSettled, Final
<1>7. BoughtByInsert'
  BY <1>b DEF TypeOK, Assigned, Exclusive, Works, BoughtByInsert, Steps, Becomes
<1>8. ValidatedOnce'
  BY <1>b DEF TypeOK, Assigned, BoughtByInsert, ValidatedOnce
<1>9. DeliveredMeansTold'
  BY <1>b DEF TypeOK, Row, Assigned, Exclusive, Works, Truthful, Accepted, QueueSettled, CallsBack, DeliveredMeansTold, Final
<1> QED
  BY <1>1, <1>2, <1>3, <1>4, <1>5, <1>6, <1>7, <1>8, <1>9

LEMMA RetryDueStep ==
    ASSUME IInv, NEW j \in Jobs, NEW o \in Orders, RetryDue(j, o)
    PROVE  IInv'
<1>c. job' \in [Jobs -> Job] /\ Becomes(j, "send", o, status[o], job[j].ok)
  BY JobSends DEF IInv, RetryDue
<1> USE SellerAssumption DEF IInv, RetryDue, Sends, orderVars, history
<1>1. TypeOK'
  BY <1>c DEF TypeOK, Row, Final, Statuses, Steps
<1>2. Assigned'
  BY <1>c DEF Assigned, Steps, Statuses, Becomes
<1>3. Exclusive'
  BY <1>c DEF TypeOK, Assigned, Exclusive, Works, Steps, Becomes
<1>4. Truthful'
  BY <1>c DEF TypeOK, Assigned, Exclusive, Works, Truthful, CallsBack, Final, QueueSettled, Steps, Becomes
<1>5. Accepted'
  BY <1>c DEF TypeOK, Assigned, Accepted, Truthful, CallsBack, Final, Steps, Becomes
<1>6. QueueSettled'
  BY <1>c DEF TypeOK, Row, Assigned, Exclusive, Works, Truthful, CallsBack, QueueSettled, Final
<1>7. BoughtByInsert'
  BY <1>c DEF TypeOK, Assigned, Exclusive, Works, BoughtByInsert, Steps, Becomes
<1>8. ValidatedOnce'
  BY <1>c DEF TypeOK, Assigned, BoughtByInsert, ValidatedOnce
<1>9. DeliveredMeansTold'
  BY <1>c DEF TypeOK, Row, Assigned, Exclusive, Works, Truthful, Accepted, QueueSettled, CallsBack, DeliveredMeansTold, Final
<1> QED
  BY <1>1, <1>2, <1>3, <1>4, <1>5, <1>6, <1>7, <1>8, <1>9

LEMMA RetryByHandStep ==
    ASSUME IInv, NEW j \in Jobs, NEW o \in Orders, RetryByHand(j, o)
    PROVE  IInv'
<1>c. job' \in [Jobs -> Job] /\ Becomes(j, "send", o, status[o], job[j].ok)
  BY JobSends DEF IInv, RetryByHand
<1> USE SellerAssumption DEF IInv, RetryByHand, Sends, orderVars, history
<1>1. TypeOK'
  BY <1>c DEF TypeOK, Row, Final, Statuses, Steps
<1>2. Assigned'
  BY <1>c DEF Assigned, Steps, Statuses, Becomes
<1>3. Exclusive'
  BY <1>c DEF TypeOK, Assigned, Exclusive, Works, Steps, Becomes
<1>4. Truthful'
  BY <1>c DEF TypeOK, Assigned, Exclusive, Works, Truthful, CallsBack, Final, QueueSettled, Steps, Becomes
<1>5. Accepted'
  BY <1>c DEF TypeOK, Assigned, Accepted, Truthful, CallsBack, Final, Steps, Becomes
<1>6. QueueSettled'
  BY <1>c DEF TypeOK, Row, Assigned, Exclusive, Works, Truthful, CallsBack, QueueSettled, Final
<1>7. BoughtByInsert'
  BY <1>c DEF TypeOK, Assigned, Exclusive, Works, BoughtByInsert, Steps, Becomes
<1>8. ValidatedOnce'
  BY <1>c DEF TypeOK, Assigned, BoughtByInsert, ValidatedOnce
<1>9. DeliveredMeansTold'
  BY <1>c DEF TypeOK, Row, Assigned, Exclusive, Works, Truthful, Accepted, QueueSettled, CallsBack, DeliveredMeansTold, Final
<1> QED
  BY <1>1, <1>2, <1>3, <1>4, <1>5, <1>6, <1>7, <1>8, <1>9

LEMMA GiveUpStep ==
    ASSUME IInv, NEW o \in Orders, GiveUp(o)
    PROVE  IInv'
<1> USE SellerAssumption DEF IInv, GiveUp, orderVars, history
<1>1. TypeOK'
  BY DEF TypeOK, Row, Final, Statuses, Steps
<1>2. Assigned'
  BY DEF Assigned, Steps, Statuses, Becomes
<1>3. Exclusive'
  BY DEF TypeOK, Assigned, Exclusive, Works, Steps, Becomes
<1>4. Truthful'
  BY DEF TypeOK, Assigned, Exclusive, Works, Truthful, CallsBack, Final, QueueSettled, Steps, Becomes
<1>5. Accepted'
  BY DEF TypeOK, Assigned, Accepted, Truthful, CallsBack, Final, Steps, Becomes
<1>6. QueueSettled'
  BY DEF TypeOK, Row, Assigned, Exclusive, Works, Truthful, CallsBack, QueueSettled, Final
<1>7. BoughtByInsert'
  BY DEF TypeOK, Assigned, Exclusive, Works, BoughtByInsert, Steps, Becomes
<1>8. ValidatedOnce'
  BY DEF TypeOK, Assigned, BoughtByInsert, ValidatedOnce
<1>9. DeliveredMeansTold'
  BY DEF TypeOK, Row, Assigned, Exclusive, Works, Truthful, Accepted, QueueSettled, CallsBack, DeliveredMeansTold, Final
<1> QED
  BY <1>1, <1>2, <1>3, <1>4, <1>5, <1>6, <1>7, <1>8, <1>9

LEMMA LeaseEndsStep ==
    ASSUME IInv, NEW o \in Orders, LeaseEnds(o)
    PROVE  IInv'
<1> USE SellerAssumption DEF IInv, LeaseEnds, orderVars, history
<1>1. TypeOK'
  BY DEF TypeOK, Row, Final, Statuses, Steps
<1>2. Assigned'
  BY DEF Assigned, Steps, Statuses, Becomes
<1>3. Exclusive'
  BY DEF TypeOK, Assigned, Exclusive, Works, Steps, Becomes
<1>4. Truthful'
  BY DEF TypeOK, Assigned, Exclusive, Works, Truthful, CallsBack, Final, QueueSettled, Steps, Becomes
<1>5. Accepted'
  BY DEF TypeOK, Assigned, Accepted, Truthful, CallsBack, Final, Steps, Becomes
<1>6. QueueSettled'
  BY DEF TypeOK, Row, Assigned, Exclusive, Works, Truthful, CallsBack, QueueSettled, Final
<1>7. BoughtByInsert'
  BY DEF TypeOK, Assigned, Exclusive, Works, BoughtByInsert, Steps, Becomes
<1>8. ValidatedOnce'
  BY DEF TypeOK, Assigned, BoughtByInsert, ValidatedOnce
<1>9. DeliveredMeansTold'
  BY DEF TypeOK, Row, Assigned, Exclusive, Works, Truthful, Accepted, QueueSettled, CallsBack, DeliveredMeansTold, Final
<1> QED
  BY <1>1, <1>2, <1>3, <1>4, <1>5, <1>6, <1>7, <1>8, <1>9

LEMMA BackoffEndsStep ==
    ASSUME IInv, NEW o \in Orders, BackoffEnds(o)
    PROVE  IInv'
<1> USE SellerAssumption DEF IInv, BackoffEnds, orderVars, history
<1>1. TypeOK'
  BY DEF TypeOK, Row, Final, Statuses, Steps
<1>2. Assigned'
  BY DEF Assigned, Steps, Statuses, Becomes
<1>3. Exclusive'
  BY DEF TypeOK, Assigned, Exclusive, Works, Steps, Becomes
<1>4. Truthful'
  BY DEF TypeOK, Assigned, Exclusive, Works, Truthful, CallsBack, Final, QueueSettled, Steps, Becomes
<1>5. Accepted'
  BY DEF TypeOK, Assigned, Accepted, Truthful, CallsBack, Final, Steps, Becomes
<1>6. QueueSettled'
  BY DEF TypeOK, Row, Assigned, Exclusive, Works, Truthful, CallsBack, QueueSettled, Final
<1>7. BoughtByInsert'
  BY DEF TypeOK, Assigned, Exclusive, Works, BoughtByInsert, Steps, Becomes
<1>8. ValidatedOnce'
  BY DEF TypeOK, Assigned, BoughtByInsert, ValidatedOnce
<1>9. DeliveredMeansTold'
  BY DEF TypeOK, Row, Assigned, Exclusive, Works, Truthful, Accepted, QueueSettled, CallsBack, DeliveredMeansTold, Final
<1> QED
  BY <1>1, <1>2, <1>3, <1>4, <1>5, <1>6, <1>7, <1>8, <1>9

LEMMA CrashStep ==
    ASSUME IInv, Crash
    PROVE  IInv'
<1>d. job' \in [Jobs -> Job] /\ \A j \in Jobs : job'[j].at = "idle" /\ job'[j].order = None
  BY DEF Crash, Idle, Job, Steps
<1> USE SellerAssumption DEF IInv, Crash, orderVars, history
<1>1. TypeOK'
  BY <1>d DEF TypeOK, Row, Final, Statuses, Steps
<1>2. Assigned'
  BY <1>d DEF Assigned, Steps, Statuses, Becomes
<1>3. Exclusive'
  BY <1>d DEF TypeOK, Assigned, Exclusive, Works, Steps, Becomes
<1>4. Truthful'
  BY <1>d DEF TypeOK, Assigned, Exclusive, Works, Truthful, CallsBack, Final, QueueSettled, Steps, Becomes
<1>5. Accepted'
  BY <1>d DEF TypeOK, Assigned, Accepted, Truthful, CallsBack, Final, Steps, Becomes
<1>6. QueueSettled'
  BY <1>d DEF TypeOK, Row, Assigned, Exclusive, Works, Truthful, CallsBack, QueueSettled, Final
<1>7. BoughtByInsert'
  BY <1>d DEF TypeOK, Assigned, Exclusive, Works, BoughtByInsert, Steps, Becomes
<1>8. ValidatedOnce'
  BY <1>d DEF TypeOK, Assigned, BoughtByInsert, ValidatedOnce
<1>9. DeliveredMeansTold'
  BY <1>d DEF TypeOK, Row, Assigned, Exclusive, Works, Truthful, Accepted, QueueSettled, CallsBack, DeliveredMeansTold, Final
<1> QED
  BY <1>1, <1>2, <1>3, <1>4, <1>5, <1>6, <1>7, <1>8, <1>9

-----------------------------------------------------------------------------
LEMMA InitHolds == Init => IInv
<1> SUFFICES ASSUME Init PROVE IInv
  OBVIOUS
<1> USE SellerAssumption DEF Init, Idle
<1>1. TypeOK
  BY DEF TypeOK, Job, Row, Steps, Statuses, Final
<1>2. Assigned /\ Exclusive /\ Truthful /\ Accepted /\ QueueSettled
  BY DEF Assigned, Exclusive, Truthful, Accepted, QueueSettled, Works, CallsBack
<1>3. BoughtByInsert /\ ValidatedOnce /\ DeliveredMeansTold
  BY DEF BoughtByInsert, ValidatedOnce, DeliveredMeansTold
<1> QED
  BY <1>1, <1>2, <1>3 DEF IInv

LEMMA StepHolds == IInv /\ [Next]_vars => IInv'
<1> SUFFICES ASSUME IInv, [Next]_vars PROVE IInv'
  OBVIOUS
<1>1. ASSUME NEW j \in Jobs, Advance(j) \/ StatementFails(j) PROVE IInv'
  BY <1>1, LookStep, InsertStep, ClaimStep, ExecuteStep, PersistStep, EnqueueStep,
     PostStep, RecordStep, StatementFailsStep DEF Advance
<1>2. ASSUME NEW j \in Jobs, NEW o \in Orders,
             Request(j, o) \/ RetryDue(j, o) \/ RetryByHand(j, o)
      PROVE  IInv'
  BY <1>2, RequestStep, RetryDueStep, RetryByHandStep
<1>3. ASSUME NEW o \in Orders, GiveUp(o) \/ LeaseEnds(o) \/ BackoffEnds(o)
      PROVE  IInv'
  BY <1>3, GiveUpStep, LeaseEndsStep, BackoffEndsStep
<1>4. CASE Crash
  BY <1>4, CrashStep
<1>5. CASE UNCHANGED vars
  BY <1>5 DEF vars, IInv, TypeOK, Assigned, Exclusive, Truthful, Accepted,
     QueueSettled, BoughtByInsert, ValidatedOnce, DeliveredMeansTold, Works, CallsBack
<1> QED
  BY <1>1, <1>2, <1>3, <1>4, <1>5 DEF Next

LEMMA Invariance == Spec => []IInv
  BY InitHolds, StepHolds, PTL DEF Spec

(***************************************************************************)
(* Orders, queue and handlers are well typed; above all, no status is      *)
(* stored that the CHECK of seller_orders would refuse.                    *)
(***************************************************************************)
THEOREM SellerTypeCorrect == Spec => []TypeOK
<1>1. IInv => TypeOK
  BY DEF IInv
<1> QED
  BY <1>1, Invariance, PTL

(***************************************************************************)
(* However many requests repeat an order and whatever crashes, a paid      *)
(* validation of the Digiflazz channel is bought once.                     *)
(***************************************************************************)
THEOREM ValidationsBoughtOnce == Spec => []ValidatedOnce
<1>1. IInv => ValidatedOnce
  BY DEF IInv
<1> QED
  BY <1>1, Invariance, PTL

(***************************************************************************)
(* A callback marked as delivered by an answer has told how the order      *)
(* ended, however many senders overlap.                                    *)
(***************************************************************************)
THEOREM DeliveriesTold == Spec => []DeliveredMeansTold
<1>1. IInv => DeliveredMeansTold
  BY DEF IInv
<1> QED
  BY <1>1, Invariance, PTL

-----------------------------------------------------------------------------
\* SellerOrders implements SellerPromise.  What the abstract state is made of:
Shown(o) == IF status[o] \in Final THEN status[o] ELSE "open"
Outcomes == [o \in Orders |-> Shown(o)]
Executors == [o \in Orders |-> Executing(o)]

LEMMA AbstractState ==
    /\ Promise!vars = <<Outcomes, Executors, told>>
    /\ Promise!vars' = <<Outcomes', Executors', told'>>
BY DEF Promise!vars, Outcomes, Executors, Shown

\* A step that leaves all executors, outcomes and reports alone is a stutter.
LEMMA NothingSeen ==
    ASSUME \A o \in Orders : Executing(o)' = Executing(o),
           \A o \in Orders : Shown(o)' = Shown(o),
           told' = told
    PROVE  UNCHANGED Promise!vars
<1>1. Executors' = Executors /\ Outcomes' = Outcomes
  BY DEF Executors, Outcomes
<1> QED
  BY <1>1, AbstractState

\* The executors of an order change with the job that moves only.
LEMMA SameExecutors ==
    ASSUME NEW j \in Jobs, NEW step, NEW o, NEW result, NEW ok,
           Becomes(j, step, o, result, ok),
           Works(j) <=> step \in {"execute", "persist"},
           Works(j) => o = job[j].order
    PROVE  \A p \in Orders : Executing(p)' = Executing(p)
<1> TAKE p \in Orders
<1>1. \A k \in Jobs : k \in Executing(p)' <=> k \in Executing(p)
  BY DEF Becomes, Works, Executing
<1> QED
  BY <1>1 DEF Executing

\* A job that starts to execute an open order which nobody executes.
LEMMA BeginSeen ==
    ASSUME IInv, NEW j \in Jobs, NEW o \in Orders, NEW result, NEW ok,
           ~Works(j), Becomes(j, "execute", o, result, ok),
           status[o] \in {"none", "pending"},
           status' = [status EXCEPT ![o] = "processing"],
           told' = told
    PROVE  Promise!Begin(o, j)
<1>1. Executing(o) = {}
  BY DEF IInv, Exclusive, Works, Executing
<1>2. Executing(o)' = {j}
  BY <1>1 DEF Becomes, Executing
<1>3. \A p \in Orders \ {o} : Executing(p)' = Executing(p)
  <2> TAKE p \in Orders \ {o}
  <2>1. \A k \in Jobs : k \in Executing(p)' <=> k \in Executing(p)
    BY DEF Becomes, Works, Executing
  <2> QED
    BY <2>1 DEF Executing
<1>4. Executors' = [Executors EXCEPT ![o] = {j}]
  BY <1>2, <1>3 DEF Executors
<1>5. \A p \in Orders : Shown(p)' = Shown(p)
  BY DEF IInv, TypeOK, Shown, Final
<1>6. Outcomes' = Outcomes /\ Outcomes[o] = "open" /\ Executors[o] = {}
  BY <1>1, <1>5 DEF Outcomes, Executors, Shown, Final
<1> QED
  BY <1>4, <1>6 DEF Promise!Begin, Outcomes, Executors, Shown

\* A job that stops executing an order and leaves it open or settled.
LEMMA FinishSeen ==
    ASSUME IInv, NEW j \in Jobs, NEW o \in Orders, NEW step, NEW result, NEW ok,
           Works(j), job[j].order = o,
           step \notin {"execute", "persist"},
           Becomes(j, step, o, result, ok) \/ Becomes(j, step, None, result, ok),
           \A p \in Orders \ {o} : status'[p] = status[p],
           told' = told
    PROVE  Promise!Finish(o)
<1>1. Executing(o) = {j}
  BY DEF IInv, Exclusive, Works, Executing
<1>2. Executing(o)' = {}
  BY <1>1 DEF Becomes, Executing
<1>3. \A p \in Orders \ {o} : Executing(p)' = Executing(p)
  <2> TAKE p \in Orders \ {o}
  <2>1. \A k \in Jobs : k \in Executing(p)' <=> k \in Executing(p)
    BY DEF Becomes, Works, Executing
  <2> QED
    BY <2>1 DEF Executing
<1>4. Executors' = [Executors EXCEPT ![o] = {}] /\ Executors[o] # {}
  BY <1>1, <1>2, <1>3 DEF Executors
<1>5. Shown(o)' \in {"open", "success", "failed"}
  BY DEF Shown, Final
<1>6. Outcomes' = [Outcomes EXCEPT ![o] = Shown(o)']
  BY <1>1 DEF Outcomes, Shown
<1> QED
  BY <1>4, <1>5, <1>6 DEF Promise!Finish, Outcomes, Executors, Shown

\* A job that moves on between two steps of which neither executes an order.
LEMMA QuietStep ==
    ASSUME IInv, NEW j \in Jobs, ~Works(j),
           NEW step \in Steps \ {"execute", "persist"}, NEW o, NEW result, NEW ok,
           Becomes(j, step, o, result, ok),
           UNCHANGED status, UNCHANGED told
    PROVE  UNCHANGED Promise!vars
<1>1. \A p \in Orders : Executing(p)' = Executing(p)
  BY SameExecutors
<1> QED
  BY <1>1, NothingSeen DEF Shown

LEMMA RequestSeen ==
    ASSUME IInv, NEW j \in Jobs, NEW o \in Orders, Request(j, o)
    PROVE  UNCHANGED Promise!vars
<1>1. PICK step \in {"insert", "look"} :
         job' = [job EXCEPT ![j] = [job[j] EXCEPT !.at = step, !.order = o]]
  BY DEF Request
<1>2. Becomes(j, step, o, job[j].result, job[j].ok)
  BY <1>1 DEF IInv, TypeOK, Becomes, Job
<1>3. ~Works(j) /\ UNCHANGED status /\ UNCHANGED told
  BY DEF Request, Works, orderVars, history
<1> QED
  BY <1>2, <1>3, QuietStep DEF Steps

LEMMA LookSeen ==
    ASSUME IInv, NEW j \in Jobs, Look(j)
    PROVE  UNCHANGED Promise!vars
<1>1. ~Works(j) /\ UNCHANGED status /\ UNCHANGED told
  BY DEF Look, Works, orderVars, history
<1>2. CASE \E step \in {"insert", "claim"} : Goes(j, step)
  BY <1>1, <1>2, JobGoes, QuietStep DEF IInv, Steps
<1>3. CASE Stops(j)
  BY <1>1, <1>3, JobStops, QuietStep DEF IInv, Steps
<1> QED
  BY <1>2, <1>3 DEF Look

LEMMA InsertSeen ==
    ASSUME IInv, NEW j \in Jobs, Insert(j)
    PROVE  [Promise!Next]_Promise!vars
<1>1. job[j].order \in Orders /\ ~Works(j) /\ UNCHANGED told
  BY DEF IInv, Assigned, Insert, Works, history
<1>2. CASE UNCHANGED orderVars /\ Goes(j, IF job[j].order \in Irs THEN "claim" ELSE "look")
  <2>1. PICK step \in {"claim", "look"} : Goes(j, step)
    BY <1>2
  <2> QED
    BY <1>1, <1>2, <2>1, JobGoes, QuietStep DEF IInv, Steps, orderVars
<1>3. CASE /\ status[job[j].order] = "none" /\ Goes(j, "claim")
           /\ status' = [status EXCEPT ![job[j].order] = "pending"]
  <2>1. Becomes(j, "claim", job[j].order, job[j].result, job[j].ok)
    BY <1>3, JobGoes DEF IInv, Steps
  <2>2. \A p \in Orders : Executing(p)' = Executing(p)
    BY <1>1, <2>1, SameExecutors
  <2>3. \A p \in Orders : Shown(p)' = Shown(p)
    BY <1>1, <1>3 DEF IInv, TypeOK, Shown, Final
  <2> QED
    BY <1>1, <2>2, <2>3, NothingSeen
<1>4. CASE /\ status[job[j].order] = "none" /\ Goes(j, "execute")
           /\ status' = [status EXCEPT ![job[j].order] = "processing"]
  <2>1. Becomes(j, "execute", job[j].order, job[j].result, job[j].ok)
    BY <1>4, JobGoes DEF IInv, Steps
  <2>2. Promise!Begin(job[j].order, j)
    BY <1>1, <1>4, <2>1, BeginSeen
  <2> QED
    BY <1>1, <2>2 DEF Promise!Next
<1> QED
  BY <1>2, <1>3, <1>4 DEF Insert

LEMMA ClaimSeen ==
    ASSUME IInv, NEW j \in Jobs, Claim(j)
    PROVE  [Promise!Next]_Promise!vars
<1>1. job[j].order \in Orders /\ ~Works(j) /\ UNCHANGED told
  BY DEF IInv, Assigned, Claim, Works, history
<1>2. CASE Stops(j) /\ UNCHANGED orderVars
  BY <1>1, <1>2, JobStops, QuietStep DEF IInv, Steps, orderVars
<1>3. CASE /\ Claimable(job[j].order) /\ Goes(j, "execute")
           /\ status' = [status EXCEPT ![job[j].order] = "processing"]
  <2>1. Becomes(j, "execute", job[j].order, job[j].result, job[j].ok)
    BY <1>3, JobGoes DEF IInv, Steps
  <2>2. Promise!Begin(job[j].order, j)
    BY <1>1, <1>3, <2>1, BeginSeen DEF Claimable
  <2> QED
    BY <1>1, <2>2 DEF Promise!Next
<1> QED
  BY <1>2, <1>3 DEF Claim

LEMMA ExecuteSeen ==
    ASSUME IInv, NEW j \in Jobs, Execute(j)
    PROVE  UNCHANGED Promise!vars
<1>1. PICK result \in Statuses :
         job' = [job EXCEPT ![j] = [job[j] EXCEPT !.at = "persist", !.result = result]]
  BY DEF Execute, Normalized, Statuses, Final
<1>2. Becomes(j, "persist", job[j].order, result, job[j].ok)
  BY <1>1 DEF IInv, TypeOK, Becomes, Job
<1>3. \A p \in Orders : Executing(p)' = Executing(p)
  BY <1>2, SameExecutors DEF Execute, Works
<1> QED
  BY <1>3, NothingSeen DEF Execute, orderVars, history, Shown

LEMMA PersistSeen ==
    ASSUME IInv, NEW j \in Jobs, Persist(j)
    PROVE  Promise!Next
<1>1. job[j].order \in Orders /\ Works(j) /\ UNCHANGED told
  BY DEF IInv, Assigned, Persist, Works, history
<1>2. \A p \in Orders \ {job[j].order} : status'[p] = status[p]
  BY DEF Persist, orderVars, IInv, TypeOK
<1>3. CASE Goes(j, "enqueue")
  <2>1. Becomes(j, "enqueue", job[j].order, job[j].result, job[j].ok)
    BY <1>3, JobGoes DEF IInv, Steps
  <2> QED
    BY <1>1, <1>2, <2>1, FinishSeen DEF Promise!Next
<1>4. CASE Stops(j)
  <2>1. Becomes(j, "idle", None, "none", FALSE)
    BY <1>4, JobStops DEF IInv
  <2> QED
    BY <1>1, <1>2, <2>1, FinishSeen DEF Promise!Next
<1> QED
  BY <1>3, <1>4 DEF Persist

LEMMA FailureSeen ==
    ASSUME IInv, NEW j \in Jobs, StatementFails(j)
    PROVE  [Promise!Next]_Promise!vars
<1>1. UNCHANGED status /\ UNCHANGED told
  BY DEF StatementFails, orderVars, history
<1>2. CASE job[j].at = "persist" /\ Stops(j)
  <2>1. Becomes(j, "idle", None, "none", FALSE)
    BY <1>2, JobStops DEF IInv
  <2>2. job[j].order \in Orders /\ Works(j)
    BY <1>2 DEF IInv, Assigned, Works
  <2> QED
    BY <1>1, <2>1, <2>2, FinishSeen DEF Promise!Next
<1>3. CASE job[j].at = "enqueue" /\ Goes(j, "send")
  BY <1>1, <1>3, JobGoes, QuietStep DEF IInv, Steps, Works
<1> QED
  BY <1>2, <1>3 DEF StatementFails

LEMMA EnqueueSeen ==
    ASSUME IInv, NEW j \in Jobs, Enqueue(j)
    PROVE  UNCHANGED Promise!vars
<1>1. ~Works(j) /\ UNCHANGED status /\ UNCHANGED told /\ Goes(j, "send")
  BY DEF Enqueue, Works, orderVars, history
<1> QED
  BY <1>1, JobGoes, QuietStep DEF IInv, Steps

\* A final word that is received is the word the order was settled with.
LEMMA PostSeen ==
    ASSUME IInv, NEW j \in Jobs, Post(j)
    PROVE  [Promise!Next]_Promise!vars
<1> DEFINE o == job[j].order
<1>1. PICK received \in BOOLEAN, ok \in BOOLEAN :
         /\ job' = [job EXCEPT ![j] = [job[j] EXCEPT !.at = "sent", !.ok = ok]]
         /\ told' = IF received THEN [told EXCEPT ![o] = @ \cup ({job[j].result} \cap Final)]
                    ELSE told
  BY DEF Post
<1>2. Becomes(j, "sent", o, job[j].result, ok) /\ o \in Orders
  <2>1. job \in [Jobs -> Job]
    BY DEF IInv, TypeOK
  <2>2. Becomes(j, "sent", o, job[j].result, ok)
    BY <1>1, <2>1 DEF Becomes, Job
  <2>3. o \in Orders
    BY DEF IInv, Assigned, Post
  <2> QED
    BY <2>2, <2>3
<1>3. \A p \in Orders : Executing(p)' = Executing(p)
  BY <1>2, SameExecutors DEF Post, Works
<1>4. Executors' = Executors /\ Outcomes' = Outcomes
  BY <1>3 DEF Executors, Outcomes, Shown, Post, orderVars
<1>5. CASE told' = told
  BY <1>4, <1>5, AbstractState
<1>6. CASE job[j].result \in Final /\ told' = [told EXCEPT ![o] = @ \cup {job[j].result}]
  <2>1. Shown(o) = job[j].result /\ Shown(o) # "open"
    BY <1>6 DEF IInv, Truthful, CallsBack, Shown, Final, Post
  <2>2. Promise!Tell(o)
    BY <1>2, <1>4, <1>6, <2>1 DEF Promise!Tell, Outcomes, Executors, Shown
  <2> QED
    BY <1>2, <2>2 DEF Promise!Next
<1>7. told' = told \/ /\ job[j].result \in Final
                      /\ told' = [told EXCEPT ![o] = @ \cup {job[j].result}]
  <2>1. job[j].result \notin Final => {job[j].result} \cap Final = {}
    OBVIOUS
  <2>2. job[j].result \in Final => {job[j].result} \cap Final = {job[j].result}
    OBVIOUS
  <2> QED
    BY <1>1, <1>2, <2>1, <2>2 DEF IInv, TypeOK
<1> QED
  BY <1>5, <1>6, <1>7

LEMMA RecordSeen ==
    ASSUME IInv, NEW j \in Jobs, Record(j)
    PROVE  UNCHANGED Promise!vars
<1>1. ~Works(j) /\ UNCHANGED status /\ UNCHANGED told /\ Stops(j)
  BY DEF Record, Works, orderVars, history
<1> QED
  BY <1>1, JobStops, QuietStep DEF IInv, Steps

LEMMA RetrySeen ==
    ASSUME IInv, NEW j \in Jobs, NEW o \in Orders, RetryDue(j, o) \/ RetryByHand(j, o)
    PROVE  UNCHANGED Promise!vars
<1>1. Sends(j, o)
  BY DEF RetryDue, RetryByHand
<1>2. ~Works(j) /\ UNCHANGED status /\ UNCHANGED told
  BY <1>1 DEF Sends, Works, orderVars
<1> QED
  BY <1>1, <1>2, JobSends, QuietStep DEF IInv, Steps

LEMMA CrashSeen ==
    ASSUME IInv, Crash
    PROVE  Promise!Lose
<1>1. \A o \in Orders : Executing(o)' = {}
  BY DEF Crash, Executing, Idle
<1>2. Executors' = [o \in Orders |-> {}]
  BY <1>1 DEF Executors
<1>3. Outcomes' = Outcomes /\ told' = told
  BY DEF Crash, orderVars, history, Outcomes, Shown
<1> QED
  BY <1>2, <1>3 DEF Promise!Lose, Outcomes, Executors, Shown

LEMMA InitPromised == Init => Promise!Init
<1> SUFFICES ASSUME Init PROVE Promise!Init
  OBVIOUS
<1>1. \A o \in Orders : Executing(o) = {} /\ Shown(o) = "open"
  BY DEF Init, Executing, Idle, Shown, Final
<1>2. Outcomes = [o \in Orders |-> "open"] /\ Executors = [o \in Orders |-> {}]
  BY <1>1 DEF Outcomes, Executors
<1> QED
  BY <1>2 DEF Init, Promise!Init, Outcomes, Executors, Shown

LEMMA StepPromised == IInv /\ [Next]_vars => [Promise!Next]_Promise!vars
<1> SUFFICES ASSUME IInv, [Next]_vars PROVE [Promise!Next]_Promise!vars
  OBVIOUS
<1>1. ASSUME NEW j \in Jobs, Advance(j) \/ StatementFails(j)
      PROVE  [Promise!Next]_Promise!vars
  BY <1>1, LookSeen, InsertSeen, ClaimSeen, ExecuteSeen, PersistSeen, EnqueueSeen,
     PostSeen, RecordSeen, FailureSeen DEF Advance
<1>2. ASSUME NEW j \in Jobs, NEW o \in Orders,
             Request(j, o) \/ RetryDue(j, o) \/ RetryByHand(j, o)
      PROVE  [Promise!Next]_Promise!vars
  BY <1>2, RequestSeen, RetrySeen
<1>3. ASSUME NEW o \in Orders, GiveUp(o) \/ LeaseEnds(o) \/ BackoffEnds(o)
      PROVE  UNCHANGED Promise!vars
  BY <1>3, NothingSeen
     DEF GiveUp, LeaseEnds, BackoffEnds, orderVars, history, Executing, Shown
<1>4. CASE Crash
  BY <1>4, CrashSeen DEF Promise!Next
<1>5. CASE UNCHANGED vars
  BY <1>5, NothingSeen DEF vars, Executing, Shown
<1> QED
  BY <1>1, <1>2, <1>3, <1>4, <1>5 DEF Next

(***************************************************************************)
(* Both channels keep the promise to resellers through repeated requests,  *)
(* retries, crashes and failing statements: one worker at a time executes  *)
(* an order, it is settled once, and nothing else is called back.          *)
(***************************************************************************)
THEOREM ResellersServed == Spec => ResellerPromise
<1>1. Init => Promise!Init
  BY InitPromised
<1>2. IInv /\ [Next]_vars => [Promise!Next]_Promise!vars
  BY StepPromised
<1> QED
  BY <1>1, <1>2, Invariance, PTL DEF Spec, ResellerPromise, Promise!Spec

-----------------------------------------------------------------------------
\* A time for the next attempt is in a row, and such rows are about settled
\* orders (QueueSettled).
TimesInRows == \A o \in Orders : callback[o].next # "null" => callback[o].there

InHand(o) ==
    status[o] \in Final /\ callback[o].delivered = "no" =>
        Scheduled(o) \/ Stranded(o) \/ \E j \in Jobs : Carries(j, o)

AllInHand == \A o \in Required : InHand(o)

\* A step that leaves the queue alone loses nothing as long as the handlers that
\* carry a callback still do, or when it is one of the troubles.
LEMMA QueueUntouched ==
    ASSUME IInv, TimesInRows, NEW o \in Required, InHand(o), UNCHANGED callback,
           status'[o] = status[o] \/ status'[o] \notin Final,
           \/ troubles' = troubles /\ \A k \in Jobs : Carries(k, o) => Carries(k, o)'
           \/ troubles' = troubles + 1
    PROVE  InHand(o)'
<1>1. o \in Orders /\ troubles \in Nat
  BY SellerAssumption DEF IInv, TypeOK
<1>2. CASE troubles' = troubles /\ \A k \in Jobs : Carries(k, o) => Carries(k, o)'
  BY <1>2 DEF InHand, Scheduled, Stranded
<1>3. CASE troubles' = troubles + 1
  BY <1>1, <1>3 DEF InHand, Scheduled, Stranded, TimesInRows
<1> QED
  BY <1>2, <1>3

\* A step of a handler that carries nothing.
LEMMA OtherHands ==
    ASSUME IInv, TimesInRows, AllInHand, NEW j \in Jobs,
           job[j].at \notin {"enqueue", "send", "sent"},
           \A k \in Jobs \ {j} : job'[k] = job[k],
           \A o \in Orders : status'[o] = status[o] \/ status'[o] \notin Final,
           UNCHANGED <<callback, troubles>>
    PROVE  AllInHand' /\ TimesInRows'
<1>1. \A o \in Required : o \in Orders
  BY SellerAssumption
<1>2. \A o, k : Carries(k, o) /\ k \in Jobs => Carries(k, o)'
  BY DEF Carries
<1>3. AllInHand'
  BY <1>1, <1>2, QueueUntouched DEF AllInHand
<1> QED
  BY <1>3 DEF TimesInRows

LEMMA WorkInHand ==
    ASSUME IInv, TimesInRows, AllInHand, NEW j \in Jobs,
           Look(j) \/ Insert(j) \/ Claim(j) \/ Execute(j)
    PROVE  AllInHand' /\ TimesInRows'
<1>1. job[j].at \notin {"enqueue", "send", "sent"}
  BY DEF Look, Insert, Claim, Execute
<1>2. \A k \in Jobs \ {j} : job'[k] = job[k]
  BY DEF Look, Insert, Claim, Execute, Goes, Stops, IInv, TypeOK
<1>3. \A o \in Orders : status'[o] = status[o] \/ status'[o] \notin Final
  BY DEF Look, Insert, Claim, Execute, orderVars, Final, IInv, TypeOK
<1>4. UNCHANGED <<callback, troubles>>
  BY DEF Look, Insert, Claim, Execute
<1> QED
  BY <1>1, <1>2, <1>3, <1>4, OtherHands

LEMMA SendsInHand ==
    ASSUME IInv, TimesInRows, AllInHand, NEW j \in Jobs, NEW o \in Orders,
           Request(j, o) \/ RetryDue(j, o) \/ RetryByHand(j, o)
    PROVE  AllInHand' /\ TimesInRows'
<1>1. job[j].at = "idle"
  BY DEF Request, RetryDue, RetryByHand, Sends
<1>2. \A k \in Jobs \ {j} : job'[k] = job[k]
  BY DEF Request, RetryDue, RetryByHand, Sends, IInv, TypeOK
<1>3. UNCHANGED <<status, callback, troubles>>
  BY DEF Request, RetryDue, RetryByHand, Sends, orderVars
<1> QED
  BY <1>1, <1>2, <1>3, OtherHands

\* Who settles an order goes on to write its row.
LEMMA PersistInHand ==
    ASSUME IInv, TimesInRows, AllInHand, NEW j \in Jobs, Persist(j)
    PROVE  AllInHand' /\ TimesInRows'
<1> DEFINE o == job[j].order
<1>1. job[j].at = "persist" /\ o \in Orders /\ UNCHANGED <<callback, troubles>>
  BY DEF Persist, IInv, Assigned
<1>2. \A k \in Jobs \ {j} : job'[k] = job[k]
  BY DEF Persist, Goes, Stops, IInv, TypeOK
<1> HIDE DEF o
<1>3. CASE UNCHANGED status
  BY <1>1, <1>2, <1>3, OtherHands
<1>4. CASE /\ status' = [status EXCEPT ![o] = job[j].result]
           /\ IF job[j].result \in Final /\ o \in Required
              THEN Goes(j, "enqueue") ELSE Stops(j)
  <2>1. \A p \in Orders \ {o} : status'[p] = status[p]
    BY <1>4 DEF IInv, TypeOK
  <2>2. ASSUME NEW p \in Required, p # o PROVE InHand(p)'
    <3>1. \A k \in Jobs : Carries(k, p) => Carries(k, p)'
      BY <1>1, <1>2 DEF Carries
    <3>2. p \in Orders /\ InHand(p)
      BY SellerAssumption DEF AllInHand
    <3> QED
      BY <1>1, <2>1, <2>2, <3>1, <3>2, QueueUntouched
  <2>3. CASE o \in Required /\ job[j].result \in Final
    <3>1. job'[j].order = o /\ job'[j].at = "enqueue"
      BY <1>4, <2>3, JobGoes DEF IInv, Steps, Becomes, o
    <3>2. PICK p \in Required : p = o
      BY <2>3
    <3>3. InHand(p)'
      BY <3>1, <3>2 DEF InHand, Carries
    <3> QED
      BY <1>1, <2>2, <3>2, <3>3 DEF AllInHand, TimesInRows
  <2>4. CASE o \notin Required \/ job[j].result \notin Final
    <3>1. status'[o] = job[j].result
      BY <1>1, <1>4 DEF IInv, TypeOK
    <3>2. \A p \in Required : InHand(p)'
      BY <2>2, <2>4, <3>1 DEF InHand
    <3> QED
      BY <1>1, <3>2 DEF AllInHand, TimesInRows
  <2> QED
    BY <2>3, <2>4
<1> QED
  BY <1>3, <1>4 DEF Persist, orderVars, o

\* The row is written, and its writer goes on to the first attempt.
LEMMA EnqueueInHand ==
    ASSUME IInv, TimesInRows, AllInHand, NEW j \in Jobs, Enqueue(j)
    PROVE  AllInHand' /\ TimesInRows'
<1> DEFINE o == job[j].order
<1>1. job[j].at = "enqueue" /\ o \in Orders /\ UNCHANGED <<status, troubles>>
  BY DEF Enqueue, orderVars, IInv, Assigned
<1>2. /\ callback' = [callback EXCEPT ![o] = [callback[o] EXCEPT !.there = TRUE]]
      /\ callback \in [Orders -> Row]
  BY DEF Enqueue, IInv, TypeOK
<1>3. Becomes(j, "send", o, job[j].result, job[j].ok)
  BY JobGoes DEF Enqueue, IInv, Steps
<1> HIDE DEF o
<1>4. \A p \in Orders : /\ callback'[p].next = callback[p].next
                        /\ callback'[p].delivered = callback[p].delivered
                        /\ callback[p].there => callback'[p].there
  BY <1>1, <1>2 DEF Row
<1>5. callback'[o].there
  BY <1>1, <1>2 DEF Row
<1>6. ASSUME NEW p \in Orders, NEW k \in Jobs, Carries(k, p) PROVE Carries(k, p)'
  <2>1. CASE k = j
    BY <1>1, <1>3, <1>5, <1>6, <2>1 DEF Becomes, Carries, o
  <2>2. CASE k # j
    BY <1>3, <1>4, <1>6, <2>2 DEF Becomes, Carries
  <2> QED
    BY <2>1, <2>2
<1>7. ASSUME NEW p \in Required PROVE InHand(p)'
  <2>1. p \in Orders /\ InHand(p)
    BY SellerAssumption DEF AllInHand
  <2> QED
    BY <1>1, <1>4, <1>6, <2>1 DEF InHand, Scheduled, Stranded
<1> QED
  BY <1>4, <1>7 DEF AllInHand, TimesInRows

LEMMA TroubleInHand ==
    ASSUME IInv, TimesInRows, AllInHand, Crash \/ \E j \in Jobs : StatementFails(j)
    PROVE  AllInHand' /\ TimesInRows'
<1>1. troubles' = troubles + 1 /\ UNCHANGED <<status, callback>>
  BY DEF Crash, StatementFails, orderVars
<1> QED
  BY <1>1, QueueUntouched DEF AllInHand, TimesInRows

LEMMA PostInHand ==
    ASSUME IInv, TimesInRows, AllInHand, NEW j \in Jobs, Post(j)
    PROVE  AllInHand' /\ TimesInRows'
<1>1. job[j].at = "send" /\ UNCHANGED <<status, callback, troubles>>
  BY DEF Post, orderVars
<1>2. job \in [Jobs -> Job]
  BY DEF IInv, TypeOK
<1>3. /\ \A k \in Jobs \ {j} : job'[k] = job[k]
      /\ job'[j].at = "sent" /\ job'[j].order = job[j].order
  BY <1>2 DEF Post, Job
<1>4. \A o \in Required, k \in Jobs : Carries(k, o) => Carries(k, o)'
  BY <1>1, <1>3 DEF Carries
<1> QED
  BY <1>1, <1>4, QueueUntouched DEF AllInHand, TimesInRows

\* An attempt that is recorded has delivered the callback or dated the next one.
LEMMA RecordInHand ==
    ASSUME IInv, TimesInRows, AllInHand, NEW j \in Jobs, Record(j)
    PROVE  AllInHand' /\ TimesInRows'
<1> DEFINE o == job[j].order
<1>1. job[j].at = "sent" /\ o \in Orders /\ UNCHANGED <<status, troubles>>
  BY DEF Record, orderVars, IInv, Assigned
<1>2. callback' = [callback EXCEPT ![o] = Recorded(j, callback[o])] /\ callback[o] \in Row
  BY <1>1 DEF Record, IInv, TypeOK
<1>3. \A k \in Jobs \ {j} : job'[k] = job[k]
  BY DEF Record, Stops, IInv, TypeOK
<1> HIDE DEF o
<1>4. callback'[o] = Recorded(j, callback[o]) /\ \A p \in Orders \ {o} : callback'[p] = callback[p]
  BY <1>1, <1>2 DEF IInv, TypeOK
<1>5. CASE ~callback[o].there
  <2>1. callback' = callback
    BY <1>2, <1>5 DEF Recorded, IInv, TypeOK
  <2>2. \A p \in Required, k \in Jobs : Carries(k, p) => Carries(k, p)'
    BY <1>1, <1>3, <1>5, <2>1 DEF Carries, o
  <2> QED
    BY <1>1, <2>1, <2>2, QueueUntouched DEF AllInHand, TimesInRows
<1>6. CASE callback[o].there
  <2>1. /\ callback'[o].there
        /\ callback'[o].delivered = "yes" \/ callback'[o].next = "later"
    <3>1. CASE Delivered(j)
      <4>1. callback'[o] = [callback[o] EXCEPT !.delivered = "yes", !.next = "null"]
        BY <1>4, <1>6, <3>1 DEF Recorded
      <4> QED
        BY <1>2, <1>6, <4>1 DEF Row
    <3>2. CASE ~Delivered(j)
      <4>1. callback'[o] = [callback[o] EXCEPT !.next = "later"]
        BY <1>4, <1>6, <3>2 DEF Recorded, Backoff
      <4> QED
        BY <1>2, <1>6, <4>1 DEF Row
    <3> QED
      BY <3>1, <3>2
  <2>2. ASSUME NEW p \in Required PROVE InHand(p)'
    <3>1. CASE p = o
      BY <2>1, <3>1 DEF InHand, Scheduled
    <3>2. CASE p # o
      <4>1. p \in Orders /\ InHand(p) /\ callback'[p] = callback[p]
        BY <1>4, <3>2, SellerAssumption DEF AllInHand
      <4>2. \A k \in Jobs : Carries(k, p) => Carries(k, p)'
        BY <1>1, <1>3, <3>2, <4>1 DEF Carries, o
      <4> QED
        BY <1>1, <4>1, <4>2 DEF InHand, Scheduled, Stranded
    <3> QED
      BY <3>1, <3>2
  <2> QED
    BY <1>4, <2>1, <2>2 DEF AllInHand, TimesInRows
<1> QED
  BY <1>5, <1>6

\* The route that gives up takes the order off everybody's hands; the clock
\* leaves it where it is.
LEMMA RowInHand ==
    ASSUME IInv, TimesInRows, AllInHand, NEW o \in Orders,
           GiveUp(o) \/ LeaseEnds(o) \/ BackoffEnds(o)
    PROVE  AllInHand' /\ TimesInRows'
<1>1. UNCHANGED <<status, job, troubles>> /\ callback \in [Orders -> Row]
  BY DEF GiveUp, LeaseEnds, BackoffEnds, orderVars, IInv, TypeOK
<1>2. \A p \in Orders : /\ callback'[p].there = callback[p].there
                        /\ callback[p].next # "null" <=> callback'[p].next # "null"
                        /\ callback'[p].delivered = "no" => callback[p].delivered = "no"
  <2>1. CASE GiveUp(o)
    BY <1>1, <2>1 DEF GiveUp, Row
  <2>2. CASE LeaseEnds(o)
    BY <2>2 DEF LeaseEnds
  <2>3. CASE BackoffEnds(o)
    BY <1>1, <2>3 DEF BackoffEnds, Row
  <2> QED
    BY <2>1, <2>2, <2>3
<1>3. ASSUME NEW p \in Required PROVE InHand(p)'
  <2>1. p \in Orders /\ InHand(p)
    BY SellerAssumption DEF AllInHand
  <2>2. \A k \in Jobs : Carries(k, p) => Carries(k, p)'
    BY <1>1, <1>2, <2>1 DEF Carries
  <2> QED
    BY <1>1, <1>2, <2>1, <2>2 DEF InHand, Scheduled, Stranded
<1> QED
  BY <1>2, <1>3 DEF AllInHand, TimesInRows

(***************************************************************************)
(* For any number of orders and handlers: whatever stops where, a settled  *)
(* order whose callback is not delivered yet has a next attempt or a       *)
(* handler at work on it, unless a crash or a failing statement came       *)
(* before its first recorded attempt.  (That the callback then arrives     *)
(* needs fairness.)                                                        *)
(***************************************************************************)
THEOREM CallbacksInHand == Spec => []CallbackInHand
<1> DEFINE J == TimesInRows /\ AllInHand
<1>1. Init => J
  BY SellerAssumption DEF Init, TimesInRows, AllInHand, InHand, Final
<1>2. IInv /\ J /\ [Next]_vars => J'
  <2> SUFFICES ASSUME IInv, J, [Next]_vars PROVE J'
    OBVIOUS
  <2>1. CASE UNCHANGED vars
    <3>1. \A o, k : Carries(k, o) => Carries(k, o)'
      BY <2>1 DEF vars, Carries
    <3> QED
      BY <2>1, <3>1 DEF vars, TimesInRows, AllInHand, InHand, Scheduled, Stranded
  <2> QED
    BY <2>1, WorkInHand, SendsInHand, PersistInHand, EnqueueInHand, TroubleInHand,
       PostInHand, RecordInHand, RowInHand DEF Next, Advance
<1>3. J => CallbackInHand
  BY DEF AllInHand, InHand, CallbackInHand
<1> HIDE DEF J
<1> QED
  BY <1>1, <1>2, <1>3, Invariance, PTL DEF Spec
=============================================================================
