SPECIFICATION FairSpec
CONSTANTS
    w1 = w1
    w2 = w2
    inv = inv
    trip = trip
    pod = pod
    NoEvent = NoEvent
    Workers = {w1, w2}
    MaxRows = 1
    Events = {inv, trip, pod}
    PodEvents = {pod}
    Recipients <- Contacts
    Looked = {trip}
    Timed = {"whatsapp"}
    MaxAttempts = 2
    StaleAfter = 1
    MaxHold = 1
    MaxFaults = 2
INVARIANTS
    CommTypeOK
    OneSender
    SentWasDelivered
    AckedIsQueued
PROPERTIES
    FinalStaysFinal
    TriedAgain
