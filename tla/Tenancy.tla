-------------------------------- MODULE Tenancy --------------------------------
(***************************************************************************)
(* Organisations, their users and settings, and the channels they own: the *)
(* rows, who may reach a channel, and what decides whether the posts of a  *)
(* channel are approved by themselves.  There is no login yet; a request   *)
(* comes from a user, from a member of an organisation without an account, *)
(* or from the default administrator.                                      *)
(*                                                                         *)
(* Reading or changing settings takes two steps, the look for the row and  *)
(* the commit.  Unique columns make other operations one: the second of    *)
(* two insertions fails and changes nothing.                               *)
(***************************************************************************)
EXTENDS Integers, FiniteSets

CONSTANTS
    Slugs,          \* of organisations
    Platform,       \* GRABON_SLUG
    Emails,         \* of users; a user without one cannot make requests
    Usernames,      \* of channels
    Targets,        \* daily_target_posts that are asked for
    Requesters,     \* requests at work on settings at a time
    MostCalls       \* bound: requests that change something

TenancyAssumption ==
    /\ Platform \in Slugs
    /\ "" \notin Slugs \cup Emails
    /\ Targets \subseteq 1 .. 200
    /\ MostCalls \in Nat

VARIABLES
    orgs,        \* organizations
    accounts,    \* users, by email
    rules,       \* organization_settings; the row of each organisation, or NoRow
    channels,    \* channels
    request,     \* where each request for settings is
    calls,       \* such requests so far
    (* history *)
    said,        \* what was last changed, and committed, for each organisation
    addedBy      \* who added each channel

tenancyVars == <<orgs, accounts, rules, channels, request, calls, said, addedBy>>

\* The row of create_organization and of the first look; a target of 0 is NULL.
NoRow == [auto |-> FALSE, target |-> -1]
Defaults == [auto |-> FALSE, target |-> 0]

\* Nothing asked for in a field.
Same == [auto |-> {}, target |-> {}]

NoRequest == [at |-> "none", org |-> "", fields |-> Same, row |-> NoRow]

TenancyTypeOK ==
    /\ orgs \subseteq Slugs
    /\ \A a \in accounts : a.email \in Emails /\ a.org \in orgs
    /\ \A o \in Slugs \ orgs : rules[o] = NoRow
    /\ \A c \in channels : c.name \in Usernames /\ c.org \in orgs
    /\ \A r \in Requesters : request[r].at \in {"none", "look", "commit"}
    /\ calls \in 0 .. MostCalls

\* The database is new, or has the platform's organisation and its administrator.
TenancyInit ==
    /\ orgs \in {{}, {Platform}}
    /\ accounts \in {{[email |-> e, org |-> o, admin |-> TRUE] : o \in orgs} : e \in Emails}
    /\ rules = [o \in Slugs |-> NoRow]
    /\ channels = {}
    /\ request = [r \in Requesters |-> NoRequest]
    /\ calls = 0
    /\ said = [o \in Slugs |-> Defaults]
    /\ addedBy = [n \in Usernames |-> ""]

-----------------------------------------------------------------------------
(***************************************************************************)
(* Who is asking (get_current_user), and what for.                         *)
(***************************************************************************)
Users == {[id |-> a.email, org |-> a.org, admin |-> a.admin] : a \in accounts}

Members == {[id |-> "", org |-> o, admin |-> FALSE] : o \in orgs}

\* Without an administrator in the database the caller is one all the same.
Defaulted ==
    IF \E a \in accounts : a.org = Platform /\ a.admin THEN {}
    ELSE {[id |-> "", org |-> "", admin |-> TRUE]}

Callers == Users \cup Members \cup Defaulted

\* Variant: whoever is in the organisation of a channel reaches it.
ReachesInOrg(u, c) == u.admin \/ u.org = c.org

\* can_access_channel, of require_channel_access.
Reaches(u, c) == u.admin \/ (c.owner # "" /\ c.owner = u.id)

\* The channels of list_channels.
Listed(u) == {c \in channels : u.admin \/ (u.id # "" /\ c.owner = u.id)}

Manages(u, org) == u.admin \/ org = u.org

\* _resolve_org_id; "" if there is none.
SettingsOrg(u, asked) ==
    IF asked # "" /\ u.admin THEN asked
    ELSE IF u.org # "" THEN u.org
    ELSE IF Platform \in orgs THEN Platform ELSE ""

\* The organisation of a new channel.
ChannelOrg(u, asked) == SettingsOrg(u, asked)

Call == calls < MostCalls /\ calls' = calls + 1

-----------------------------------------------------------------------------
(***************************************************************************)
(* Organisations, users and channels.                                      *)
(***************************************************************************)
CreateOrganization(u, slug) ==
    /\ Call
    /\ u.admin
    /\ slug \notin orgs
    /\ orgs' = orgs \cup {slug}
    /\ rules' = [rules EXCEPT ![slug] = Defaults]
    /\ UNCHANGED <<accounts, channels, request, said, addedBy>>

\* Administrators are of the platform's organisation, whatever was asked for.
CreateUser(u, org, email, admin) ==
    /\ Call
    /\ Manages(u, org)
    /\ org \in orgs
    /\ \A a \in accounts : a.email # email
    /\ accounts' = accounts \cup {[email |-> email, org |-> org, admin |-> admin /\ org = Platform]}
    /\ UNCHANGED <<orgs, rules, channels, request, said, addedBy>>

\* A channel that is there stays what it is.  Its onboarding is in Cycles.
Onboard(u, name, asked) ==
    /\ Call
    /\ \A c \in channels : c.name # name
    /\ ChannelOrg(u, asked) \in orgs
    /\ channels' = channels \cup {[name |-> name, org |-> ChannelOrg(u, asked), auto |-> FALSE,
                                   owner |-> IF u.admin THEN "" ELSE u.id]}
    /\ addedBy' = [addedBy EXCEPT ![name] = IF u.admin THEN "" ELSE u.id]
    /\ UNCHANGED <<orgs, accounts, rules, request, said>>

ChangeChannel(c, d) ==
    /\ channels' = (channels \ {c}) \cup {d}
    /\ UNCHANGED <<orgs, accounts, rules, request, said, addedBy>>

Move(u, c, org) ==
    /\ Call
    /\ Reaches(u, c) /\ u.admin
    /\ org \in orgs
    /\ ChangeChannel(c, [c EXCEPT !.org = org])

\* The channel's own auto_approve.
SetFlag(u, c, auto) ==
    /\ Call
    /\ Reaches(u, c)
    /\ ChangeChannel(c, [c EXCEPT !.auto = auto])

DeleteChannel(u, c) ==
    /\ Call
    /\ Reaches(u, c)
    /\ channels' = channels \ {c}
    /\ addedBy' = [addedBy EXCEPT ![c.name] = ""]
    /\ UNCHANGED <<orgs, accounts, rules, request, said>>

-----------------------------------------------------------------------------
(***************************************************************************)
(* Settings.                                                               *)
(***************************************************************************)
\* A request that reads, which need not be counted, or one that changes some fields.
\* Reading what is there ends here.
Ask(r, u, asked, fields) ==
    LET org == SettingsOrg(u, asked)
    IN /\ IF fields = Same THEN UNCHANGED calls ELSE Call
       /\ request[r].at = "none"
       /\ org \in orgs
       /\ Manages(u, org)
       /\ request' = IF fields = Same /\ rules[org] # NoRow THEN request
                     ELSE [request EXCEPT ![r] = [at |-> "look", org |-> org, fields |-> fields,
                                                  row |-> NoRow]]
       /\ UNCHANGED <<orgs, accounts, rules, channels, said, addedBy>>

\* upsert_settings reads the row...
Look(r) ==
    /\ request[r].at = "look"
    /\ request' = [request EXCEPT ![r].at = "commit", ![r].row = rules[request[r].org]]
    /\ UNCHANGED <<orgs, accounts, rules, channels, calls, said, addedBy>>

Pick(values, otherwise) == IF values = {} THEN otherwise ELSE CHOOSE v \in values : TRUE

With(row, fields) == [auto |-> Pick(fields.auto, row.auto), target |-> Pick(fields.target, row.target)]

\* Variant: the row is written as it was read.
WrittenWhole(read, now, fields) == With(read, fields)

\* Only the fields that differ from what was read are in the UPDATE.
News(read, fields) == [f \in {"auto", "target"} |-> fields[f] \ {read[f]}]

WrittenSettings(read, now, fields) == With(now, News(read, fields))

\* ... and creates it, unless somebody else did, or updates it.
Commit(r) ==
    LET q == request[r]
        row == IF q.row = NoRow THEN With(Defaults, q.fields)
               ELSE WrittenSettings(q.row, rules[q.org], q.fields)
        taken == q.row = NoRow /\ rules[q.org] # NoRow
    IN /\ q.at = "commit"
       /\ rules' = IF taken THEN rules ELSE [rules EXCEPT ![q.org] = row]
       /\ said' = IF taken THEN said ELSE [said EXCEPT ![q.org] = With(@, News(q.row, q.fields))]
       /\ request' = [request EXCEPT ![r] = NoRequest]
       /\ UNCHANGED <<orgs, accounts, channels, calls, addedBy>>

\* What maybe_auto_publish goes by.
AutoApproves(c) == IF rules[c.org] # NoRow THEN rules[c.org].auto ELSE c.auto

-----------------------------------------------------------------------------
\* One field is changed at a time, or none.
Fields ==
    {Same} \cup {[Same EXCEPT !.auto = {v}] : v \in BOOLEAN}
           \cup {[Same EXCEPT !.target = {n}] : n \in Targets}

Directory(u) ==
    \/ \E slug \in Slugs : CreateOrganization(u, slug)
    \/ \E org \in orgs, email \in Emails, admin \in BOOLEAN : CreateUser(u, org, email, admin)
    \/ \E name \in Usernames, asked \in orgs \cup {""} : Onboard(u, name, asked)

ChannelCall(u, c) ==
    \/ \E org \in orgs : Move(u, c, org)
    \/ \E auto \in BOOLEAN : SetFlag(u, c, auto)
    \/ DeleteChannel(u, c)

Settle(r) ==
    \/ Look(r)
    \/ Commit(r)

TenancyNext ==
    \/ \E u \in Callers :
        \/ Directory(u)
        \/ \E c \in channels : ChannelCall(u, c)
        \/ \E r \in Requesters, asked \in orgs \cup {""}, fields \in Fields : Ask(r, u, asked, fields)
    \/ \E r \in Requesters : Settle(r)

TenancySpec == TenancyInit /\ [][TenancyNext]_tenancyVars

-----------------------------------------------------------------------------
(***************************************************************************)
(* Properties.                                                             *)
(***************************************************************************)

\* A channel stays with who added it: others who onboard its username, moves to another
\* organisation and later administrators change nothing of that, and the list shows just
\* the channels whose pages open (api/authz.py:71-81, api/routers/channels.py:49-75, 113-130).
ReachIsOwnership ==
    \A u \in Callers, c \in channels :
        /\ c \in Listed(u) <=> Reaches(u, c)
        /\ Reaches(u, c) <=> u.admin \/ (u.id # "" /\ u.id = addedBy[c.name])

\* The settings of an organisation are the last word on each field: overlapping changes
\* of two fields are both kept, reading them changes nothing that was said, and a channel
\* approves its posts by itself only if the last word is so, or its own flag is set and
\* nobody has so much as looked at the settings; a change to what was there when it was
\* looked up says nothing (tools/organizations.py:68-84,
\* api/routers/organizations.py:75-97, tools/content.py:1132-1143).
LastWordHolds ==
    /\ \A o \in orgs : rules[o] # NoRow => rules[o] = said[o]
    /\ \A c \in channels : AutoApproves(c) =>
            said[c.org].auto \/ (c.auto /\ rules[c.org] = NoRow)
=============================================================================
