SPECIFICATION Spec
CONSTANTS
    alice = alice
    bob = bob
    private = private
    group = group
    Users <- MCUsers
    Chats <- MCChats
    ChatsOf <- MCChatsOf
    Accounts = {a1, a2}
    Handlers = {h1, h2}
    Deliveries = {d1}
    Parts = 2
    MaxSubs = 1
    Nobody = Nobody
SYMMETRY Symmetry
INVARIANTS
    TypeOK
    SenderIsManageable
    RecordedIsShown
